----------------------------- MODULE OwnerSearch -----------------------------
(***************************************************************************)
(* `consumer owner` (internal/cmd/consumer, internal/scanner, natsctx):    *)
(* every context that can be reached is searched, stream by stream, for    *)
(* the consumers that filter one subject, and the likeliest current owner  *)
(* is named, while the work may be moving.  It classifies as Scan does, so *)
(* it shares the walk of Scanner; a request is either a scan or a search.  *)
(***************************************************************************)
EXTENDS Scanner, Lists

CONSTANTS
  Contexts,  \* the places in the list of contexts, given or installed
  Reaches,   \* the cluster of each: two may reach one, or be one context twice
  Subject,   \* --subject
  Rank       \* the order of what is found by its names, then by its place

Sights == Contexts \X Streams \X Consumers

ASSUME ContextsAssumption == Reaches \in [Contexts -> Clusters] /\ Subject # NoFilter
ASSUME RankAssumption ==
  \A a, b \in Sights : Rank[a] \in Nat /\ (a # b => Rank[a] # Rank[b])

\* The consumer that is seen through a connection.
On(a) == <<Reaches[a[1]], a[2], a[3]>>

VARIABLES
  search,    \* where the search is
  conns,     \* connections still to be searched
  conn,      \* the one under way, or the last
  matches,   \* the consumers of Subject found, in the order found
  unread     \* history: the sights of the subject that could not be looked at

ownerVars == <<search, conns, conn, matches, unread>>
unused == <<phase, all, next, rows, request, proposal>>

\* What can be seen of the subject in some places, streams and consumers.
SubjectIn(ks, ss, ns) == {a \in ks \X ss \X ns : FilterOf[<<a[2], a[3]>>] = Subject}

-----------------------------------------------------------------------------
\* Mutant: the longest silent one leads.
BetterOldest(m, o) ==
  \/ m.status = "ACTIVE" /\ o.status # "ACTIVE"
  \/ /\ (m.status = "ACTIVE") = (o.status = "ACTIVE")
     /\ \/ m.lastAck < o.lastAck
        \/ m.lastAck = o.lastAck /\ Rank[m.at] < Rank[o.at]

\* Active ones first, then the last ack, then the name.
Better(m, o) ==
  \/ m.status = "ACTIVE" /\ o.status # "ACTIVE"
  \/ /\ (m.status = "ACTIVE") = (o.status = "ACTIVE")
     /\ \/ m.lastAck > o.lastAck
        \/ m.lastAck = o.lastAck /\ Rank[m.at] < Rank[o.at]

Sorted(ms) == SortBy(ms, Better)

\* The first active match, if there is one.
Owner(ms) ==
  LET active == {i \in DOMAIN ms : ms[i].status = "ACTIVE"}
  IN  IF active = {} THEN {} ELSE {ms[Min(active)]}

-----------------------------------------------------------------------------
OwnerInit ==
  /\ search = "idle"
  /\ conns = {}
  /\ conn = NoName
  /\ matches = << >>
  /\ unread = {}

\* Without any context there is nothing to search.  Each is dialled, those that
\* cannot be reached are named and left out; the clock is read once they all
\* have been tried.
ConnectAll ==
  /\ search = "idle"
  /\ search' = IF Contexts = {} THEN "failed" ELSE "contexts"
  /\ conns' \in SUBSET Contexts
  /\ unread' = SubjectIn(Contexts \ conns', Streams, Consumers)
  /\ now' = clock
  /\ UNCHANGED <<conn, matches, streams, names, current, unused>>

\* A connection lists its streams.
SearchCluster(k) ==
  /\ search = "contexts" /\ k \in conns
  /\ conns' = conns \ {k}
  /\ conn' = k
  /\ search' = "streams"
  /\ streams' = Streams
  /\ UNCHANGED <<matches, unread, now, names, current, unused>>

\* The stream names could not be had.
PassCluster(k) ==
  /\ search = "contexts" /\ k \in conns
  /\ conns' = conns \ {k}
  /\ unread' = unread \cup SubjectIn({k}, Streams, Consumers)
  /\ UNCHANGED <<search, conn, matches, now, streams, names, current, unused>>

\* No manager for a connection: an error, and nothing is shown.
SearchFails ==
  /\ search = "contexts" /\ conns # {}
  /\ search' = "failed"
  /\ UNCHANGED <<conns, conn, matches, unread, now, streams, names, current, unused>>

\* The two minutes are over: an error, and nothing is shown.
SearchExpires ==
  /\ search = "streams" /\ streams # {}
  /\ search' = "failed"
  /\ UNCHANGED <<conns, conn, matches, unread, now, streams, names, current, unused>>

SearchStream(s) ==
  /\ search = "streams" /\ s \in streams
  /\ search' = "consumers"
  /\ streams' = streams \ {s}
  /\ current' = s
  /\ names' = {n \in Consumers : live[On(<<conn, s, n>>)].exists}
  /\ UNCHANGED <<conns, conn, matches, unread, now, unused>>

PassStream(s) ==
  /\ search = "streams" /\ s \in streams
  /\ streams' = streams \ {s}
  /\ unread' = unread \cup SubjectIn({conn}, {s}, Consumers)
  /\ UNCHANGED <<search, conns, conn, matches, now, names, current, unused>>

LookAt(n) ==
  LET a == <<conn, current, n>> IN
  /\ search = "consumers" /\ n \in names /\ live[On(a)].exists
  /\ names' = names \ {n}
  /\ matches' = IF FilterOf[<<current, n>>] # Subject THEN matches
                ELSE Append(matches, [at |-> a, status |-> Status(live[On(a)]),
                                      lastAck |-> live[On(a)].lastAck])
  /\ UNCHANGED <<search, conns, conn, unread, now, streams, current, unused>>

\* Its row would be an error row, which has no subject to match.
LoseSight(n) ==
  /\ search = "consumers" /\ n \in names
  /\ names' = names \ {n}
  /\ unread' = unread \cup SubjectIn({conn}, {current}, {n})
  /\ UNCHANGED <<search, conns, conn, matches, now, streams, current, unused>>

SearchDone ==
  /\ search' = CASE search = "consumers" /\ names = {} -> "streams"
                 [] search = "streams" /\ streams = {} -> "contexts"
                 [] search = "contexts" /\ conns = {} -> "resolved"
                 [] OTHER -> search
  /\ search' # search
  /\ matches' = IF search' = "resolved" THEN Sorted(matches) ELSE matches
  /\ UNCHANGED <<conns, conn, unread, now, streams, names, current, unused>>

SearchStep ==
  \/ ConnectAll \/ SearchFails \/ SearchExpires \/ SearchDone
  \/ \E k \in Contexts : SearchCluster(k) \/ PassCluster(k)
  \/ \E s \in Streams : SearchStream(s) \/ PassStream(s)
  \/ \E n \in Consumers : LookAt(n) \/ LoseSight(n)

SearchOver ==
  /\ search \in {"resolved", "failed"}
  /\ UNCHANGED <<serverVars, scanVars, ownerVars>>

readVars == <<serverVars, scanVars, ownerVars>>

\* One step of natsie: of a scan, or of a search.
ReadStep ==
  /\ IF request.caller = "owner"
     THEN SearchStep ELSE ScanStep /\ UNCHANGED ownerVars
  /\ UNCHANGED serverVars

ReadNext ==
  \/ ReadStep
  \/ (Tick \/ \E a \in Addresses : ApplicationStep(a)) /\ UNCHANGED <<scanVars, ownerVars>>
  \/ request.caller # "owner" /\ ScanOver /\ UNCHANGED ownerVars
  \/ request.caller = "owner" /\ SearchOver

ReadInit == ScannerInit /\ OwnerInit

ReadSpec == ReadInit /\ [][ReadNext]_readVars

\* Every query has a timeout of its own.
FairReadSpec == ReadSpec /\ WF_readVars(ReadStep)

-----------------------------------------------------------------------------
(* Whoever acknowledged work on the subject in the min_idle before the       *)
(* search, and was there to be looked at, is either named or outdone by a    *)
(* later ack (owner.go:95-127); everybody there to be looked at is shown     *)
(* once for each context that reaches it, and who is named did show a sign   *)
(* of life (owner.go:117-127).                                               *)
OwnerIsTheLatest ==
  search = "resolved" =>
    /\ \A a \in Sights :
         LET c == live[On(a)] IN
         Settled(On(a)) /\ FilterOf[<<a[2], a[3]>>] = Subject /\ a \notin unread =>
           /\ Cardinality({i \in DOMAIN matches : matches[i].at = a}) = 1
           /\ c.lastAck # 0 /\ c.lastAck < now /\ now - c.lastAck < MinIdle =>
                \E o \in Owner(matches) : o.lastAck >= c.lastAck
    /\ changes = 0 =>
         \A o \in Owner(matches) : InUseNow(live[On(o.at)]) \/ RecentAck(live[On(o.at)])
=============================================================================

------------------------------- MODULE Survey -------------------------------
(***************************************************************************)
(* internal/scanner: the three walks over one cluster that only report.    *)
(* CheckPeers gathers every Raft group it can read and judges each server, *)
(* ScanUnlimitedStreams finds the streams that may grow for ever, and      *)
(* ReportStreams says where streams are placed.  One group is read at a    *)
(* time, while servers fail, recover, catch up and win elections.          *)
(***************************************************************************)
EXTENDS Integers, FiniteSetsExt, SequencesExt, Lists

CONSTANTS
  Streams, Consumers, Servers,
  NoServer,   \* no leader
  Itself,     \* in place of a consumer: the Raft group of the stream
  AnyStream,  \* the report is not restricted to one stream
  Groups,     \* the Raft groups: <<stream, consumer>> or <<stream, Itself>>
  Placed,     \* the servers that hold a replica of each group
  Limits,     \* the configuration of each stream
  Rank,       \* the order of servers by their names
  AtStart,    \* the servers that may be down at first
  MaxFaults   \* bound on what happens to the cluster

ASSUME GroupsAssumption ==
  /\ Groups \subseteq Streams \X (Consumers \cup {Itself})
  /\ \A s \in Streams : <<s, Itself>> \in Groups
  /\ Placed \in [Groups -> SUBSET Servers]
  /\ AtStart \subseteq SUBSET Servers

StreamConfig == [retention : {"limits", "interest"}, replicas : Nat,
                 maxAge : Int, maxBytes : Int, maxMsgs : Int]

\* Servers have names of their own, and no server is called nothing.
ASSUME ServersAssumption ==
  /\ IsFiniteSet(Servers) /\ NoServer \notin Servers
  /\ \A p, q \in Servers : Rank[p] \in Nat /\ (p # q => Rank[p] # Rank[q])

ASSUME LimitsAssumption == Limits \in [Streams -> StreamConfig]

VARIABLES
  down, leader, behind, faults,   \* the cluster
  kind,      \* which walk
  only,      \* the stream the report is restricted to, or AnyStream
  walk,      \* where it is
  todo,      \* streams still to be loaded
  names,     \* consumers of the stream under way, still to be read
  current,   \* the stream under way
  seen,      \* what the Raft groups said that could be read
  listed,    \* the streams loaded, with their placement if it could be read
  steady,    \* history: servers that have been up and current since the start
  dead       \* history: servers that have been down since the start

cluster == <<down, leader, behind, faults>>
surveyVars == <<cluster, kind, only, walk, todo, names, current, seen, listed, steady, dead>>

-----------------------------------------------------------------------------
(* What a group answers.                                                   *)
Info(g, leaderListed) ==
  [name |-> g, leader |-> leader[g],
   replicas |-> {[name |-> p, offline |-> p \in down, current |-> p \notin down \cup behind[g]] :
                   p \in IF leaderListed THEN Placed[g] ELSE Placed[g] \ {leader[g]}}]

-----------------------------------------------------------------------------
(* aggregatePeers.                                                         *)

ClassifyPeer(groups, offline, current_, leads) ==
  IF current_ > 0 \/ leads > 0 THEN "OK"
  ELSE IF groups > 0 /\ offline = groups THEN "GHOST" ELSE "LAGGING"

\* Mutant: a leader that is listed among the replicas counts twice.
AsReplicaToo(gs, p) == {g \in gs : \E r \in g.replicas : r.name = p}

AsReplica(gs, p) == {g \in gs : p # g.leader /\ \E r \in g.replicas : r.name = p}

PeerRow(gs, p) ==
  LET leads   == Cardinality({g \in gs : g.leader = p})
      follows == AsReplica(gs, p)
      offline == Cardinality({g \in follows : \E r \in g.replicas : r.name = p /\ r.offline})
      inSync  == Cardinality({g \in follows : \E r \in g.replicas : r.name = p /\ r.current})
  IN  [peer |-> p, groups |-> leads + Cardinality(follows), offline |-> offline,
       current |-> leads + inSync, leads |-> leads,
       health |-> ClassifyPeer(leads + Cardinality(follows), offline, leads + inSync, leads)]

Mentioned(gs) ==
  {p \in Servers : \E g \in gs : g.leader = p \/ \E r \in g.replicas : r.name = p}

GhostsFirst(q, r) ==
  \/ q.health = "GHOST" /\ r.health # "GHOST"
  \/ (q.health = "GHOST") = (r.health = "GHOST") /\ Rank[q.peer] < Rank[r.peer]

AggregatePeers(gs) == SortSet({PeerRow(gs, p) : p \in Mentioned(gs)}, GhostsFirst)

GhostPeers(rows) == Keep(rows, {i \in DOMAIN rows : rows[i].health = "GHOST"})

-----------------------------------------------------------------------------
(* Streams: limits and placement.                                          *)

\* Mutant: a stream that is limited in one respect is not limited.
IsUnlimitedSomehow(c) ==
  c.retention = "limits" /\ (c.maxAge <= 0 \/ c.maxBytes <= 0 \/ c.maxMsgs <= 0)

IsUnlimited(c) ==
  c.retention = "limits" /\ c.maxAge <= 0 /\ c.maxBytes <= 0 /\ c.maxMsgs <= 0

UnlimitedStreams == {r \in listed : IsUnlimited(Limits[r.stream])}

UnderReplicated == {r \in listed : Limits[r.stream].replicas < 2}

\* The servers that hold a replica, the leader first; unordered but for that.
PlacementPeers(info) ==
  [lead |-> info.leader,
   peers |-> ({info.leader} \ {NoServer}) \cup {r.name : r \in info.replicas}]

Unplaced == [lead |-> NoServer, peers |-> {}]

MoreLoaded(l, m) ==
  \/ l.leads > m.leads
  \/ l.leads = m.leads /\ l.replicas > m.replicas
  \/ l.leads = m.leads /\ l.replicas = m.replicas /\ Rank[l.server] < Rank[m.server]

LoadRow(rows, p) ==
  [server   |-> p,
   leads    |-> Cardinality({r \in rows : r.placement.lead = p}),
   replicas |-> Cardinality({r \in rows : p \in r.placement.peers})]

PlacementSkew(rows) ==
  SortSet({LoadRow(rows, p) : p \in UNION {r.placement.peers : r \in rows}}, MoreLoaded)

-----------------------------------------------------------------------------
SurveyInit ==
  /\ down \in AtStart
  /\ leader \in [Groups -> Servers \cup {NoServer}]
  /\ \A g \in Groups :
       leader[g] = IF Placed[g] \subseteq down THEN NoServer
                   ELSE CHOOSE p \in Placed[g] \ down : TRUE
  /\ behind = [g \in Groups |-> {}]
  /\ faults = 0
  /\ walk = "idle"
  /\ todo = {} /\ names = {} /\ current = AnyStream
  /\ seen = {} /\ listed = {}
  /\ steady = {} /\ dead = {}

(* The cluster.  What happens to it when nobody looks is of no interest.    *)
Fault ==
  /\ walk \in {"streams", "consumers"} /\ faults < MaxFaults
  /\ faults' = faults + 1
  /\ UNCHANGED <<kind, only, walk, todo, names, current, seen, listed>>

Fail(p) ==
  /\ p \notin down
  /\ down' = down \cup {p}
  /\ leader' = [g \in Groups |-> IF leader[g] = p THEN NoServer ELSE leader[g]]
  /\ steady' = steady \ {p}
  /\ UNCHANGED <<behind, dead>> /\ Fault

Recover(p) ==
  /\ p \in down
  /\ down' = down \ {p}
  /\ behind' = [g \in Groups |-> IF p \in Placed[g] THEN behind[g] \cup {p} ELSE behind[g]]
  /\ dead' = dead \ {p}
  /\ UNCHANGED <<leader, steady>> /\ Fault

CatchUp(p) ==
  /\ p \notin down /\ \E g \in Groups : p \in behind[g]
  /\ behind' = [g \in Groups |-> behind[g] \ {p}]
  /\ UNCHANGED <<down, leader, steady, dead>> /\ Fault

Elect(g, p) ==
  /\ leader[g] = NoServer /\ p \in Placed[g] \ (down \cup behind[g])
  /\ leader' = [leader EXCEPT ![g] = p]
  /\ UNCHANGED <<down, behind, steady, dead>> /\ Fault

ClusterStep ==
  \/ \E p \in Servers : Fail(p) \/ Recover(p) \/ CatchUp(p)
  \/ \E g \in Groups, p \in Servers : Elect(g, p)

-----------------------------------------------------------------------------
(* The walk.                                                               *)
unchangedButWalk == <<cluster, kind, only, steady, dead>>

BeginWalk ==
  /\ walk = "idle"
  /\ walk' = "streams"
  /\ todo' = IF kind = "stream-report" /\ only # AnyStream THEN Streams \cap {only} ELSE Streams
  /\ steady' = {p \in Servers \ down : \A g \in Groups : p \notin behind[g]}
  /\ dead' = down
  /\ UNCHANGED <<cluster, kind, only, names, current, seen, listed>>

\* No manager, or no stream names.
NothingToWalk ==
  /\ walk = "idle"
  /\ walk' = "failed"
  /\ UNCHANGED <<todo, names, current, seen, listed, unchangedButWalk>>

\* The two minutes are over, which is noticed between two streams.
WalkExpires ==
  /\ walk = "streams" /\ todo # {}
  /\ walk' = "failed"
  /\ UNCHANGED <<todo, names, current, seen, listed, unchangedButWalk>>

\* A stream that cannot be loaded is passed over.
PassOver(s) ==
  /\ walk = "streams" /\ s \in todo
  /\ todo' = todo \ {s}
  /\ UNCHANGED <<walk, names, current, seen, listed, unchangedButWalk>>

\* The configuration was read; the placement is asked for and may be refused.
ListStream(s) ==
  /\ walk = "streams" /\ s \in todo /\ kind # "peer-check"
  /\ todo' = todo \ {s}
  /\ \E placement \in {Unplaced, PlacementPeers(Info(<<s, Itself>>, TRUE))} :
       listed' = listed \cup {[stream |-> s, placement |-> placement]}
  /\ UNCHANGED <<walk, names, current, seen, unchangedButWalk>>

\* The stream's own group is read or not, and its consumers listed or not.
VisitStream(s) ==
  /\ walk = "streams" /\ s \in todo /\ kind = "peer-check"
  /\ todo' = todo \ {s}
  /\ seen' \in {seen} \cup {seen \cup {Info(<<s, Itself>>, l)} : l \in BOOLEAN}
  /\ current' = s
  /\ names' \in {{}, {n \in Consumers : <<s, n>> \in Groups}}
  /\ walk' = "consumers"
  /\ UNCHANGED <<listed, unchangedButWalk>>

VisitConsumer(n) ==
  /\ walk = "consumers" /\ n \in names
  /\ names' = names \ {n}
  /\ seen' \in {seen} \cup {seen \cup {Info(<<current, n>>, l)} : l \in BOOLEAN}
  /\ UNCHANGED <<walk, todo, current, listed, unchangedButWalk>>

StreamVisited ==
  /\ walk = "consumers" /\ names = {}
  /\ walk' = "streams"
  /\ UNCHANGED <<todo, names, current, seen, listed, unchangedButWalk>>

WalkDone ==
  /\ walk = "streams" /\ todo = {}
  /\ walk' = "done"
  /\ UNCHANGED <<todo, names, current, seen, listed, unchangedButWalk>>

WalkStep ==
  \/ BeginWalk \/ NothingToWalk \/ WalkExpires
  \/ \E s \in Streams : PassOver(s) \/ ListStream(s) \/ VisitStream(s)
  \/ \E n \in Consumers : VisitConsumer(n)
  \/ StreamVisited \/ WalkDone

-----------------------------------------------------------------------------
(* Properties.                                                             *)

(* Each server that a group read refers to has one row, which counts each    *)
(* such group once (peers.go:143-163); a server down all along is a ghost, a *)
(* server up and current all along is not even lagging, whatever moved       *)
(* between two reads or could not be read; ghosts come first.                *)
PeersJudged ==
  walk = "done" /\ kind = "peer-check" =>
    LET rows == AggregatePeers(seen) IN
    /\ \A p \in Servers :
         LET mine == {i \in DOMAIN rows : rows[i].peer = p}
             refs == {g \in seen : p \in Placed[g.name]}
         IN  /\ Cardinality(mine) = IF refs = {} THEN 0 ELSE 1
             /\ \A i \in mine :
                  /\ rows[i].groups = Cardinality(refs)
                  /\ p \in dead => rows[i].health = "GHOST"
                  /\ p \in steady => rows[i].health = "OK"
    /\ \A i, j \in DOMAIN rows :
         rows[j].health = "GHOST" /\ rows[i].health # "GHOST" => j < i

CanGrowForEver(s) ==
  Limits[s].retention = "limits" /\
    \A cap \in {Limits[s].maxAge, Limits[s].maxBytes, Limits[s].maxMsgs} : cap \notin Nat \ {0}

(* Of the streams that could be loaded, those that nothing bounds are        *)
(* reported, and no other (streams.go:22-31); the summary of the placement   *)
(* has every replica and every leader that could be read, once, the most     *)
(* loaded servers first (streamreport.go:137-176).                           *)
StreamsAccountedFor ==
  walk = "done" /\ kind # "peer-check" =>
    LET skew == PlacementSkew(listed)
    IN  /\ {r.stream : r \in UnlimitedStreams} =
             {s \in {r.stream : r \in listed} : CanGrowForEver(s)}
        /\ \A r, q \in listed : r.stream = q.stream => r = q
        /\ SumFunction([i \in DOMAIN skew |-> skew[i].leads]) =
             Cardinality({r \in listed : r.placement.lead # NoServer})
        /\ SumFunction([i \in DOMAIN skew |-> skew[i].replicas]) =
             SumFunction([r \in listed |-> Cardinality(r.placement.peers)])
        /\ \A i, j \in DOMAIN skew : i < j => skew[i].leads >= skew[j].leads
=============================================================================

------------------------------- MODULE Cleanup -------------------------------
(***************************************************************************)
(* internal/cleanup: Apply runs a manifest against live clusters.  Several *)
(* Apply calls may be under way at once (a double-clicked approval link, a *)
(* scheduled auto-delete, a CLI apply), over consumers that applications   *)
(* keep using.  Every CONSUMER.INFO and CONSUMER.DELETE is a request that  *)
(* can fail, be answered late, or be executed after its caller gave up.    *)
(***************************************************************************)
EXTENDS Manifest, Protect, FiniteSets, FiniteSetsExt

CONSTANTS
  Runs,        \* the Apply calls of a behaviour
  Guards,      \* the Protectors in use
  Calls,       \* what Apply may be called with
  NoInfo       \* no CONSUMER.INFO response yet

VARIABLES
  pc,         \* where each call is
  call,       \* its arguments: manifest, dryRun, guard
  cancelled,  \* its context has been cancelled
  todo,       \* clusters of byCluster it has not visited yet
  left,       \* entries of the current cluster it has not settled yet
  info,       \* the CONSUMER.INFO response for the entry under way
  events,     \* Result.Events
  requests,   \* CONSUMER.DELETE requests the servers may still execute
  reply,      \* the servers' answer to the call's current delete request
  deletions   \* history: the consumers removed on natsie's request

runVars == <<pc, call, cancelled, todo, left, info, events>>
wireVars == <<requests, reply, deletions>>
vars == <<serverVars, runVars, wireVars>>

-----------------------------------------------------------------------------
(* Calls and results.                                                      *)

Call == [manifest : Manifest, dryRun : BOOLEAN, guard : Guards \cup {NoProtector}]

\* The arguments of a call that has not been made yet.
NoCall == [manifest |-> [generatedAt |-> 0, entries |-> << >>],
           dryRun |-> FALSE, guard |-> NoProtector]

ASSUME CallsAssumption == \A k \in Calls : k \in Call
ASSUME NoInfoAssumption == NoInfo \notin ConsumerState

Action == {"DELETED", "WOULD", "GONE", "SKIP", "ACTIVE", "PROTECTED", "FAIL", "CONN"}
\* An event names its entry by position; the entry gives it its address.
Event == [entry : Nat, action : Action]

\* byCluster: the clusters of a manifest, and the positions of one cluster's
\* entries, which are worked through in order.
ClustersOf(m) == {m.entries[i].cluster : i \in DOMAIN m.entries}
EntriesOn(m, c) == {i \in DOMAIN m.entries : m.entries[i].cluster = c}

Count(evs, actions) == Cardinality({i \in DOMAIN evs : evs[i].action \in actions})

\* Mutant: unreachable clusters are not counted.
ResultForgettingConn(evs) ==
  [deleted   |-> Count(evs, {"DELETED", "WOULD"}),
   skipped   |-> Count(evs, {"SKIP"}),
   preserved |-> Count(evs, {"ACTIVE"}),
   protected |-> Count(evs, {"PROTECTED"}),
   gone      |-> Count(evs, {"GONE"}),
   failed    |-> Count(evs, {"FAIL"})]

\* Result's counters: how many events bear one of the given actions.
Result(evs) ==
  [deleted   |-> Count(evs, {"DELETED", "WOULD"}),
   skipped   |-> Count(evs, {"SKIP"}),
   preserved |-> Count(evs, {"ACTIVE"}),
   protected |-> Count(evs, {"PROTECTED"}),
   gone      |-> Count(evs, {"GONE"}),
   failed    |-> Count(evs, {"FAIL", "CONN"})]

\* Mutants: a signal of life is not looked at.
IsActiveIgnoringPolls(c, manifestTime) == c.bound \/ c.lastAck > manifestTime
IsActiveIgnoringAcks(c, manifestTime) == c.bound \/ c.waiting > 0

\* isActive: bound, polled, or acknowledged after the manifest was written.
IsActive(c, manifestTime) ==
  c.bound \/ c.waiting > 0 \/ c.lastAck > manifestTime

IsProtected(r, e, c) ==
  Protected(call[r].guard, e.stream, e.consumer, c.meta)

-----------------------------------------------------------------------------
Init ==
  /\ ServerInit
  /\ pc = [r \in Runs |-> "idle"]
  /\ call = [r \in Runs |-> NoCall]
  /\ cancelled = [r \in Runs |-> FALSE]
  /\ todo = [r \in Runs |-> {}]
  /\ left = [r \in Runs |-> {}]
  /\ info = [r \in Runs |-> NoInfo]
  /\ events = [r \in Runs |-> << >>]
  /\ requests = {}
  /\ reply = [r \in Runs |-> "none"]
  /\ deletions = {}

Start(r, k) ==
  /\ pc[r] = "idle"
  /\ pc' = [pc EXCEPT ![r] = "loop"]
  /\ call' = [call EXCEPT ![r] = k]
  /\ todo' = [todo EXCEPT ![r] = ClustersOf(k.manifest)]
  /\ UNCHANGED <<serverVars, cancelled, left, info, events, wireVars>>

\* The caller's context is cancelled: Ctrl-C, the HTTP client hanging up.
Cancel(r) ==
  /\ pc[r] \notin {"idle", "done", "aborted"} /\ ~cancelled[r]
  /\ cancelled' = [cancelled EXCEPT ![r] = TRUE]
  /\ UNCHANGED <<serverVars, pc, call, todo, left, info, events, wireVars>>

(* The loop over byCluster, in Go's arbitrary map order.                   *)
Abort(r) ==
  /\ pc[r] = "loop" /\ todo[r] # {} /\ cancelled[r]
  /\ pc' = [pc EXCEPT ![r] = "aborted"]
  /\ UNCHANGED <<serverVars, call, cancelled, todo, left, info, events, wireVars>>

Finish(r) ==
  /\ pc[r] = "loop" /\ todo[r] = {}
  /\ pc' = [pc EXCEPT ![r] = "done"]
  /\ UNCHANGED <<serverVars, call, cancelled, todo, left, info, events, wireVars>>

Visit(r, c) ==
  /\ pc[r] = "loop" /\ c \in todo[r] /\ ~cancelled[r]
  /\ todo' = [todo EXCEPT ![r] = @ \ {c}]
  /\ left' = [left EXCEPT ![r] = EntriesOn(call[r].manifest, c)]
  /\ UNCHANGED <<serverVars, call, cancelled, info, events, wireVars>>

Connect(r, c) == Visit(r, c) /\ pc' = [pc EXCEPT ![r] = "entry"]

ConnectFails(r, c) == Visit(r, c) /\ pc' = [pc EXCEPT ![r] = "offline"]

\* Mutant: the entry loop is left early, as with break for continue.
ReleaseEarly(r) ==
  /\ pc[r] \in {"entry", "offline"}
  /\ pc' = [pc EXCEPT ![r] = "loop"]
  /\ UNCHANGED <<serverVars, call, cancelled, todo, left, info, events, wireVars>>

\* The cluster's entries are exhausted; its connection, if any, is released.
Release(r) ==
  /\ pc[r] \in {"entry", "offline"} /\ left[r] = {}
  /\ pc' = [pc EXCEPT ![r] = "loop"]
  /\ UNCHANGED <<serverVars, call, cancelled, todo, left, info, events, wireVars>>

-----------------------------------------------------------------------------
(* One entry at a time: skip it, or ask, judge and possibly delete.        *)

Position(r) == Min(left[r])
Current(r) == call[r].manifest.entries[Position(r)]

\* The entry under way gets its event, and pc says what comes next.
Settle(r, action, next) ==
  /\ events' = [events EXCEPT ![r] =
                  Append(@, [entry |-> Position(r), action |-> action])]
  /\ left' = [left EXCEPT ![r] = @ \ {Position(r)}]
  /\ info' = [info EXCEPT ![r] = NoInfo]
  /\ pc' = [pc EXCEPT ![r] = next]
  /\ UNCHANGED <<serverVars, call, cancelled, todo>>

\* Mutant: an action that is not one of the package's.
FailEntryUnnamed(r) ==
  /\ pc[r] = "offline" /\ left[r] # {}
  /\ Settle(r, "UNREACHABLE", "offline") /\ UNCHANGED wireVars

\* An unreachable cluster gets one CONN event per entry.
FailEntry(r) ==
  /\ pc[r] = "offline" /\ left[r] # {}
  /\ Settle(r, "CONN", "offline") /\ UNCHANGED wireVars

AtEntry(r, skip) ==
  pc[r] = "entry" /\ left[r] # {} /\ Current(r).skip = skip

SkipEntry(r) ==
  AtEntry(r, TRUE) /\ Settle(r, "SKIP", "entry") /\ UNCHANGED wireVars

\* fetchConsumerInfo: the server answers with the consumer as it is now.
FetchInfo(r) ==
  /\ AtEntry(r, FALSE)
  /\ live[At(Current(r))].exists
  /\ info' = [info EXCEPT ![r] = live[At(Current(r))]]
  /\ pc' = [pc EXCEPT ![r] = "verify"]
  /\ UNCHANGED <<serverVars, call, cancelled, todo, left, events, wireVars>>

\* Mutant: a consumer that is not there any more counts as deleted.
FetchNotFoundIsDeleted(r) ==
  /\ AtEntry(r, FALSE)
  /\ ~live[At(Current(r))].exists
  /\ Settle(r, "DELETED", "entry") /\ UNCHANGED wireVars

FetchNotFound(r) ==
  /\ AtEntry(r, FALSE)
  /\ ~live[At(Current(r))].exists
  /\ Settle(r, "GONE", "entry") /\ UNCHANGED wireVars

\* No answer within jsAPITimeout, an undecodable one, or an API error.
FetchFails(r) ==
  AtEntry(r, FALSE) /\ Settle(r, "FAIL", "entry") /\ UNCHANGED wireVars

Inactive(r) ==
  /\ ~IsProtected(r, Current(r), info[r])
  /\ ~IsActive(info[r], call[r].manifest.generatedAt)

SpareProtected(r) ==
  /\ pc[r] = "verify" /\ IsProtected(r, Current(r), info[r])
  /\ Settle(r, "PROTECTED", "entry") /\ UNCHANGED wireVars

SpareActive(r) ==
  /\ pc[r] = "verify"
  /\ ~IsProtected(r, Current(r), info[r])
  /\ IsActive(info[r], call[r].manifest.generatedAt)
  /\ Settle(r, "ACTIVE", "entry") /\ UNCHANGED wireVars

WouldDelete(r) ==
  /\ pc[r] = "verify" /\ Inactive(r) /\ call[r].dryRun
  /\ Settle(r, "WOULD", "entry") /\ UNCHANGED wireVars

\* The request names the consumer, not the incarnation that was inspected;
\* seen is a history of the response the verdict rests on.
DeleteRequest(r) ==
  [run |-> r, entry |-> Position(r), at |-> At(Current(r)), seen |-> info[r]]

SendDelete(r) ==
  /\ pc[r] = "verify" /\ Inactive(r) /\ ~call[r].dryRun
  /\ requests' = requests \cup {DeleteRequest(r)}
  /\ reply' = [reply EXCEPT ![r] = "none"]
  /\ pc' = [pc EXCEPT ![r] = "deleting"]
  /\ UNCHANGED <<serverVars, call, cancelled, todo, left, info, events, deletions>>

\* Mutant: any answer counts as success, a not-found one included.
DeleteSucceedsIfAnswered(r) ==
  /\ pc[r] = "deleting" /\ reply[r] # "none"
  /\ Settle(r, "DELETED", "entry") /\ UNCHANGED wireVars

\* The server confirmed the removal.
DeleteSucceeds(r) ==
  /\ pc[r] = "deleting" /\ reply[r] = "ok"
  /\ Settle(r, "DELETED", "entry") /\ UNCHANGED wireVars

\* Mutant: no timeout, the call waits for the answer.
DeleteFailsIfAnswered(r) ==
  /\ pc[r] = "deleting" /\ reply[r] = "error"
  /\ Settle(r, "FAIL", "entry") /\ UNCHANGED wireVars

\* An error answer (not-found included), or no answer within jsAPITimeout:
\* the answer may be lost, or the request still be on its way.
DeleteFails(r) ==
  /\ pc[r] = "deleting"
  /\ Settle(r, "FAIL", "entry") /\ UNCHANGED wireVars

-----------------------------------------------------------------------------
(* The servers' side of CONSUMER.DELETE.                                   *)

\* The caller still waits for the answer to this very request.
Awaited(q) == pc[q.run] = "deleting" /\ q.entry = Position(q.run)

Answer(q, answer) ==
  reply' = IF Awaited(q) THEN [reply EXCEPT ![q.run] = answer] ELSE reply

ExecDelete(q) ==
  /\ requests' = requests \ {q}
  /\ IF live[q.at].exists
     THEN /\ live' = [live EXCEPT ![q.at] = Gone(@)]
          /\ deletions' = deletions \cup
                {[run |-> q.run, entry |-> q.entry, at |-> q.at, inc |-> live[q.at].inc]}
          /\ Answer(q, "ok")
     ELSE /\ Answer(q, "error")
          /\ UNCHANGED <<live, deletions>>
  /\ UNCHANGED <<clock, changes, runVars>>

-----------------------------------------------------------------------------
RunStep(r) ==
  \/ Abort(r) \/ Finish(r) \/ Release(r)
  \/ \E c \in Clusters : Connect(r, c) \/ ConnectFails(r, c)
  \/ FailEntry(r) \/ SkipEntry(r)
  \/ FetchInfo(r) \/ FetchNotFound(r) \/ FetchFails(r)
  \/ SpareProtected(r) \/ SpareActive(r) \/ WouldDelete(r)
  \/ SendDelete(r) \/ DeleteSucceeds(r) \/ DeleteFails(r)

ServerStep ==
  \/ \E q \in requests : ExecDelete(q)
  \/ /\ Tick \/ \E a \in Addresses : ApplicationStep(a)
     /\ UNCHANGED <<runVars, wireVars>>

\* All calls have returned; the system may rest.
Terminated ==
  /\ \A r \in Runs : pc[r] \in {"done", "aborted"}
  /\ UNCHANGED vars

Next ==
  \/ \E r \in Runs : (\E k \in Calls : Start(r, k)) \/ Cancel(r) \/ RunStep(r)
  \/ ServerStep
  \/ Terminated

Spec == Init /\ [][Next]_vars

\* A started Apply keeps going: every request it waits for is bounded by
\* jsAPITimeout and the loops are plain code.
FairSpec == Spec /\ \A r \in Runs : WF_vars(RunStep(r))
-----------------------------------------------------------------------------
(* Properties.                                                             *)

TypeOK ==
  /\ ServerTypeOK
  /\ pc \in [Runs -> {"idle", "loop", "entry", "offline", "verify", "deleting",
                      "done", "aborted"}]
  /\ call \in [Runs -> Call]
  /\ cancelled \in [Runs -> BOOLEAN]
  /\ todo \in [Runs -> SUBSET Clusters]
  /\ left \in [Runs -> SUBSET Nat]
  /\ info \in [Runs -> ConsumerState \cup {NoInfo}]
  /\ events \in [Runs -> Seq(Event)]
  /\ requests \subseteq [run : Runs, entry : Nat, at : Addresses, seen : ConsumerState]
  /\ reply \in [Runs -> {"none", "ok", "error"}]
  /\ deletions \subseteq [run : Runs, entry : Nat, at : Addresses, inc : Nat]

\* What the package promises never to remove, stated apart from the code's
\* own tests: a consumer in use, or one the protector vetoes.
InUse(c, manifestTime) ==
  \/ c.bound
  \/ c.waiting # 0
  \/ c.lastAck # 0 /\ ~(c.lastAck <= manifestTime)

Vetoed(guard, a, meta) ==
  /\ guard # NoProtector
  /\ \/ \E k \in DOMAIN meta :
           /\ meta[k] \notin Falsey
           /\ k \in guard.keys \/ (k = DefaultMetadataKey /\ guard.keys = {})
     \/ \E pat \in guard.patterns :
           /\ pat.stream = AnyName \/ <<pat.stream, a[2]>> \in GlobMatches
           /\ pat.consumer = AnyName \/ <<pat.consumer, a[3]>> \in GlobMatches

Executed(q) == q \in requests /\ q \notin requests' /\ live[q.at].exists

\* A call may remove the consumer at an address, in the given state.
Justified(k, a, c) ==
  /\ ~k.dryRun
  /\ ~InUse(c, k.manifest.generatedAt)
  /\ ~Vetoed(k.guard, a, c.meta)
  /\ \E i \in DOMAIN k.manifest.entries :
       LET e == k.manifest.entries[i] IN At(e) = a /\ ~e.skip

Removable(q, c) == Justified(call[q.run], q.at, c)

(* Re-verification and protection (cleanup.go:9-25): a consumer that has    *)
(* not changed since natsie inspected it is removed only if it is listed,   *)
(* not skipped, neither in use nor protected, and the call is no dry run,   *)
(* however late the server executes the request.                            *)
DeletionJustified ==
  [][\A q \in requests :
       Executed(q) /\ live[q.at] = q.seen => Removable(q, live[q.at])]_vars

(* The audit trail Apply returns (cleanup.go:105-143): no entry has two     *)
(* events, a cluster not visited (yet, or after a cancellation) has none, a *)
(* cluster left behind has one for each entry, in manifest order.           *)
EventsFollowManifest ==
  \A r \in Runs :
    LET m == call[r].manifest
        settled == {events[r][i].entry : i \in DOMAIN events[r]}
    IN  /\ \A c \in Clusters :
             IF c \in todo[r] THEN EntriesOn(m, c) \cap (settled \cup left[r]) = {}
                              ELSE EntriesOn(m, c) \subseteq settled \cup left[r]
        /\ settled \cap left[r] = {}
        /\ \A i, j \in DOMAIN events[r] :
             LET ei == events[r][i].entry
                 ej == events[r][j].entry
             IN  i < j /\ m.entries[ei].cluster = m.entries[ej].cluster => ei < ej

EventAt(r, i) == At(call[r].manifest.entries[events[r][i].entry])

\* The entry of a request, or of a removal, has ended DELETED or FAIL, or is
\* still waiting for the answer.
Accounted(x) ==
  \/ \E i \in DOMAIN events[x.run] :
       events[x.run][i].entry = x.entry /\ events[x.run][i].action \in {"DELETED", "FAIL"}
  \/ pc[x.run] = "deleting" /\ x.entry = Position(x.run)

(* Only an entry whose event reads DELETED or FAIL, or whose delete is      *)
(* still awaited, can have cost a consumer its life (cleanup.go:149-214);   *)
(* a DELETED event always stands for a removal this very request made.      *)
ReportsMatchDeletions ==
  /\ \A d \in deletions : Accounted(d)
  /\ \A r \in Runs : \A i \in DOMAIN events[r] :
       events[r][i].action = "DELETED" =>
         \E d \in deletions :
            d.run = r /\ d.entry = events[r][i].entry /\ d.at = EventAt(r, i)

(* Two calls racing over one manifest, or one manifest naming a consumer    *)
(* twice, never both claim the same consumer: no more DELETED events exist  *)
(* for an address than incarnations of it have died.                        *)
NoDeletionClaimedTwice ==
  \A a \in Addresses :
    LET claims == UNION {{<<r, i>> : i \in {j \in DOMAIN events[r] :
                            events[r][j].action = "DELETED" /\ EventAt(r, j) = a}} : r \in Runs}
        dead   == IF live[a].exists THEN live[a].inc - 1 ELSE live[a].inc
    IN  Cardinality(claims) <= dead

(* The counters agree with the trail when Apply returns without error: each *)
(* entry of the manifest is in exactly one of them.                         *)
TallyComplete ==
  \A r \in Runs : pc[r] = "done" =>
    LET t == Result(events[r]) IN
      t.deleted + t.skipped + t.preserved + t.protected + t.gone + t.failed
        = Len(call[r].manifest.entries)

(* Apply returns: its loops end and no request is awaited for ever.         *)
EveryApplyReturns ==
  \A r \in Runs : pc[r] = "loop" ~> pc[r] \in {"done", "aborted"}

(* The package doc's third safety property taken literally (cleanup.go:18): *)
(* a protected consumer is never deleted, whatever the manifest says.       *)
NeverDeletesProtected ==
  [][\A q \in requests :
       Executed(q) => ~Vetoed(call[q.run].guard, q.at, live[q.at].meta)]_vars

-----------------------------------------------------------------------------
(* Apply seen as SafeDelete sees it: what each call has at hand, what it    *)
(* has ordered, what was removed and what its DELETED events claim.         *)

Inspected ==
  {[run |-> r, at |-> At(Current(r)), seen |-> info[r]] :
     r \in {s \in Runs : info[s] # NoInfo}}

Orders ==
  {[run |-> q.run, entry |-> q.entry, by |-> call[q.run], at |-> q.at, seen |-> q.seen] :
     q \in requests}

ClaimsOf(r) ==
  {[run |-> r, entry |-> events[r][i].entry, at |-> EventAt(r, i)] :
     i \in {j \in DOMAIN events[r] : events[r][j].action = "DELETED"}}

Safe == INSTANCE SafeDelete WITH
  inspected <- Inspected,
  orders    <- Orders,
  removed   <- deletions,
  claims    <- UNION {ClaimsOf(r) : r \in Runs}

(* Whatever Apply does in detail (walk a manifest, time out, be cancelled,  *)
(* race with other calls) is an inspection, a justified order, its          *)
(* execution, a claim of a removal made, or nothing (cleanup.go:1-25).      *)
ImplementsSafeDelete == Safe!Spec
=============================================================================

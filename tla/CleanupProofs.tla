---------------------------- MODULE CleanupProofs ----------------------------
(***************************************************************************)
(* Proofs about Cleanup, for any number of Apply calls, clusters, streams  *)
(* and consumers, any manifests and any bounds.                            *)
(***************************************************************************)
EXTENDS Cleanup, JetStreamProofs, FiniteSetTheorems

(* A non-empty set of positions has a least one: the entry under way is one *)
(* of the entries left.                                                     *)
LEMMA MinInSet ==
  ASSUME NEW S \in SUBSET Nat, S # {}
  PROVE  Min(S) \in S /\ \A k \in S : Min(S) <= k
  BY LeastNat DEF Min

-----------------------------------------------------------------------------
(* Type correctness, together with what each control point knows: which    *)
(* entries are left and what is at hand about the one under way.           *)

AtHand ==
  \A r \in Runs :
    /\ pc[r] = "idle" => left[r] = {} /\ events[r] = << >>
    /\ left[r] \subseteq DOMAIN call[r].manifest.entries
    /\ pc[r] \in {"verify", "deleting"} => left[r] # {} /\ ~Current(r).skip
    /\ pc[r] = "verify" => info[r] \in ConsumerState

TypeInv == TypeOK /\ AtHand

LEMMA CallFacts ==
  ASSUME TypeOK, NEW r \in Runs
  PROVE  /\ call[r].manifest \in Manifest
         /\ call[r].manifest.entries \in Seq(Entry)
         /\ DOMAIN call[r].manifest.entries \subseteq Nat
         /\ \A i \in DOMAIN call[r].manifest.entries :
              /\ call[r].manifest.entries[i] \in Entry
              /\ At(call[r].manifest.entries[i]) \in Addresses
<1>1. call[r].manifest \in Manifest
  BY DEF TypeOK, Call
<1>2. call[r].manifest.entries \in Seq(Entry)
  BY <1>1 DEF Manifest
<1>3. \A i \in DOMAIN call[r].manifest.entries : call[r].manifest.entries[i] \in Entry
  BY <1>2
<1>4. DOMAIN call[r].manifest.entries \subseteq Nat
  BY <1>2
<1>5. \A e \in Entry : At(e) \in Addresses
  BY DEF At, Entry, Addresses
<1> QED BY <1>1, <1>2, <1>3, <1>4, <1>5

LEMMA CurrentEntry ==
  ASSUME TypeInv, NEW r \in Runs, left[r] # {}
  PROVE  /\ Position(r) \in left[r]
         /\ Position(r) \in DOMAIN call[r].manifest.entries
         /\ Position(r) \in Nat
         /\ Current(r) \in Entry
         /\ At(Current(r)) \in Addresses
<1>1. left[r] \in SUBSET Nat
  BY DEF TypeInv, TypeOK
<1>2. Position(r) \in left[r]
  BY <1>1, MinInSet DEF Position
<1>3. Position(r) \in DOMAIN call[r].manifest.entries
  BY <1>2 DEF TypeInv, AtHand
<1> QED BY <1>1, <1>2, <1>3, CallFacts DEF TypeInv, Current

LEMMA InitTypeInv == Init => TypeInv
<1> SUFFICES ASSUME Init PROVE TypeInv
  OBVIOUS
<1>1. ServerTypeOK
  <2>1. live \in [Addresses -> ConsumerState]
    BY InitialAssumption DEF Init, ServerInit
  <2>2. clock \in Nat
    BY BoundsAssumption DEF Init, ServerInit
  <2> QED BY <2>1, <2>2 DEF Init, ServerInit, ServerTypeOK
<1>2. call \in [Runs -> Call]
  <2>1. NoCall \in Call
    BY DEF NoCall, Call, Manifest
  <2> QED BY <2>1 DEF Init
<1>3. events \in [Runs -> Seq(Event)]
  BY DEF Init
<1>4. TypeOK
  BY <1>1, <1>2, <1>3 DEF Init, TypeOK
<1>5. AtHand
  BY DEF Init, AtHand
<1> QED BY <1>4, <1>5 DEF TypeInv

(* A call that is made gets the clusters of its manifest to visit.          *)
LEMMA StartType ==
  ASSUME TypeInv, NEW r \in Runs, NEW k \in Call, Start(r, k)
  PROVE  TypeInv'
<1> USE DEF Start, wireVars, serverVars
<1>1. ClustersOf(k.manifest) \subseteq Clusters
  <2>1. k.manifest.entries \in Seq(Entry)
    BY DEF Call, Manifest
  <2>2. \A i \in DOMAIN k.manifest.entries : k.manifest.entries[i] \in Entry
    BY <2>1
  <2>3. \A e \in Entry : e.cluster \in Clusters
    BY DEF Entry
  <2> QED BY <2>2, <2>3 DEF ClustersOf
<1>2. TypeOK'
  BY <1>1 DEF TypeInv, TypeOK, ServerTypeOK
<1>3. AtHand'
  <2> SUFFICES ASSUME NEW s \in Runs
               PROVE  /\ pc'[s] = "idle" => left'[s] = {} /\ events'[s] = << >>
                      /\ left'[s] \subseteq DOMAIN call'[s].manifest.entries
                      /\ pc'[s] \in {"verify", "deleting"} => left'[s] # {} /\ ~Current(s)'.skip
                      /\ pc'[s] = "verify" => info'[s] \in ConsumerState
    BY DEF AtHand
  <2>1. CASE s = r
    BY <2>1 DEF TypeInv, TypeOK, AtHand
  <2>2. CASE s # r
    <3>1. left'[s] = left[s] /\ pc'[s] = pc[s] /\ call'[s] = call[s]
      BY <2>2 DEF TypeInv, TypeOK
    <3>2. Current(s)' = Current(s)
      BY <3>1 DEF Current, Position
    <3> QED BY <3>1, <3>2 DEF TypeInv, AtHand
  <2> QED BY <2>1, <2>2
<1> QED BY <1>2, <1>3 DEF TypeInv

(* Settling the entry under way keeps the types whatever the verdict.       *)
LEMMA SettleType ==
  ASSUME TypeInv, NEW r \in Runs, left[r] # {}, NEW action \in Action,
         NEW next \in {"entry", "offline"}, Settle(r, action, next), UNCHANGED wireVars
  PROVE  TypeInv'
<1> USE DEF Settle, wireVars, serverVars
<1>1. [entry |-> Position(r), action |-> action] \in Event
  BY CurrentEntry DEF Event
<1>2. Append(events[r], [entry |-> Position(r), action |-> action]) \in Seq(Event)
  BY <1>1 DEF TypeInv, TypeOK
<1>3. TypeOK'
  BY <1>2 DEF TypeInv, TypeOK, ServerTypeOK
<1>4. AtHand'
  <2> SUFFICES ASSUME NEW s \in Runs
               PROVE  /\ pc'[s] = "idle" => left'[s] = {} /\ events'[s] = << >>
                      /\ left'[s] \subseteq DOMAIN call'[s].manifest.entries
                      /\ pc'[s] \in {"verify", "deleting"} => left'[s] # {} /\ ~Current(s)'.skip
                      /\ pc'[s] = "verify" => info'[s] \in ConsumerState
    BY DEF AtHand
  <2>1. CASE s = r
    BY <2>1 DEF TypeInv, TypeOK, AtHand
  <2>2. CASE s # r
    <3>1. /\ left'[s] = left[s] /\ pc'[s] = pc[s] /\ info'[s] = info[s]
          /\ call'[s] = call[s] /\ events'[s] = events[s]
      BY <2>2 DEF TypeInv, TypeOK
    <3>2. Current(s)' = Current(s)
      BY <3>1 DEF Current, Position
    <3> QED BY <3>1, <3>2 DEF TypeInv, AtHand
  <2> QED BY <2>1, <2>2
<1> QED BY <1>3, <1>4 DEF TypeInv

(* Moving one call to a control point with nothing at hand keeps the types. *)
LEMMA MoveType ==
  ASSUME TypeInv, NEW r \in Runs,
         NEW next \in {"loop", "entry", "offline", "done", "aborted"},
         pc' = [pc EXCEPT ![r] = next],
         UNCHANGED <<serverVars, call, cancelled, todo, left, info, events, wireVars>>
  PROVE  TypeInv'
<1> USE DEF wireVars, serverVars
<1>1. TypeOK'
  BY DEF TypeInv, TypeOK, ServerTypeOK
<1>2. AtHand'
  <2> SUFFICES ASSUME NEW s \in Runs
               PROVE  /\ pc'[s] = "idle" => left'[s] = {} /\ events'[s] = << >>
                      /\ left'[s] \subseteq DOMAIN call'[s].manifest.entries
                      /\ pc'[s] \in {"verify", "deleting"} => left'[s] # {} /\ ~Current(s)'.skip
                      /\ pc'[s] = "verify" => info'[s] \in ConsumerState
    BY DEF AtHand
  <2>1. Current(s)' = Current(s)
    BY DEF Current, Position
  <2> QED BY <2>1 DEF TypeInv, TypeOK, AtHand
<1> QED BY <1>1, <1>2 DEF TypeInv

LEMMA VisitType ==
  ASSUME TypeInv, NEW r \in Runs, NEW c \in Clusters, Visit(r, c),
         NEW next \in {"entry", "offline"}, pc' = [pc EXCEPT ![r] = next]
  PROVE  TypeInv'
<1> USE DEF Visit, wireVars, serverVars
<1>1. EntriesOn(call[r].manifest, c) \subseteq DOMAIN call[r].manifest.entries
  BY DEF EntriesOn
<1>2. EntriesOn(call[r].manifest, c) \subseteq Nat
  BY <1>1, CallFacts DEF TypeInv
<1>3. TypeOK'
  BY <1>2 DEF TypeInv, TypeOK, ServerTypeOK
<1>4. AtHand'
  <2> SUFFICES ASSUME NEW s \in Runs
               PROVE  /\ pc'[s] = "idle" => left'[s] = {} /\ events'[s] = << >>
                      /\ left'[s] \subseteq DOMAIN call'[s].manifest.entries
                      /\ pc'[s] \in {"verify", "deleting"} => left'[s] # {} /\ ~Current(s)'.skip
                      /\ pc'[s] = "verify" => info'[s] \in ConsumerState
    BY DEF AtHand
  <2>1. CASE s = r
    BY <2>1, <1>1 DEF TypeInv, TypeOK, AtHand
  <2>2. CASE s # r
    <3>1. left'[s] = left[s] /\ pc'[s] = pc[s] /\ call'[s] = call[s]
      BY <2>2 DEF TypeInv, TypeOK
    <3>2. Current(s)' = Current(s)
      BY <3>1 DEF Current, Position
    <3> QED BY <3>1, <3>2 DEF TypeInv, AtHand
  <2> QED BY <2>1, <2>2
<1> QED BY <1>3, <1>4 DEF TypeInv

LEMMA FetchType ==
  ASSUME TypeInv, NEW r \in Runs, FetchInfo(r)
  PROVE  TypeInv'
<1> USE DEF FetchInfo, AtEntry, wireVars, serverVars
<1>1. live[At(Current(r))] \in ConsumerState
  BY CurrentEntry DEF TypeInv, TypeOK, ServerTypeOK
<1>2. TypeOK'
  BY <1>1 DEF TypeInv, TypeOK, ServerTypeOK
<1>3. AtHand'
  <2> SUFFICES ASSUME NEW s \in Runs
               PROVE  /\ pc'[s] = "idle" => left'[s] = {} /\ events'[s] = << >>
                      /\ left'[s] \subseteq DOMAIN call'[s].manifest.entries
                      /\ pc'[s] \in {"verify", "deleting"} => left'[s] # {} /\ ~Current(s)'.skip
                      /\ pc'[s] = "verify" => info'[s] \in ConsumerState
    BY DEF AtHand
  <2>1. Current(s)' = Current(s)
    BY DEF Current, Position
  <2> QED BY <2>1, <1>1 DEF TypeInv, TypeOK, AtHand
<1> QED BY <1>2, <1>3 DEF TypeInv

LEMMA SendType ==
  ASSUME TypeInv, NEW r \in Runs, SendDelete(r)
  PROVE  TypeInv'
<1> USE DEF SendDelete, serverVars
<1>1. left[r] # {} /\ info[r] \in ConsumerState
  BY DEF TypeInv, AtHand
<1>2. DeleteRequest(r) \in [run : Runs, entry : Nat, at : Addresses, seen : ConsumerState]
  BY <1>1, CurrentEntry DEF DeleteRequest
<1>3. TypeOK'
  BY <1>2 DEF TypeInv, TypeOK, ServerTypeOK
<1>4. AtHand'
  <2> SUFFICES ASSUME NEW s \in Runs
               PROVE  /\ pc'[s] = "idle" => left'[s] = {} /\ events'[s] = << >>
                      /\ left'[s] \subseteq DOMAIN call'[s].manifest.entries
                      /\ pc'[s] \in {"verify", "deleting"} => left'[s] # {} /\ ~Current(s)'.skip
                      /\ pc'[s] = "verify" => info'[s] \in ConsumerState
    BY DEF AtHand
  <2>1. Current(s)' = Current(s)
    BY DEF Current, Position
  <2> QED BY <2>1, <1>1 DEF TypeInv, TypeOK, AtHand
<1> QED BY <1>3, <1>4 DEF TypeInv

LEMMA ExecType ==
  ASSUME TypeInv, NEW q \in requests, ExecDelete(q)
  PROVE  TypeInv'
<1> USE DEF ExecDelete, runVars
<1>1. q \in [run : Runs, entry : Nat, at : Addresses, seen : ConsumerState]
  BY DEF TypeInv, TypeOK
<1>2. live[q.at] \in ConsumerState /\ Gone(live[q.at]) \in ConsumerState
  BY <1>1 DEF TypeInv, TypeOK, ServerTypeOK, ConsumerState, Gone
<1>3. [run |-> q.run, entry |-> q.entry, at |-> q.at, inc |-> live[q.at].inc]
        \in [run : Runs, entry : Nat, at : Addresses, inc : Nat]
  BY <1>1, <1>2 DEF ConsumerState
<1>4. live' \in [Addresses -> ConsumerState]
  BY <1>2 DEF TypeInv, TypeOK, ServerTypeOK
<1>5. reply' \in [Runs -> {"none", "ok", "error"}]
  BY DEF TypeInv, TypeOK, Answer
<1>6. deletions' \subseteq [run : Runs, entry : Nat, at : Addresses, inc : Nat]
  BY <1>3 DEF TypeInv, TypeOK
<1>7. TypeOK'
  BY <1>4, <1>5, <1>6 DEF TypeInv, TypeOK, ServerTypeOK
<1>8. AtHand'
  <2> SUFFICES ASSUME NEW s \in Runs
               PROVE  /\ pc'[s] = "idle" => left'[s] = {} /\ events'[s] = << >>
                      /\ left'[s] \subseteq DOMAIN call'[s].manifest.entries
                      /\ pc'[s] \in {"verify", "deleting"} => left'[s] # {} /\ ~Current(s)'.skip
                      /\ pc'[s] = "verify" => info'[s] \in ConsumerState
    BY DEF AtHand
  <2>1. Current(s)' = Current(s)
    BY DEF Current, Position
  <2> QED BY <2>1 DEF TypeInv, AtHand
<1> QED BY <1>7, <1>8 DEF TypeInv

(* A step of the servers or of the applications leaves the calls alone.     *)
LEMMA ServerType ==
  ASSUME TypeInv, ServerTypeOK', UNCHANGED <<runVars, wireVars>>
  PROVE  TypeInv'
<1> USE DEF runVars, wireVars
<1>1. TypeOK'
  BY DEF TypeInv, TypeOK
<1>2. AtHand'
  <2> SUFFICES ASSUME NEW s \in Runs
               PROVE  /\ pc'[s] = "idle" => left'[s] = {} /\ events'[s] = << >>
                      /\ left'[s] \subseteq DOMAIN call'[s].manifest.entries
                      /\ pc'[s] \in {"verify", "deleting"} => left'[s] # {} /\ ~Current(s)'.skip
                      /\ pc'[s] = "verify" => info'[s] \in ConsumerState
    BY DEF AtHand
  <2>1. Current(s)' = Current(s)
    BY DEF Current, Position
  <2> QED BY <2>1 DEF TypeInv, AtHand
<1> QED BY <1>1, <1>2 DEF TypeInv

(* Cancelling a call, and a step of its own, keep the types.                *)
LEMMA CancelType ==
  ASSUME TypeInv, NEW r \in Runs, Cancel(r)
  PROVE  TypeInv'
<1> USE DEF Cancel, wireVars, serverVars
<1>1. TypeOK'
  BY DEF TypeInv, TypeOK, ServerTypeOK
<1>2. AtHand'
  BY DEF TypeInv, AtHand, Current, Position
<1> QED BY <1>1, <1>2 DEF TypeInv

LEMMA RunStepType ==
  ASSUME TypeInv, NEW r \in Runs, RunStep(r)
  PROVE  TypeInv'
<1>1. CASE Abort(r)
  BY <1>1, MoveType DEF Abort
<1>2. CASE Finish(r)
  BY <1>2, MoveType DEF Finish
<1>3. CASE Release(r)
  BY <1>3, MoveType DEF Release
<1>4. ASSUME NEW c \in Clusters, Connect(r, c) PROVE TypeInv'
  BY <1>4, VisitType DEF Connect
<1>5. ASSUME NEW c \in Clusters, ConnectFails(r, c) PROVE TypeInv'
  BY <1>5, VisitType DEF ConnectFails
<1>6. CASE FailEntry(r)
  BY <1>6, SettleType DEF FailEntry, Action
<1>7. CASE SkipEntry(r)
  BY <1>7, SettleType DEF SkipEntry, AtEntry, Action
<1>8. CASE FetchInfo(r)
  BY <1>8, FetchType
<1>9. CASE FetchNotFound(r)
  BY <1>9, SettleType DEF FetchNotFound, AtEntry, Action
<1>10. CASE FetchFails(r)
  BY <1>10, SettleType DEF FetchFails, AtEntry, Action
<1>11. pc[r] \in {"verify", "deleting"} => left[r] # {}
  BY DEF TypeInv, AtHand
<1>12. CASE SpareProtected(r)
  BY <1>11, <1>12, SettleType DEF SpareProtected, Action
<1>13. CASE SpareActive(r)
  BY <1>11, <1>13, SettleType DEF SpareActive, Action
<1>14. CASE WouldDelete(r)
  BY <1>11, <1>14, SettleType DEF WouldDelete, Action
<1>15. CASE SendDelete(r)
  BY <1>15, SendType
<1>16. CASE DeleteSucceeds(r)
  BY <1>11, <1>16, SettleType DEF DeleteSucceeds, Action
<1>17. CASE DeleteFails(r)
  BY <1>11, <1>17, SettleType DEF DeleteFails, Action
<1> QED BY <1>1, <1>2, <1>3, <1>4, <1>5, <1>6, <1>7, <1>8, <1>9, <1>10,
           <1>12, <1>13, <1>14, <1>15, <1>16, <1>17 DEF RunStep

(* So does whatever the servers and the applications do.                    *)
LEMMA ServerStepType ==
  ASSUME TypeInv, ServerStep
  PROVE  TypeInv'
<1>1. ASSUME NEW q \in requests, ExecDelete(q) PROVE TypeInv'
  BY <1>1, ExecType
<1>2. ASSUME Tick, UNCHANGED <<runVars, wireVars>> PROVE TypeInv'
  <2>1. ServerTypeOK'
    BY <1>2 DEF Tick, TypeInv, TypeOK, ServerTypeOK
  <2> QED BY <2>1, <1>2, ServerType
<1>3. ASSUME NEW a \in Addresses, ApplicationStep(a), UNCHANGED <<runVars, wireVars>>
      PROVE TypeInv'
  <2>1. ServerTypeOK'
    BY <1>3, ApplicationType DEF TypeInv, TypeOK
  <2> QED BY <2>1, <1>3, ServerType
<1> QED BY <1>1, <1>2, <1>3 DEF ServerStep

LEMMA RestType ==
  ASSUME TypeInv, UNCHANGED vars
  PROVE  TypeInv'
<1>1. ServerTypeOK'
  BY DEF vars, serverVars, TypeInv, TypeOK, ServerTypeOK
<1>2. UNCHANGED <<runVars, wireVars>>
  BY DEF vars
<1> QED BY <1>1, <1>2, ServerType

LEMMA NextTypeInv == TypeInv /\ [Next]_vars => TypeInv'
<1> SUFFICES ASSUME TypeInv, [Next]_vars PROVE TypeInv'
  OBVIOUS
<1>1. ASSUME NEW r \in Runs, NEW k \in Calls, Start(r, k) PROVE TypeInv'
  BY <1>1, StartType, CallsAssumption
<1>2. ASSUME NEW r \in Runs, Cancel(r) \/ RunStep(r) PROVE TypeInv'
  BY <1>2, CancelType, RunStepType
<1> QED BY <1>1, <1>2, ServerStepType, RestType DEF Next, Terminated

LEMMA TypeInvariant == Spec => []TypeInv
  BY InitTypeInv, NextTypeInv, PTL DEF Spec

(* Every behaviour keeps its types.                                         *)
THEOREM TypeCorrect == Spec => []TypeOK
<1>1. TypeInv => TypeOK
  BY DEF TypeInv
<1> QED BY <1>1, TypeInvariant, PTL

-----------------------------------------------------------------------------
(* Re-verification and protection.  The invariant: whatever a request in   *)
(* flight rests on was judged removable by the package's own promise.      *)

Cleared == \A q \in requests : pc[q.run] # "idle" /\ Removable(q, q.seen)

(* The code's tests and the promise agree.                                  *)
LEMMA ProtectedIsVetoed ==
  ASSUME NEW p, NEW cluster, NEW stream, NEW consumer, NEW meta
  PROVE  Protected(p, stream, consumer, meta)
           <=> Vetoed(p, <<cluster, stream, consumer>>, meta)
<1>1. ByMetadata(p, meta) <=>
        \E k \in DOMAIN meta :
           meta[k] \notin Falsey /\ (k \in p.keys \/ (k = DefaultMetadataKey /\ p.keys = {}))
  BY DEF ByMetadata, KeysOf
<1>2. ByPattern(p, stream, consumer) <=>
        \E pat \in p.patterns :
           /\ pat.stream = AnyName \/ <<pat.stream, stream>> \in GlobMatches
           /\ pat.consumer = AnyName \/ <<pat.consumer, consumer>> \in GlobMatches
  BY DEF ByPattern, Matches
<1>3. Protected(p, stream, consumer, meta) <=>
        p # NoProtector /\ (ByMetadata(p, meta) \/ ByPattern(p, stream, consumer))
  BY DEF Protected, Reason
<1> QED BY <1>1, <1>2, <1>3 DEF Vetoed

LEMMA ActiveIsInUse ==
  ASSUME NEW c \in ConsumerState, NEW t \in Nat
  PROVE  IsActive(c, t) <=> InUse(c, t)
  BY DEF ConsumerState, IsActive, InUse

LEMMA InitCleared == Init => Cleared
  BY DEF Init, Cleared

(* A request is sent only for a current entry that passed both tests.       *)
LEMMA SendCleared ==
  ASSUME TypeInv, NEW r \in Runs, SendDelete(r)
  PROVE  Removable(DeleteRequest(r), info[r])
<1> DEFINE e == Current(r)
           a == <<e.cluster, e.stream, e.consumer>>
<1>1. left[r] # {} /\ ~e.skip /\ info[r] \in ConsumerState
  BY DEF TypeInv, AtHand, SendDelete
<1>2. call[r].manifest.generatedAt \in Nat
  BY CallFacts DEF TypeInv, Manifest
<1>3. ~InUse(info[r], call[r].manifest.generatedAt)
  BY <1>1, <1>2, ActiveIsInUse DEF SendDelete, Inactive
<1>4. ~Vetoed(call[r].guard, a, info[r].meta)
  <2>1. ~Protected(call[r].guard, e.stream, e.consumer, info[r].meta)
    BY DEF SendDelete, Inactive, IsProtected
  <2> QED BY <2>1, ProtectedIsVetoed
<1>5. Position(r) \in DOMAIN call[r].manifest.entries
  BY <1>1, CurrentEntry
<1>6. DeleteRequest(r).run = r /\ DeleteRequest(r).at = a
  BY DEF DeleteRequest, At
<1>7. ~call[r].dryRun
  BY DEF SendDelete
<1> QED BY <1>1, <1>3, <1>4, <1>5, <1>6, <1>7 DEF Removable, Justified, Current, At

(* What the servers and the calls do keeps it, whoever makes the calls.     *)
LEMMA StepCleared ==
  ASSUME TypeInv, Cleared,
         \/ \E r \in Runs : (\E k : Start(r, k)) \/ Cancel(r) \/ RunStep(r)
         \/ ServerStep \/ UNCHANGED <<runVars, wireVars>>
  PROVE  Cleared'
<1>1. \A q \in requests : q.run \in Runs
  BY DEF TypeInv, TypeOK
<1>2. ASSUME requests' \subseteq requests,
             \A s \in Runs : pc[s] # "idle" => pc'[s] # "idle" /\ call'[s] = call[s]
      PROVE  Cleared'
  BY <1>1, <1>2 DEF Cleared, Removable
<1>3. ASSUME NEW r \in Runs, SendDelete(r) PROVE Cleared'
  <2>1. /\ requests' = requests \cup {DeleteRequest(r)} /\ call' = call
        /\ \A s \in Runs : pc[s] # "idle" => pc'[s] # "idle"
        /\ pc'[r] # "idle"
    BY <1>3 DEF SendDelete, TypeInv, TypeOK
  <2>2. DeleteRequest(r).seen = info[r] /\ DeleteRequest(r).run = r
    BY DEF DeleteRequest
  <2>3. Removable(DeleteRequest(r), DeleteRequest(r).seen)
    BY <1>3, <2>2, SendCleared
  <2> QED BY <1>1, <2>1, <2>2, <2>3 DEF Cleared, Removable
<1>4. ASSUME NEW q \in requests, ExecDelete(q) PROVE Cleared'
  BY <1>2, <1>4 DEF ExecDelete, runVars
<1>5. ASSUME NEW r \in Runs, NEW k, Start(r, k) PROVE Cleared'
  BY <1>2, <1>5 DEF Start, wireVars, TypeInv, TypeOK
<1>6. ASSUME NEW r \in Runs, Cancel(r) PROVE Cleared'
  BY <1>2, <1>6 DEF Cancel, wireVars
<1>7. ASSUME NEW r \in Runs, RunStep(r), ~SendDelete(r) PROVE Cleared'
  <2>1. requests' = requests /\ call' = call
    BY <1>7 DEF RunStep, Abort, Finish, Release, Connect, ConnectFails, Visit,
       FailEntry, SkipEntry, FetchInfo, FetchNotFound, FetchFails, SpareProtected,
       SpareActive, WouldDelete, DeleteSucceeds, DeleteFails, Settle, wireVars
  <2>2. \E next \in {"done", "aborted", "loop", "entry", "offline", "verify"} :
          pc' = [pc EXCEPT ![r] = next]
    BY <1>7 DEF RunStep, Abort, Finish, Release, Connect, ConnectFails,
       FailEntry, SkipEntry, FetchInfo, FetchNotFound, FetchFails, SpareProtected,
       SpareActive, WouldDelete, DeleteSucceeds, DeleteFails, Settle
  <2> QED BY <1>2, <2>1, <2>2 DEF TypeInv, TypeOK
<1>8. CASE UNCHANGED <<runVars, wireVars>>
  BY <1>2, <1>8 DEF runVars, wireVars
<1> QED BY <1>3, <1>4, <1>5, <1>6, <1>7, <1>8 DEF ServerStep

LEMMA NextCleared == TypeInv /\ Cleared /\ [Next]_vars => Cleared'
<1> SUFFICES ASSUME TypeInv, Cleared, [Next]_vars PROVE Cleared'
  OBVIOUS
<1>1. CASE UNCHANGED vars
  BY <1>1, StepCleared DEF vars
<1> QED BY <1>1, StepCleared DEF Next, Terminated

(* Whatever the interleaving and however late the server acts, a consumer   *)
(* that is still as natsie inspected it is removed only if the manifest     *)
(* lists it, unskipped, it is neither in use nor protected, and the call is *)
(* no dry run (cleanup.go:9-25).                                            *)
THEOREM JustifiedDeletions == Spec => DeletionJustified
<1>1. Spec => []Cleared
  BY InitCleared, NextCleared, TypeInvariant, PTL DEF Spec
<1>2. Cleared => \A q \in requests :
        Executed(q) /\ live[q.at] = q.seen => Removable(q, live[q.at])
  BY DEF Cleared
<1> QED BY <1>1, <1>2, PTL DEF DeletionJustified

-----------------------------------------------------------------------------
(* The report matches what was removed.  Three more facts make it          *)
(* inductive: a request names the consumer of its entry, it is accounted   *)
(* for like a removal, and an "ok" stands for a removal already made.      *)

RequestsTraced ==
  \A q \in requests :
    q.at = At(call[q.run].manifest.entries[q.entry]) /\ Accounted(q)

RepliesHonest ==
  \A r \in Runs : pc[r] = "deleting" /\ reply[r] = "ok" =>
    \E d \in deletions :
      d.run = r /\ d.entry = Position(r) /\ d.at = At(Current(r))

ReportInv == ReportsMatchDeletions /\ RequestsTraced /\ RepliesHonest

LEMMA InitReportInv == Init => ReportInv
  BY DEF Init, ReportInv, ReportsMatchDeletions, RequestsTraced, RepliesHonest

(* Steps that write no event and leave every awaited delete as it is.       *)
LEMMA QuietStep ==
  ASSUME TypeInv, ReportInv,
         UNCHANGED <<call, events, requests, reply, deletions>>,
         \A s \in Runs : (pc[s] = "deleting" \/ pc'[s] = "deleting") =>
            pc'[s] = pc[s] /\ left'[s] = left[s]
  PROVE  ReportInv'
<1>1. ASSUME NEW s \in Runs, pc[s] = "deleting" \/ pc'[s] = "deleting"
      PROVE  Position(s)' = Position(s) /\ Current(s)' = Current(s)
  BY <1>1 DEF Position, Current
<1>2. ASSUME NEW x, x.run \in Runs, Accounted(x) PROVE Accounted(x)'
  BY <1>1, <1>2 DEF Accounted
<1>3. ReportsMatchDeletions'
  <2>1. \A d \in deletions : d.run \in Runs
    BY DEF TypeInv, TypeOK
  <2> QED BY <1>2, <2>1 DEF ReportInv, ReportsMatchDeletions, EventAt
<1>4. RequestsTraced'
  <2>1. \A q \in requests : q.run \in Runs
    BY DEF TypeInv, TypeOK
  <2> QED BY <1>2, <2>1 DEF ReportInv, RequestsTraced
<1>5. RepliesHonest'
  BY <1>1 DEF ReportInv, RepliesHonest
<1> QED BY <1>3, <1>4, <1>5 DEF ReportInv

(* Settling an entry writes the last event, and leaves the other calls and  *)
(* their events alone.                                                      *)
LEMMA SettleFacts ==
  ASSUME TypeInv, NEW r \in Runs, left[r] # {},
         NEW action \in Action, NEW next \in {"entry", "offline"}, Settle(r, action, next)
  PROVE  LET last == Len(events[r]) + 1 IN
           /\ DOMAIN events'[r] = DOMAIN events[r] \cup {last}
           /\ events'[r][last] = [entry |-> Position(r), action |-> action]
           /\ \A i \in DOMAIN events[r] : events'[r][i] = events[r][i]
           /\ \A s \in Runs : s # r =>
                /\ events'[s] = events[s] /\ pc'[s] = pc[s] /\ left'[s] = left[s]
                /\ Position(s)' = Position(s) /\ Current(s)' = Current(s)
<1> DEFINE ev == [entry |-> Position(r), action |-> action]
<1> USE DEF Settle
<1>1. events[r] \in Seq(Event) /\ ev \in Event
  BY CurrentEntry DEF TypeInv, TypeOK, Event
<1>2. events'[r] = Append(events[r], ev)
  BY DEF TypeInv, TypeOK
<1>3. ASSUME NEW s \in Runs, s # r
      PROVE  /\ events'[s] = events[s] /\ pc'[s] = pc[s] /\ left'[s] = left[s]
             /\ Position(s)' = Position(s) /\ Current(s)' = Current(s)
  BY <1>3 DEF TypeInv, TypeOK, Position, Current
<1> QED BY <1>1, <1>2, <1>3

\* An awaited delete that ends DELETED or FAIL remains accounted for.
LEMMA SettleAccounted ==
  ASSUME TypeInv, NEW r \in Runs, left[r] # {},
         NEW action \in Action, NEW next \in {"entry", "offline"}, Settle(r, action, next),
         pc[r] = "deleting" => action \in {"DELETED", "FAIL"},
         NEW x, x.run \in Runs, Accounted(x)
  PROVE  Accounted(x)'
<1> DEFINE last == Len(events[r]) + 1
<1>1. /\ DOMAIN events'[r] = DOMAIN events[r] \cup {last}
      /\ events'[r][last] = [entry |-> Position(r), action |-> action]
      /\ \A i \in DOMAIN events[r] : events'[r][i] = events[r][i]
      /\ \A s \in Runs : s # r =>
           events'[s] = events[s] /\ pc'[s] = pc[s] /\ Position(s)' = Position(s)
  BY SettleFacts
<1>2. CASE x.run # r
  BY <1>1, <1>2 DEF Accounted
<1>3. CASE /\ x.run = r
           /\ \E i \in DOMAIN events[r] :
                events[r][i].entry = x.entry /\ events[r][i].action \in {"DELETED", "FAIL"}
  BY <1>1, <1>3 DEF Accounted
<1>4. CASE x.run = r /\ pc[r] = "deleting" /\ x.entry = Position(r)
  BY <1>1, <1>4 DEF Accounted
<1> QED BY <1>2, <1>3, <1>4 DEF Accounted

(* Settling an entry: an awaited delete may only end DELETED or FAIL, and   *)
(* DELETED needs the server's word.                                         *)
LEMMA SettleReport ==
  ASSUME TypeInv, ReportInv, NEW r \in Runs, left[r] # {},
         NEW action \in Action, NEW next \in {"entry", "offline"},
         Settle(r, action, next), UNCHANGED wireVars,
         pc[r] = "deleting" => action \in {"DELETED", "FAIL"},
         action = "DELETED" => pc[r] = "deleting" /\ reply[r] = "ok"
  PROVE  ReportInv'
<1> DEFINE ev == [entry |-> Position(r), action |-> action]
           last == Len(events[r]) + 1
<1> USE DEF wireVars
<1>1. UNCHANGED call /\ pc' = [pc EXCEPT ![r] = next]
  BY DEF Settle
<1>2. /\ DOMAIN events'[r] = DOMAIN events[r] \cup {last}
      /\ events'[r][last] = ev
      /\ \A i \in DOMAIN events[r] : events'[r][i] = events[r][i]
  BY SettleFacts
<1>3. ASSUME NEW s \in Runs, s # r
      PROVE  /\ events'[s] = events[s] /\ pc'[s] = pc[s] /\ left'[s] = left[s]
             /\ Position(s)' = Position(s) /\ Current(s)' = Current(s)
  BY <1>3, SettleFacts
<1>4. ASSUME NEW x, x.run \in Runs, Accounted(x) PROVE Accounted(x)'
  BY <1>4, SettleAccounted
<1>5. ReportsMatchDeletions'
  <2>1. \A d \in deletions : Accounted(d)'
    BY <1>4 DEF TypeInv, TypeOK, ReportInv, ReportsMatchDeletions
  <2>2. ASSUME NEW s \in Runs, NEW i \in DOMAIN events'[s], events'[s][i].action = "DELETED"
        PROVE  \E d \in deletions :
                 d.run = s /\ d.entry = events'[s][i].entry /\ d.at = EventAt(s, i)'
    <3>1. CASE s # r
      BY <1>1, <1>3, <2>2, <3>1 DEF ReportInv, ReportsMatchDeletions, EventAt
    <3>2. CASE s = r /\ i \in DOMAIN events[r]
      BY <1>1, <1>2, <2>2, <3>2 DEF ReportInv, ReportsMatchDeletions, EventAt
    <3>3. CASE s = r /\ i = last
      <4>1. action = "DELETED" /\ events'[s][i].entry = Position(r)
        BY <1>2, <2>2, <3>3
      <4>2. EventAt(s, i)' = At(Current(r))
        BY <1>1, <4>1, <3>3 DEF EventAt, Current
      <4> QED BY <4>1, <4>2, <3>3 DEF ReportInv, RepliesHonest
    <3> QED BY <1>2, <2>2, <3>1, <3>2, <3>3
  <2> QED BY <2>1, <2>2 DEF ReportsMatchDeletions
<1>6. RequestsTraced'
  BY <1>1, <1>4 DEF TypeInv, TypeOK, ReportInv, RequestsTraced
<1>7. RepliesHonest'
  <2>1. pc'[r] # "deleting"
    BY <1>1 DEF TypeInv, TypeOK
  <2> QED BY <1>3, <2>1 DEF ReportInv, RepliesHonest
<1> QED BY <1>5, <1>6, <1>7 DEF ReportInv

LEMMA SendReport ==
  ASSUME TypeInv, ReportInv, NEW r \in Runs, SendDelete(r)
  PROVE  ReportInv'
<1> USE DEF SendDelete
<1>1. \A s : Position(s)' = Position(s) /\ Current(s)' = Current(s)
  BY DEF Position, Current
<1>2. pc' = [pc EXCEPT ![r] = "deleting"] /\ pc[r] = "verify" /\ pc'[r] = "deleting"
  BY DEF TypeInv, TypeOK
<1>3. ASSUME NEW x, Accounted(x) PROVE Accounted(x)'
  BY <1>1, <1>2, <1>3 DEF Accounted, TypeInv, TypeOK
<1>4. ReportsMatchDeletions'
  BY <1>3 DEF ReportInv, ReportsMatchDeletions, EventAt
<1>5. RequestsTraced'
  <2>1. PICK q : q = DeleteRequest(r)
    OBVIOUS
  <2>2. /\ q.run = r /\ q.entry = Position(r)
        /\ q.at = At(call[q.run].manifest.entries[q.entry])
    BY <2>1 DEF DeleteRequest, Current
  <2>3. Accounted(q)'
    BY <1>1, <1>2, <2>2 DEF Accounted
  <2> QED BY <1>3, <2>1, <2>2, <2>3 DEF ReportInv, RequestsTraced
<1>6. RepliesHonest'
  BY <1>1, <1>2 DEF TypeInv, TypeOK, ReportInv, RepliesHonest
<1> QED BY <1>4, <1>5, <1>6 DEF ReportInv

LEMMA ExecReport ==
  ASSUME TypeInv, ReportInv, NEW q \in requests, ExecDelete(q)
  PROVE  ReportInv'
<1> DEFINE d == [run |-> q.run, entry |-> q.entry, at |-> q.at, inc |-> live[q.at].inc]
<1> USE DEF ExecDelete, runVars
<1>1. q.run \in Runs
  BY DEF TypeInv, TypeOK
<1>2. \A s : Position(s)' = Position(s) /\ Current(s)' = Current(s)
  BY DEF Position, Current
<1>3. \A x : Accounted(x)' <=> Accounted(x)
  BY <1>2 DEF Accounted
<1>4. deletions' \subseteq deletions \cup {d} /\ deletions \subseteq deletions'
  OBVIOUS
<1>5. Accounted(d)
  BY DEF ReportInv, RequestsTraced, Accounted
<1>6. ReportsMatchDeletions'
  BY <1>3, <1>4, <1>5 DEF ReportInv, ReportsMatchDeletions, EventAt
<1>7. RequestsTraced'
  BY <1>3 DEF ReportInv, RequestsTraced
<1>8. RepliesHonest'
  <2> SUFFICES ASSUME NEW s \in Runs, pc[s] = "deleting", reply'[s] = "ok"
               PROVE  \E x \in deletions' :
                        x.run = s /\ x.entry = Position(s) /\ x.at = At(Current(s))
    BY <1>2 DEF RepliesHonest
  <2>1. CASE reply[s] = "ok"
    BY <1>4, <2>1 DEF ReportInv, RepliesHonest
  <2>2. CASE reply[s] # "ok"
    <3>1. s = q.run /\ Awaited(q) /\ live[q.at].exists
      BY <2>2, <1>1 DEF Answer, TypeInv, TypeOK
    <3>2. q.at = At(Current(s)) /\ q.entry = Position(s)
      BY <3>1 DEF ReportInv, RequestsTraced, Awaited, Current
    <3>3. d \in deletions'
      BY <3>1
    <3> QED BY <3>1, <3>2, <3>3
  <2> QED BY <2>1, <2>2
<1> QED BY <1>6, <1>7, <1>8 DEF ReportInv

(* A call that is made has neither events nor requests yet.                 *)
LEMMA StartReport ==
  ASSUME TypeInv, ReportInv, NEW r \in Runs, NEW k, Start(r, k)
  PROVE  ReportInv'
<1> USE DEF Start, wireVars
<1>1. pc[r] = "idle" /\ pc'[r] = "loop" /\ events[r] = << >>
  BY DEF TypeInv, TypeOK, AtHand
<1>2. ASSUME NEW s \in Runs, s # r
      PROVE  /\ pc'[s] = pc[s] /\ call'[s] = call[s]
             /\ Position(s)' = Position(s) /\ Current(s)' = Current(s)
  BY <1>2 DEF TypeInv, TypeOK, Position, Current
<1>3. ASSUME NEW x, x.run \in Runs, Accounted(x) PROVE x.run # r /\ Accounted(x)'
  BY <1>1, <1>2, <1>3 DEF Accounted
<1>4. \A q \in requests \cup deletions : q.run \in Runs
  BY DEF TypeInv, TypeOK
<1>5. ReportsMatchDeletions'
  BY <1>1, <1>2, <1>3, <1>4 DEF ReportInv, ReportsMatchDeletions, EventAt
<1>6. RequestsTraced'
  BY <1>2, <1>3, <1>4 DEF ReportInv, RequestsTraced
<1>7. RepliesHonest'
  BY <1>1, <1>2 DEF ReportInv, RepliesHonest
<1> QED BY <1>5, <1>6, <1>7 DEF ReportInv

LEMMA NextReportInv == TypeInv /\ ReportInv /\ [Next]_vars => ReportInv'
<1> SUFFICES ASSUME TypeInv, ReportInv, [Next]_vars PROVE ReportInv'
  OBVIOUS
<1> USE DEF wireVars
<1>1. \A r \in Runs : pc[r] \in {"verify", "deleting"} => left[r] # {}
  BY DEF TypeInv, AtHand
<1>2. ASSUME NEW r \in Runs, NEW k \in Calls, Start(r, k) PROVE ReportInv'
  BY <1>2, StartReport
<1>3. ASSUME NEW r \in Runs, Cancel(r) PROVE ReportInv'
  BY <1>3, QuietStep DEF Cancel
<1>4. ASSUME NEW r \in Runs, RunStep(r) PROVE ReportInv'
  <2>1. CASE Abort(r) \/ Finish(r) \/ Release(r)
    BY <2>1, QuietStep DEF Abort, Finish, Release, TypeInv, TypeOK
  <2>2. ASSUME NEW c \in Clusters, Connect(r, c) \/ ConnectFails(r, c) PROVE ReportInv'
    BY <2>2, QuietStep DEF Connect, ConnectFails, Visit, TypeInv, TypeOK
  <2>3. CASE FailEntry(r)
    BY <2>3, SettleReport DEF FailEntry, Action
  <2>4. CASE SkipEntry(r)
    BY <2>4, SettleReport DEF SkipEntry, AtEntry, Action
  <2>5. CASE FetchInfo(r)
    BY <2>5, QuietStep DEF FetchInfo, AtEntry, TypeInv, TypeOK
  <2>6. CASE FetchNotFound(r)
    BY <2>6, SettleReport DEF FetchNotFound, AtEntry, Action
  <2>7. CASE FetchFails(r)
    BY <2>7, SettleReport DEF FetchFails, AtEntry, Action
  <2>8. CASE SpareProtected(r)
    BY <1>1, <2>8, SettleReport DEF SpareProtected, Action
  <2>9. CASE SpareActive(r)
    BY <1>1, <2>9, SettleReport DEF SpareActive, Action
  <2>10. CASE WouldDelete(r)
    BY <1>1, <2>10, SettleReport DEF WouldDelete, Action
  <2>11. CASE SendDelete(r)
    BY <2>11, SendReport
  <2>12. CASE DeleteSucceeds(r)
    BY <1>1, <2>12, SettleReport DEF DeleteSucceeds, Action
  <2>13. CASE DeleteFails(r)
    BY <1>1, <2>13, SettleReport DEF DeleteFails, Action
  <2> QED BY <1>4, <2>1, <2>2, <2>3, <2>4, <2>5, <2>6, <2>7, <2>8, <2>9, <2>10,
             <2>11, <2>12, <2>13 DEF RunStep
<1>5. ASSUME NEW q \in requests, ExecDelete(q) PROVE ReportInv'
  BY <1>5, ExecReport
<1>6. CASE UNCHANGED <<runVars, wireVars>>
  BY <1>6, QuietStep DEF runVars
<1>7. CASE UNCHANGED vars
  BY <1>6, <1>7 DEF vars
<1> QED BY <1>2, <1>3, <1>4, <1>5, <1>6, <1>7 DEF Next, ServerStep, Terminated

(* Only entries reported DELETED or FAIL, or still awaited, ever cost a      *)
(* consumer its life, and a DELETED event always stands for a removal made   *)
(* on that entry's own request (cleanup.go:149-214).                         *)
THEOREM TruthfulReports == Spec => []ReportsMatchDeletions
<1>1. Spec => []ReportInv
  BY InitReportInv, NextReportInv, TypeInvariant, PTL DEF Spec
<1>2. ReportInv => ReportsMatchDeletions
  BY DEF ReportInv
<1> QED BY <1>1, <1>2, PTL

-----------------------------------------------------------------------------
(* Cleanup implements SafeDelete: each step of Apply, of the servers and of *)
(* the applications is a step that SafeDelete allows, or leaves what it     *)
(* sees as it is.                                                           *)

Claims == UNION {ClaimsOf(r) : r \in Runs}

(* What Apply holds in its hand it holds only while it judges or deletes.   *)
HandInv ==
  \A r \in Runs : info[r] # NoInfo => pc[r] \in {"verify", "deleting"}

LEMMA InitHandInv == Init => HandInv
  BY DEF Init, HandInv

LEMMA NextHandInv == TypeInv /\ HandInv /\ [Next]_vars => HandInv'
<1> SUFFICES ASSUME TypeInv, HandInv, [Next]_vars PROVE HandInv'
  OBVIOUS
<1> USE DEF HandInv, TypeInv, TypeOK
<1>1. ASSUME NEW r \in Runs, NEW k \in Calls, Start(r, k) PROVE HandInv'
  BY <1>1 DEF Start
<1>2. ASSUME NEW r \in Runs, Cancel(r) PROVE HandInv'
  BY <1>2 DEF Cancel
<1>3. ASSUME NEW r \in Runs, RunStep(r) PROVE HandInv'
  <2>1. CASE \/ Abort(r) \/ Finish(r) \/ Release(r)
             \/ \E c \in Clusters : Connect(r, c) \/ ConnectFails(r, c)
    BY <2>1 DEF Abort, Finish, Release, Connect, ConnectFails, Visit
  <2>2. ASSUME NEW action, NEW next, Settle(r, action, next) PROVE HandInv'
    BY <2>2 DEF Settle
  <2>3. CASE FetchInfo(r)
    BY <2>3 DEF FetchInfo
  <2>4. CASE SendDelete(r)
    BY <2>4 DEF SendDelete
  <2> QED BY <1>3, <2>1, <2>2, <2>3, <2>4 DEF RunStep, FailEntry, SkipEntry,
        FetchNotFound, FetchFails, SpareProtected, SpareActive, WouldDelete,
        DeleteSucceeds, DeleteFails
<1>4. ASSUME NEW q \in requests, ExecDelete(q) PROVE HandInv'
  BY <1>4 DEF ExecDelete, runVars
<1>5. CASE UNCHANGED vars \/ UNCHANGED <<runVars, wireVars>>
  BY <1>5 DEF vars, runVars
<1> QED BY <1>1, <1>2, <1>3, <1>4, <1>5 DEF Next, ServerStep, Terminated

LEMMA InitSafe == Init => Safe!Init
<1> SUFFICES ASSUME Init PROVE Safe!Init
  OBVIOUS
<1>1. live \in [Addresses -> ConsumerState]
  BY InitialAssumption DEF Init, ServerInit
<1>2. Inspected = {}
  BY DEF Init, Inspected
<1>3. Orders = {}
  BY DEF Init, Orders
<1>4. Claims = {}
  BY DEF Init, Claims, ClaimsOf
<1>5. deletions = {}
  BY DEF Init
<1> QED BY <1>1, <1>2, <1>3, <1>4, <1>5 DEF Safe!Init, Claims

-----------------------------------------------------------------------------
(* What SafeDelete sees of each kind of step.                              *)

(* A step that leaves consumers, events, requests and removals alone, and   *)
(* of a call changes only what has nothing at hand, is invisible.           *)
LEMMA QuietIsStutter ==
  ASSUME TypeInv, NEW r \in Runs, info[r] = NoInfo,
         UNCHANGED <<live, info, events, requests, deletions>>,
         \A s \in Runs \ {r} : left'[s] = left[s] /\ call'[s] = call[s],
         \/ call'[r] = call[r]
         \/ events[r] = << >> /\ \A q \in requests : q.run # r
  PROVE  UNCHANGED Safe!vars
<1>1. Inspected' = Inspected
  BY DEF Inspected, Current, Position
<1>2. Orders' = Orders
  <2>1. \A q \in requests : q.run \in Runs
    BY DEF TypeInv, TypeOK
  <2>2. \A q \in requests : call'[q.run] = call[q.run]
    BY <2>1
  <2> QED BY <2>2 DEF Orders
<1>3. ASSUME NEW s \in Runs PROVE ClaimsOf(s)' = ClaimsOf(s)
  <2>1. CASE call'[s] = call[s]
    BY <2>1 DEF ClaimsOf, EventAt
  <2>2. CASE events[s] = << >>
    <3>1. DOMAIN events[s] = {} /\ DOMAIN events'[s] = {}
      BY <2>2
    <3> QED BY <3>1 DEF ClaimsOf
  <2> QED BY <2>1, <2>2
<1>4. Claims' = Claims
  BY <1>3 DEF Claims
<1> QED BY <1>1, <1>2, <1>4 DEF Safe!vars, Claims

(* Settling an entry empties the call's hand; it claims a removal only when *)
(* the verdict is DELETED.                                                  *)
LEMMA SettleSeen ==
  ASSUME TypeInv, NEW r \in Runs, left[r] # {}, NEW action \in Action,
         NEW next, Settle(r, action, next)
  PROVE  /\ Inspected' = {x \in Inspected : x.run # r}
         /\ Claims' = IF action = "DELETED"
                      THEN Claims \cup {[run |-> r, entry |-> Position(r), at |-> At(Current(r))]}
                      ELSE Claims
         /\ UNCHANGED <<live, call>>
<1> USE DEF Settle
<1> DEFINE ev == [entry |-> Position(r), action |-> action]
           claim == [run |-> r, entry |-> Position(r), at |-> At(Current(r))]
<1>1. UNCHANGED <<live, call>>
  BY DEF serverVars
<1>2. ASSUME NEW s \in Runs, s # r
      PROVE  /\ events'[s] = events[s] /\ info'[s] = info[s]
             /\ Current(s)' = Current(s)
  BY <1>1, <1>2 DEF TypeInv, TypeOK, Current, Position
<1>3. info'[r] = NoInfo
  BY DEF TypeInv, TypeOK
<1>4. Inspected' = {x \in Inspected : x.run # r}
  <2>1. {s \in Runs : info'[s] # NoInfo} = {s \in Runs : info[s] # NoInfo} \ {r}
    BY <1>2, <1>3
  <2>2. ASSUME NEW x
        PROVE  x \in Inspected' <=> x \in Inspected /\ x.run # r
    BY <1>2, <2>1 DEF Inspected
  <2> QED BY <2>2
<1>5. events[r] \in Seq(Event) /\ ev \in Event
  BY CurrentEntry DEF TypeInv, TypeOK, Event
<1> PICK last : last = Len(events[r]) + 1
  OBVIOUS
<1>6. /\ DOMAIN events'[r] = DOMAIN events[r] \cup {last}
      /\ events'[r][last] = ev
      /\ \A i \in DOMAIN events[r] : events'[r][i] = events[r][i] /\ i # last
  BY <1>5 DEF TypeInv, TypeOK
<1>7. ASSUME NEW s \in Runs, s # r PROVE ClaimsOf(s)' = ClaimsOf(s)
  BY <1>1, <1>2, <1>7 DEF ClaimsOf, EventAt
<1>8. EventAt(r, last)' = At(Current(r))
  <2>1. call'[r] = call[r] /\ events'[r][last].entry = Position(r)
    BY <1>1, <1>6
  <2>2. EventAt(r, last)' = At(call'[r].manifest.entries[events'[r][last].entry])
    BY DEF EventAt, At
  <2> QED BY <2>1, <2>2 DEF Current
<1>9. \A i \in DOMAIN events[r] : EventAt(r, i)' = EventAt(r, i)
  BY <1>1, <1>6 DEF EventAt
<1>10. ASSUME NEW x
       PROVE  x \in ClaimsOf(r)' <=> x \in ClaimsOf(r) \/ (action = "DELETED" /\ x = claim)
  <2> DEFINE told(i) == [run |-> r, entry |-> events[r][i].entry, at |-> EventAt(r, i)]
             now(i)  == [run |-> r, entry |-> events'[r][i].entry, at |-> EventAt(r, i)']
  <2>1. \A i \in DOMAIN events[r] : now(i) = told(i)
    BY <1>6, <1>9
  <2>2. now(last) = claim
    BY <1>6, <1>8
  <2>3. x \in ClaimsOf(r) <=>
          \E i \in DOMAIN events[r] : events[r][i].action = "DELETED" /\ x = told(i)
    BY DEF ClaimsOf
  <2>4. x \in ClaimsOf(r)' <=>
          \E i \in DOMAIN events'[r] : events'[r][i].action = "DELETED" /\ x = now(i)
    BY DEF ClaimsOf
  <2> HIDE DEF told, now, claim
  <2> QED BY <1>6, <2>1, <2>2, <2>3, <2>4
<1>11. ASSUME NEW x
       PROVE  x \in Claims' <=> x \in Claims \/ (action = "DELETED" /\ x = claim)
  BY <1>7, <1>10 DEF Claims
<1>12. Claims' = IF action = "DELETED" THEN Claims \cup {claim} ELSE Claims
  BY <1>11
<1> QED BY <1>1, <1>4, <1>12

(* A settled entry is a claim of a removal made, or a consumer let be.      *)
LEMMA SettleIsSafe ==
  ASSUME TypeInv, ReportInv, NEW r \in Runs, left[r] # {}, NEW action \in Action,
         NEW next, Settle(r, action, next), UNCHANGED wireVars,
         action = "DELETED" => pc[r] = "deleting" /\ reply[r] = "ok"
  PROVE  Safe!Next
<1>1. UNCHANGED <<live, call, requests, deletions>>
  BY SettleSeen DEF wireVars
<1>2. Orders' = Orders
  BY <1>1 DEF Orders
<1>3. Inspected' = {x \in Inspected : x.run # r}
  BY SettleSeen
<1>4. CASE action = "DELETED"
  <2>1. PICK d \in deletions :
          d.run = r /\ d.entry = Position(r) /\ d.at = At(Current(r))
    BY <1>4 DEF ReportInv, RepliesHonest
  <2>2. Claims' = Claims \cup {[run |-> d.run, entry |-> d.entry, at |-> d.at]}
    BY <1>4, <2>1, SettleSeen
  <2>3. Safe!Claim(d)
    BY <1>1, <1>2, <1>3, <2>1, <2>2 DEF Safe!Claim, Safe!Forgotten, Claims
  <2> QED BY <2>3 DEF Safe!Next
<1>5. CASE action # "DELETED"
  <2>1. Claims' = Claims
    BY <1>5, SettleSeen
  <2>2. Safe!Spare(r)
    BY <1>1, <1>2, <1>3, <2>1 DEF Safe!Spare, Safe!Forgotten, Claims
  <2> QED BY <2>2 DEF Safe!Next
<1> QED BY <1>4, <1>5

(* CONSUMER.INFO's answer is what the caller holds from then on.            *)
LEMMA FetchIsInspect ==
  ASSUME TypeInv, HandInv, NEW r \in Runs, FetchInfo(r)
  PROVE  Safe!Next
<1> DEFINE a == At(Current(r))
<1> USE DEF FetchInfo, AtEntry
<1>1. a \in Addresses /\ live[a] \in ConsumerState /\ live[a].exists
  BY CurrentEntry DEF TypeInv, TypeOK, ServerTypeOK
<1>2. UNCHANGED <<live, call, left, events, requests, deletions>>
  BY DEF serverVars, wireVars
<1>3. \A s \in Runs : Current(s)' = Current(s)
  BY <1>2 DEF Current, Position
<1>4. info[r] = NoInfo /\ info'[r] = live[a] /\ live[a] # NoInfo
  BY <1>1, NoInfoAssumption DEF HandInv, TypeInv, TypeOK
<1>5. \A s \in Runs \ {r} : info'[s] = info[s]
  BY DEF TypeInv, TypeOK
<1>6. Inspected' = Inspected \cup {[run |-> r, at |-> a, seen |-> live[a]]}
  <2> DEFINE hand(s) == [run |-> s, at |-> At(Current(s)), seen |-> info[s]]
             next(s) == [run |-> s, at |-> At(Current(s))', seen |-> info'[s]]
  <2>1. next(r) = [run |-> r, at |-> a, seen |-> live[a]]
    BY <1>3, <1>4 DEF At
  <2>2. \A s \in Runs \ {r} : next(s) = hand(s)
    BY <1>3, <1>5 DEF At
  <2>3. Inspected = {hand(s) : s \in {x \in Runs : info[x] # NoInfo}}
    BY DEF Inspected
  <2>4. Inspected' = {next(s) : s \in {x \in Runs : info'[x] # NoInfo}}
    BY DEF Inspected
  <2>5. {x \in Runs : info'[x] # NoInfo} = {x \in Runs : info[x] # NoInfo} \cup {r}
    BY <1>4, <1>5
  <2> HIDE DEF hand, next
  <2> QED BY <1>4, <2>1, <2>2, <2>3, <2>4, <2>5
<1>7. Orders' = Orders
  BY <1>2 DEF Orders
<1>8. Claims' = Claims
  BY <1>2 DEF Claims, ClaimsOf, EventAt
<1>9. Safe!Inspect(r, a)
  BY <1>1, <1>2, <1>6, <1>7, <1>8 DEF Safe!Inspect, Claims
<1> QED BY <1>1, <1>9 DEF Safe!Next

(* A delete is sent only for what the caller holds, and only if it may.     *)
LEMMA SendIsOrder ==
  ASSUME TypeInv, NEW r \in Runs, SendDelete(r)
  PROVE  Safe!Next
<1> DEFINE a == At(Current(r))
           x == [run |-> r, at |-> a, seen |-> info[r]]
           o == [run |-> r, entry |-> Position(r), by |-> call[r], at |-> a, seen |-> info[r]]
<1>1. info[r] # NoInfo
  BY NoInfoAssumption DEF SendDelete, TypeInv, AtHand
<1>2. x \in Inspected
  BY <1>1 DEF Inspected
<1>3. Justified(call[r], a, info[r])
  BY SendCleared DEF Removable, DeleteRequest
<1>4. /\ UNCHANGED <<live, call, left, info, events, deletions>>
      /\ requests' = requests \cup {DeleteRequest(r)}
  BY DEF SendDelete, serverVars
<1>5. Inspected' = Inspected
  BY <1>4 DEF Inspected, Current, Position
<1>6. Claims' = Claims
  BY <1>4 DEF Claims, ClaimsOf, EventAt
<1>7. Orders' = Orders \cup {o}
  <2> DEFINE order(p) ==
        [run |-> p.run, entry |-> p.entry, by |-> call[p.run], at |-> p.at, seen |-> p.seen]
  <2>1. Orders = {order(p) : p \in requests}
    BY DEF Orders
  <2>2. Orders' = {order(p) : p \in requests'}
    BY <1>4 DEF Orders
  <2>3. order(DeleteRequest(r)) = o
    BY DEF DeleteRequest
  <2> HIDE DEF order, o
  <2> QED BY <1>4, <2>1, <2>2, <2>3
<1>8. Safe!Order(x, o.by, o.entry)
  BY <1>3, <1>4, <1>5, <1>6, <1>7 DEF Safe!Order, Claims
<1>9. Safe!OrderPlaced
  BY <1>2, <1>7, <1>8 DEF Safe!OrderPlaced
<1> QED BY <1>9 DEF Safe!Next

(* The servers execute orders, however late, and nothing else.              *)
LEMMA ExecIsCarryOut ==
  ASSUME TypeInv, NEW q \in requests, ExecDelete(q)
  PROVE  Safe!Next
<1> DEFINE order(p) ==
      [run |-> p.run, entry |-> p.entry, by |-> call[p.run], at |-> p.at, seen |-> p.seen]
<1>1. UNCHANGED <<call, left, info, events>> /\ requests' = requests \ {q}
  BY DEF ExecDelete, runVars
<1>2. Inspected' = Inspected
  BY <1>1 DEF Inspected, Current, Position
<1>3. Claims' = Claims
  BY <1>1 DEF Claims, ClaimsOf, EventAt
<1>4. ASSUME NEW p \in requests, order(p) = order(q) PROVE p = q
  <2>1. \A x \in requests :
          x = [run |-> x.run, entry |-> x.entry, at |-> x.at, seen |-> x.seen]
    BY DEF TypeInv, TypeOK
  <2>2. p.run = q.run /\ p.entry = q.entry /\ p.at = q.at /\ p.seen = q.seen
    BY <1>4
  <2> QED BY <2>1, <2>2
<1>5. Orders' = Orders \ {order(q)}
  <2>1. Orders = {order(p) : p \in requests}
    BY DEF Orders
  <2>2. Orders' = {order(p) : p \in requests'}
    BY <1>1 DEF Orders
  <2> HIDE DEF order
  <2> QED BY <1>1, <1>4, <2>1, <2>2
<1>6. order(q) \in Orders
  BY DEF Orders
<1>7. Safe!CarryOut(order(q))
  BY <1>2, <1>3, <1>5 DEF Safe!CarryOut, ExecDelete, Claims
<1> QED BY <1>6, <1>7 DEF Safe!Next

(* What the applications do to a consumer, they may do.                     *)
LEMMA ApplicationIsUse ==
  ASSUME TypeInv, NEW a \in Addresses, ApplicationStep(a), UNCHANGED <<runVars, wireVars>>
  PROVE  Safe!Next
<1>1. live' \in [Addresses -> ConsumerState]
  BY ApplicationType DEF TypeInv, TypeOK, ServerTypeOK
<1>2. live \in [Addresses -> ConsumerState] /\ live[a] \in ConsumerState
  BY DEF TypeInv, TypeOK, ServerTypeOK
<1>3. \A b \in Addresses : Safe!Follows(live[b], live'[b])
  <2>1. ASSUME NEW c, Change(a, c), Safe!Follows(live[a], c)
        PROVE  \A b \in Addresses : Safe!Follows(live[b], live'[b])
    BY <1>2, <2>1 DEF Change, Safe!Follows, ConsumerState
  <2>2. CASE BindPush(a)
    BY <1>2, <2>1, <2>2 DEF BindPush, Safe!Follows, ConsumerState
  <2>3. CASE UnbindPush(a)
    BY <1>2, <2>1, <2>3 DEF UnbindPush, Safe!Follows, ConsumerState
  <2>4. CASE Poll(a)
    BY <1>2, <2>1, <2>4 DEF Poll, Safe!Follows, ConsumerState
  <2>5. CASE PollEnds(a)
    BY <1>2, <2>1, <2>5 DEF PollEnds, Safe!Follows, ConsumerState
  <2>6. CASE Publish(a)
    BY <1>2, <2>1, <2>6 DEF Publish, Safe!Follows, ConsumerState
  <2>7. CASE Ack(a)
    <3>1. PICK p : Change(a, [live[a] EXCEPT !.lastAck = clock, !.pending = p])
      BY <2>7 DEF Ack
    <3>2. Safe!Follows(live[a], [live[a] EXCEPT !.lastAck = clock, !.pending = p])
      BY <1>2, <2>7 DEF Ack, Safe!Follows, ConsumerState
    <3> QED BY <2>1, <3>1, <3>2
  <2>8. CASE Annotate(a)
    <3>1. PICK m : Change(a, [live[a] EXCEPT !.meta = m])
      BY <2>8 DEF Annotate
    <3>2. Safe!Follows(live[a], [live[a] EXCEPT !.meta = m])
      BY <1>2, <2>8 DEF Annotate, Safe!Follows, ConsumerState
    <3> QED BY <2>1, <3>1, <3>2
  <2>9. CASE Drop(a)
    <3>1. Safe!Follows(live[a], Gone(live[a]))
      BY <1>2 DEF Gone, Safe!Follows, ConsumerState
    <3> QED BY <2>1, <2>9, <3>1 DEF Drop
  <2>10. CASE Create(a)
    <3>1. PICK m : Change(a, Fresh(live[a].inc + 1, clock, m))
      BY <2>10 DEF Create
    <3>2. Safe!Follows(live[a], Fresh(live[a].inc + 1, clock, m))
      BY <1>2 DEF Fresh, Safe!Follows, ConsumerState
    <3> QED BY <2>1, <3>1, <3>2
  <2> QED BY <2>2, <2>3, <2>4, <2>5, <2>6, <2>7, <2>8, <2>9, <2>10 DEF ApplicationStep
<1>4. Inspected' = Inspected
  BY DEF Inspected, Current, Position, runVars
<1>5. Claims' = Claims
  BY DEF Claims, ClaimsOf, EventAt, runVars
<1>6. Orders' = Orders
  BY DEF Orders, runVars, wireVars
<1>7. Safe!Use
  BY <1>1, <1>3, <1>4, <1>5, <1>6 DEF Safe!Use, Claims, wireVars
<1> QED BY <1>7 DEF Safe!Next

LEMMA StepIsSafe ==
  ASSUME TypeInv, HandInv, Cleared, ReportInv, [Next]_vars
  PROVE  [Safe!Next]_(Safe!vars)
<1>1. \A r \in Runs : pc[r] \in {"verify", "deleting"} => left[r] # {}
  BY DEF TypeInv, AtHand
<1>2. ASSUME NEW r \in Runs, NEW k \in Calls, Start(r, k) PROVE UNCHANGED Safe!vars
  <2>1. info[r] = NoInfo /\ events[r] = << >>
    BY <1>2 DEF Start, HandInv, TypeInv, AtHand
  <2>2. \A q \in requests : q.run # r
    BY <1>2 DEF Start, Cleared
  <2>3. /\ UNCHANGED <<live, info, left, events, requests, deletions>>
        /\ \A s \in Runs \ {r} : call'[s] = call[s]
    BY <1>2 DEF Start, serverVars, wireVars, TypeInv, TypeOK
  <2> QED BY <2>1, <2>2, <2>3, QuietIsStutter
<1>3. ASSUME NEW r \in Runs, Cancel(r) PROVE UNCHANGED Safe!vars
  BY <1>3 DEF Cancel, serverVars, wireVars, Safe!vars, Inspected, Current, Position,
     Orders, ClaimsOf, EventAt
<1>4. ASSUME NEW r \in Runs, RunStep(r) PROVE [Safe!Next]_(Safe!vars)
  <2>1. ASSUME \/ Abort(r) \/ Finish(r) \/ Release(r)
               \/ \E c \in Clusters : Connect(r, c) \/ ConnectFails(r, c)
        PROVE  UNCHANGED Safe!vars
    <3>1. info[r] = NoInfo
      BY <2>1 DEF HandInv, Abort, Finish, Release, Connect, ConnectFails, Visit
    <3>2. /\ UNCHANGED <<live, info, call, events, requests, deletions>>
          /\ \A s \in Runs \ {r} : left'[s] = left[s]
      BY <2>1 DEF Abort, Finish, Release, Connect, ConnectFails, Visit, serverVars,
         wireVars, TypeInv, TypeOK
    <3> QED BY <3>1, <3>2, QuietIsStutter
  <2>2. CASE FailEntry(r)
    BY <2>2, SettleIsSafe DEF FailEntry, Action
  <2>3. CASE SkipEntry(r)
    BY <2>3, SettleIsSafe DEF SkipEntry, AtEntry, Action
  <2>4. CASE FetchInfo(r)
    BY <2>4, FetchIsInspect
  <2>5. CASE FetchNotFound(r)
    BY <2>5, SettleIsSafe DEF FetchNotFound, AtEntry, Action
  <2>6. CASE FetchFails(r)
    BY <2>6, SettleIsSafe DEF FetchFails, AtEntry, Action
  <2>7. CASE SpareProtected(r)
    BY <1>1, <2>7, SettleIsSafe DEF SpareProtected, Action
  <2>8. CASE SpareActive(r)
    BY <1>1, <2>8, SettleIsSafe DEF SpareActive, Action
  <2>9. CASE WouldDelete(r)
    BY <1>1, <2>9, SettleIsSafe DEF WouldDelete, Action
  <2>10. CASE SendDelete(r)
    BY <2>10, SendIsOrder
  <2>11. CASE DeleteSucceeds(r)
    BY <1>1, <2>11, SettleIsSafe DEF DeleteSucceeds, Action
  <2>12. CASE DeleteFails(r)
    BY <1>1, <2>12, SettleIsSafe DEF DeleteFails, Action
  <2> QED BY <1>4, <2>1, <2>2, <2>3, <2>4, <2>5, <2>6, <2>7, <2>8, <2>9, <2>10,
             <2>11, <2>12 DEF RunStep
<1>5. ASSUME NEW q \in requests, ExecDelete(q) PROVE Safe!Next
  BY <1>5, ExecIsCarryOut
<1>6. ASSUME NEW a \in Addresses, ApplicationStep(a), UNCHANGED <<runVars, wireVars>>
      PROVE  Safe!Next
  BY <1>6, ApplicationIsUse
<1>7. ASSUME UNCHANGED <<live, runVars, wireVars>> PROVE UNCHANGED Safe!vars
  BY <1>7 DEF runVars, wireVars, Safe!vars, Inspected, Current, Position, Orders,
     ClaimsOf, EventAt
<1>8. CASE UNCHANGED vars
  BY <1>7, <1>8 DEF vars, serverVars
<1>9. CASE Tick /\ UNCHANGED <<runVars, wireVars>>
  BY <1>7, <1>9 DEF Tick
<1> QED BY <1>2, <1>3, <1>4, <1>5, <1>6, <1>8, <1>9 DEF Next, ServerStep, Terminated

(* Apply, with its timeouts, cancellations, unreachable clusters, late       *)
(* requests and racing calls, does nothing that the package comment          *)
(* (cleanup.go:1-25) does not promise: every order names a consumer the call *)
(* inspected and may remove, every removal carries out one order, and every  *)
(* DELETED event claims a removal that its own order made.                   *)
THEOREM AppliesSafely == Spec => ImplementsSafeDelete
<1>1. Spec => []HandInv
  BY InitHandInv, NextHandInv, TypeInvariant, PTL DEF Spec
<1>2. Spec => []Cleared
  BY InitCleared, NextCleared, TypeInvariant, PTL DEF Spec
<1>3. Spec => []ReportInv
  BY InitReportInv, NextReportInv, TypeInvariant, PTL DEF Spec
<1>4. TypeInv /\ HandInv /\ Cleared /\ ReportInv /\ [Next]_vars => [Safe!Next]_(Safe!vars)
  BY StepIsSafe
<1> QED BY <1>1, <1>2, <1>3, <1>4, InitSafe, TypeInvariant, PTL
        DEF Spec, ImplementsSafeDelete, Safe!Spec

-----------------------------------------------------------------------------
(* The audit trail that Apply returns: each entry is in it at most once, in *)
(* manifest order, and no removal is claimed twice.                         *)

EntriesOf(r) == call[r].manifest.entries
InTrail(r) == {events[r][i].entry : i \in DOMAIN events[r]}

(* The trail of one call is inductive with what the control points know:    *)
(* nothing is left between two clusters, nothing is to visit at the end,    *)
(* and what is settled of a cluster comes before what is left of it.        *)
Between(r) ==
  /\ pc[r] \in {"idle", "loop", "done", "aborted"} => left[r] = {}
  /\ pc[r] = "done" => todo[r] = {}
  /\ pc[r] = "idle" => todo[r] = {} /\ EntriesOf(r) = << >>

Visited(r) ==
  \A c \in Clusters :
    IF c \in todo[r] THEN EntriesOn(call[r].manifest, c) \cap (InTrail(r) \cup left[r]) = {}
                     ELSE EntriesOn(call[r].manifest, c) \subseteq InTrail(r) \cup left[r]

SettledFirst(r) ==
  /\ InTrail(r) \subseteq DOMAIN EntriesOf(r)
  /\ InTrail(r) \cap left[r] = {}
  /\ \A i \in InTrail(r), j \in left[r] :
       EntriesOf(r)[i].cluster = EntriesOf(r)[j].cluster => i < j

InOrder(r) ==
  \A i, j \in DOMAIN events[r] :
    LET ei == events[r][i].entry
        ej == events[r][j].entry
    IN  i < j /\ EntriesOf(r)[ei].cluster = EntriesOf(r)[ej].cluster => ei < ej

TrailOf(r) == Between(r) /\ Visited(r) /\ SettledFirst(r) /\ InOrder(r)

TrailInv == \A r \in Runs : TrailOf(r)

LEMMA InitTrail == Init => TrailInv
<1> SUFFICES ASSUME Init, NEW r \in Runs PROVE TrailOf(r)
  BY DEF TrailInv
<1>1. /\ events[r] = << >> /\ left[r] = {} /\ todo[r] = {} /\ pc[r] = "idle"
      /\ EntriesOf(r) = << >>
  BY DEF Init, NoCall, EntriesOf
<1>2. InTrail(r) = {}
  BY <1>1 DEF InTrail
<1>3. \A c \in Clusters : EntriesOn(call[r].manifest, c) = {}
  BY <1>1 DEF EntriesOn, EntriesOf
<1> QED BY <1>1, <1>2, <1>3 DEF TrailOf, Between, Visited, SettledFirst, InOrder

(* A step that leaves the trail of a call, and what is left of it, alone.   *)
LEMMA TrailStays ==
  ASSUME TypeInv, NEW r \in Runs, TrailOf(r),
         call'[r] = call[r], events'[r] = events[r], left'[r] = left[r],
         todo'[r] = todo[r], Between(r)'
  PROVE  TrailOf(r)'
<1>1. InTrail(r)' = InTrail(r) /\ EntriesOf(r)' = EntriesOf(r)
  BY DEF InTrail, EntriesOf
<1>2. \A c \in Clusters : EntriesOn(call[r].manifest, c)' = EntriesOn(call[r].manifest, c)
  BY DEF EntriesOn
<1>3. Visited(r)'
  BY <1>1, <1>2 DEF TrailOf, Visited
<1>4. SettledFirst(r)'
  BY <1>1 DEF TrailOf, SettledFirst
<1>5. InOrder(r)'
  BY <1>1 DEF TrailOf, InOrder
<1> QED BY <1>3, <1>4, <1>5 DEF TrailOf

(* A step of one call leaves the trails of the others alone.                *)
LEMMA OthersStay ==
  ASSUME TypeInv, TrailInv, NEW r \in Runs, TrailOf(r)',
         \A s \in Runs \ {r} :
           /\ pc'[s] = pc[s] /\ call'[s] = call[s] /\ events'[s] = events[s]
           /\ left'[s] = left[s] /\ todo'[s] = todo[s]
  PROVE  TrailInv'
<1> SUFFICES ASSUME NEW s \in Runs \ {r} PROVE TrailOf(s)'
  BY DEF TrailInv
<1>1. Between(s)'
  BY DEF TrailInv, TrailOf, Between, EntriesOf
<1> QED BY <1>1, TrailStays DEF TrailInv

(* A call is made: its clusters are all to visit.                           *)
LEMMA StartTrail ==
  ASSUME TypeInv, NEW r \in Runs, NEW k \in Call, TrailOf(r), Start(r, k)
  PROVE  TrailOf(r)'
<1>1. /\ events'[r] = << >> /\ left'[r] = {} /\ pc'[r] = "loop"
      /\ call'[r] = k /\ todo'[r] = ClustersOf(k.manifest)
  BY DEF Start, TypeInv, TypeOK, AtHand
<1>2. InTrail(r)' = {}
  BY <1>1 DEF InTrail
<1>3. Visited(r)'
  <2>1. \A c \in Clusters : c \notin ClustersOf(k.manifest) => EntriesOn(k.manifest, c) = {}
    BY DEF ClustersOf, EntriesOn
  <2>2. \A c \in Clusters : EntriesOn(call[r].manifest, c)' = EntriesOn(k.manifest, c)
    BY <1>1 DEF EntriesOn
  <2> QED BY <1>1, <1>2, <2>1, <2>2 DEF Visited
<1>4. Between(r)' /\ SettledFirst(r)' /\ InOrder(r)'
  BY <1>1, <1>2 DEF Between, SettledFirst, InOrder
<1> QED BY <1>3, <1>4 DEF TrailOf

(* A cluster is visited: its entries, none of them settled, are left.       *)
LEMMA VisitTrail ==
  ASSUME TypeInv, NEW r \in Runs, NEW c \in Clusters, TrailOf(r), Visit(r, c),
         pc'[r] \in {"entry", "offline"}
  PROVE  TrailOf(r)'
<1> DEFINE On(d) == EntriesOn(call[r].manifest, d)
<1>1. /\ events'[r] = events[r] /\ call'[r] = call[r] /\ left[r] = {} /\ c \in todo[r]
      /\ left'[r] = On(c) /\ todo'[r] = todo[r] \ {c}
  BY DEF Visit, TrailOf, Between, TypeInv, TypeOK
<1>2. InTrail(r)' = InTrail(r) /\ EntriesOf(r)' = EntriesOf(r)
  BY <1>1 DEF InTrail, EntriesOf
<1>3. \A d \in Clusters : On(d)' = On(d) /\ (d # c => On(d) \cap On(c) = {})
  BY <1>1 DEF EntriesOn
<1>4. On(c) \cap InTrail(r) = {}
  BY <1>1 DEF TrailOf, Visited
<1>5. Visited(r)'
  BY <1>1, <1>2, <1>3 DEF TrailOf, Visited
<1>6. SettledFirst(r)'
  <2>1. ASSUME NEW i \in InTrail(r), NEW j \in On(c)
        PROVE  EntriesOf(r)[i].cluster # EntriesOf(r)[j].cluster
    BY <1>4, <2>1 DEF TrailOf, SettledFirst, EntriesOn, EntriesOf
  <2> QED BY <1>1, <1>2, <1>4, <2>1 DEF TrailOf, SettledFirst
<1>7. InOrder(r)' /\ Between(r)'
  BY <1>1, <1>2 DEF TrailOf, InOrder, Between
<1> QED BY <1>5, <1>6, <1>7 DEF TrailOf

(* The first entry left is settled, and its event goes last.                *)
LEMMA SettleTrail ==
  ASSUME TypeInv, NEW r \in Runs, left[r] # {}, TrailOf(r),
         NEW action \in Action, NEW next \in {"entry", "offline"}, Settle(r, action, next)
  PROVE  TrailOf(r)'
<1> DEFINE ev == [entry |-> Position(r), action |-> action]
           p == Position(r)
<1> PICK last : last = Len(events[r]) + 1
  OBVIOUS
<1>1. /\ call'[r] = call[r] /\ todo'[r] = todo[r] /\ pc'[r] = next
      /\ left'[r] = left[r] \ {p} /\ events'[r] = Append(events[r], ev)
  BY DEF Settle, TypeInv, TypeOK
<1>2. p \in left[r] /\ p \in DOMAIN EntriesOf(r) /\ left[r] \subseteq Nat
  BY CurrentEntry DEF EntriesOf, TypeInv, TypeOK
<1>3. \A j \in left[r] : p <= j
  BY <1>2, MinInSet DEF Position
<1>4. events[r] \in Seq(Event) /\ ev \in Event
  BY CurrentEntry DEF TypeInv, TypeOK, Event
<1>5. /\ DOMAIN events'[r] = DOMAIN events[r] \cup {last}
      /\ events'[r][last].entry = p
      /\ \A i \in DOMAIN events[r] : events'[r][i] = events[r][i] /\ i < last
  BY <1>1, <1>4
<1>6. EntriesOf(r)' = EntriesOf(r)
  BY <1>1 DEF EntriesOf
<1>7. InTrail(r)' = InTrail(r) \cup {p}
  <2> HIDE DEF p
  <2> QED BY <1>5 DEF InTrail
<1>8. Visited(r)'
  <2>1. \A c \in Clusters : EntriesOn(call[r].manifest, c)' = EntriesOn(call[r].manifest, c)
    BY <1>1 DEF EntriesOn
  <2>2. InTrail(r)' \cup left'[r] = InTrail(r) \cup left[r]
    BY <1>1, <1>2, <1>7
  <2> QED BY <1>1, <2>1, <2>2 DEF TrailOf, Visited
<1>9. SettledFirst(r)'
  <2>1. \A j \in left'[r] : p < j
    BY <1>1, <1>2, <1>3
  <2> HIDE DEF p
  <2> QED BY <1>1, <1>2, <1>6, <1>7, <2>1 DEF TrailOf, SettledFirst
<1>10. InOrder(r)'
  <2> SUFFICES ASSUME NEW i \in DOMAIN events'[r], NEW j \in DOMAIN events'[r], i < j,
                      EntriesOf(r)[events'[r][i].entry].cluster
                        = EntriesOf(r)[events'[r][j].entry].cluster
               PROVE  events'[r][i].entry < events'[r][j].entry
    BY <1>6 DEF InOrder
  <2>1. i \in DOMAIN events[r]
    BY <1>4, <1>5
  <2>2. CASE j \in DOMAIN events[r]
    BY <1>5, <2>1, <2>2 DEF TrailOf, InOrder
  <2>3. CASE j = last
    <3>1. events[r][i].entry \in InTrail(r)
      BY <2>1 DEF InTrail
    <3>2. events'[r][i].entry = events[r][i].entry /\ events'[r][j].entry = p
      BY <1>5, <2>1, <2>3
    <3> HIDE DEF p
    <3> QED BY <1>2, <3>1, <3>2 DEF TrailOf, SettledFirst
  <2> QED BY <1>5, <2>2, <2>3
<1>11. Between(r)'
  BY <1>1 DEF Between
<1> QED BY <1>8, <1>9, <1>10, <1>11 DEF TrailOf

LEMMA NextTrail == TypeInv /\ TrailInv /\ [Next]_vars => TrailInv'
<1> SUFFICES ASSUME TypeInv, TrailInv, [Next]_vars PROVE TrailInv'
  OBVIOUS
<1>1. \A r \in Runs : TrailOf(r) /\ (pc[r] \in {"verify", "deleting"} => left[r] # {})
  BY DEF TrailInv, TypeInv, AtHand
<1>2. ASSUME NEW r \in Runs, NEW k \in Calls, Start(r, k) PROVE TrailInv'
  <2>1. TrailOf(r)'
    BY <1>1, <1>2, StartTrail, CallsAssumption
  <2> QED BY <1>2, <2>1, OthersStay DEF Start, TypeInv, TypeOK
<1>3. ASSUME NEW r \in Runs, NEW next,
             pc' = [pc EXCEPT ![r] = next], UNCHANGED <<call, todo, left, events>>,
             next \in {"loop", "done", "aborted"} => left[r] = {},
             next = "done" => todo[r] = {}, next # "idle"
      PROVE  TrailInv'
  <2>1. Between(r)'
    BY <1>3 DEF Between, TypeInv, TypeOK
  <2>2. TrailOf(r)'
    BY <1>1, <1>3, <2>1, TrailStays
  <2> QED BY <1>3, <2>2, OthersStay DEF TypeInv, TypeOK
<1>4. ASSUME NEW r \in Runs, NEW action \in Action, NEW next \in {"entry", "offline"},
             left[r] # {}, Settle(r, action, next)
      PROVE  TrailInv'
  <2>1. TrailOf(r)'
    BY <1>1, <1>4, SettleTrail
  <2> QED BY <1>4, <2>1, OthersStay DEF Settle, TypeInv, TypeOK
<1>5. CASE UNCHANGED <<pc, call, todo, left, events>>
  <2>1. \A r \in Runs : Between(r)'
    BY <1>1, <1>5 DEF TrailOf, Between, EntriesOf
  <2> QED BY <1>1, <1>5, <2>1, TrailStays DEF TrailInv
<1>6. ASSUME NEW r \in Runs, RunStep(r) PROVE TrailInv'
  <2>1. CASE Abort(r) \/ Finish(r) \/ Release(r)
    BY <1>1, <1>3, <2>1 DEF Abort, Finish, Release, TrailOf, Between
  <2>2. ASSUME NEW c \in Clusters, Connect(r, c) \/ ConnectFails(r, c) PROVE TrailInv'
    <3>1. Visit(r, c) /\ pc'[r] \in {"entry", "offline"}
      BY <2>2 DEF Connect, ConnectFails, TypeInv, TypeOK
    <3>2. TrailOf(r)'
      BY <1>1, <3>1, VisitTrail
    <3>3. \A s \in Runs \ {r} : pc'[s] = pc[s]
      BY <2>2 DEF Connect, ConnectFails, TypeInv, TypeOK
    <3> QED BY <3>1, <3>2, <3>3, OthersStay DEF Visit, TypeInv, TypeOK
  <2>3. CASE FailEntry(r)
    BY <1>4, <2>3 DEF FailEntry, Action
  <2>4. CASE SkipEntry(r) \/ FetchNotFound(r) \/ FetchFails(r)
    BY <1>4, <2>4 DEF SkipEntry, FetchNotFound, FetchFails, AtEntry, Action
  <2>5. CASE SpareProtected(r) \/ SpareActive(r) \/ WouldDelete(r)
    BY <1>1, <1>4, <2>5 DEF SpareProtected, SpareActive, WouldDelete, Action
  <2>6. CASE DeleteSucceeds(r) \/ DeleteFails(r)
    BY <1>1, <1>4, <2>6 DEF DeleteSucceeds, DeleteFails, Action
  <2>7. CASE FetchInfo(r)
    BY <1>3, <2>7 DEF FetchInfo
  <2>8. CASE SendDelete(r)
    BY <1>3, <2>8 DEF SendDelete
  <2> QED BY <1>6, <2>1, <2>2, <2>3, <2>4, <2>5, <2>6, <2>7, <2>8 DEF RunStep
<1>7. ASSUME NEW r \in Runs, Cancel(r) PROVE TrailInv'
  BY <1>5, <1>7 DEF Cancel
<1>8. ASSUME NEW q \in requests, ExecDelete(q) PROVE TrailInv'
  BY <1>5, <1>8 DEF ExecDelete, runVars
<1>9. CASE UNCHANGED vars \/ UNCHANGED <<runVars, wireVars>>
  BY <1>5, <1>9 DEF vars, runVars
<1> QED BY <1>2, <1>6, <1>7, <1>8, <1>9 DEF Next, ServerStep, Terminated

LEMMA TrailInvariant == Spec => []TrailInv
  BY InitTrail, NextTrail, TypeInvariant, PTL DEF Spec

(* The audit trail (cleanup.go:105-143), at any moment of any number of      *)
(* calls over any manifests: at most one event for an entry, none for a      *)
(* cluster not visited, one for each entry of a cluster left behind, in      *)
(* manifest order.                                                           *)
THEOREM TrailsFollow == Spec => []EventsFollowManifest
<1>1. TrailInv => EventsFollowManifest
  <2> SUFFICES ASSUME TrailInv, NEW r \in Runs
               PROVE  /\ Visited(r) /\ InTrail(r) \cap left[r] = {} /\ InOrder(r)
    BY DEF EventsFollowManifest, Visited, InOrder, InTrail, EntriesOf
  <2> QED BY DEF TrailInv, TrailOf, SettledFirst
<1> QED BY <1>1, TrailInvariant, PTL

-----------------------------------------------------------------------------
(* No removal is claimed twice: the incarnations of an address die one by  *)
(* one, each at one request, and a claim belongs to one of these deaths.   *)

Deaths(a) == IF live[a].exists THEN live[a].inc - 1 ELSE live[a].inc

DeathInv ==
  /\ \A a \in Addresses : live[a].exists => live[a].inc # 0
  /\ \A d \in deletions : d.inc \in 1 .. Deaths(d.at)
  /\ \A d, e \in deletions : d.at = e.at /\ d.inc = e.inc => d = e

LEMMA InitDeath == Init => DeathInv
<1> SUFFICES ASSUME Init PROVE DeathInv
  OBVIOUS
<1>1. live \in Initial /\ deletions = {}
  BY DEF Init, ServerInit
<1> QED BY <1>1, InitialAssumption DEF DeathInv

(* Whatever an application does, incarnations only ever die.                *)
LEMMA DeathsGrow ==
  ASSUME TypeInv, DeathInv, NEW a \in Addresses, ApplicationStep(a), UNCHANGED deletions
  PROVE  DeathInv'
<1>1. live \in [Addresses -> ConsumerState] /\ live[a] \in ConsumerState
  BY DEF TypeInv, TypeOK, ServerTypeOK
<1>2. ASSUME NEW c, Change(a, c), c.inc \in Nat, c.exists \in BOOLEAN,
             \/ c.exists = live[a].exists /\ c.inc = live[a].inc
             \/ ~c.exists /\ live[a].exists /\ c.inc = live[a].inc
             \/ c.exists /\ ~live[a].exists /\ c.inc = live[a].inc + 1
      PROVE  DeathInv'
  <2>1. live'[a] = c /\ \A b \in Addresses \ {a} : live'[b] = live[b]
    BY <1>1, <1>2 DEF Change
  <2>2. \A b \in Addresses : Deaths(b) \in Int /\ Deaths(b)' \in Int /\ Deaths(b) <= Deaths(b)'
    BY <1>1, <1>2, <2>1 DEF Deaths, ConsumerState
  <2>3. \A b \in Addresses : live'[b].exists => live'[b].inc # 0
    BY <1>1, <1>2, <2>1 DEF DeathInv, ConsumerState
  <2>4. \A d \in deletions : d.at \in Addresses /\ d.inc \in Nat
    BY DEF TypeInv, TypeOK
  <2> QED BY <2>2, <2>3, <2>4 DEF DeathInv
<1>3. \A c : Change(a, c) /\ c.exists = live[a].exists /\ c.inc = live[a].inc => DeathInv'
  BY <1>1, <1>2 DEF ConsumerState
<1>4. CASE BindPush(a) \/ UnbindPush(a) \/ Poll(a) \/ PollEnds(a) \/ Publish(a)
  BY <1>1, <1>3, <1>4 DEF BindPush, UnbindPush, Poll, PollEnds, Publish, ConsumerState
<1>5. CASE Ack(a)
  <2>1. PICK p : Change(a, [live[a] EXCEPT !.lastAck = clock, !.pending = p])
    BY <1>5 DEF Ack
  <2> QED BY <1>1, <1>3, <2>1 DEF ConsumerState
<1>6. CASE Annotate(a)
  <2>1. PICK m : Change(a, [live[a] EXCEPT !.meta = m])
    BY <1>6 DEF Annotate
  <2> QED BY <1>1, <1>3, <2>1 DEF ConsumerState
<1>7. CASE Drop(a)
  BY <1>1, <1>2, <1>7 DEF Drop, Gone, ConsumerState
<1>8. CASE Create(a)
  <2>1. PICK m : Change(a, Fresh(live[a].inc + 1, clock, m))
    BY <1>8 DEF Create
  <2>2. LET c == Fresh(live[a].inc + 1, clock, m)
        IN  c.exists /\ c.inc = live[a].inc + 1 /\ c.exists \in BOOLEAN
    BY DEF Fresh
  <2> QED BY <1>1, <1>2, <1>8, <2>1, <2>2 DEF Create, ConsumerState
<1> QED BY <1>4, <1>5, <1>6, <1>7, <1>8 DEF ApplicationStep

(* A delete that finds a consumer kills an incarnation that had not died.   *)
LEMMA ExecDeath ==
  ASSUME TypeInv, DeathInv, NEW q \in requests, ExecDelete(q)
  PROVE  DeathInv'
<1> DEFINE a == q.at
           d == [run |-> q.run, entry |-> q.entry, at |-> a, inc |-> live[a].inc]
<1>1. /\ live \in [Addresses -> ConsumerState] /\ a \in Addresses
      /\ live[a] \in ConsumerState
  BY DEF TypeInv, TypeOK, ServerTypeOK
<1>2. \A x \in deletions : x.at \in Addresses /\ x.inc \in Nat
  BY DEF TypeInv, TypeOK
<1>3. CASE ~live[a].exists
  BY <1>3 DEF ExecDelete, DeathInv, Deaths
<1>4. CASE live[a].exists
  <2>1. live' = [live EXCEPT ![a] = Gone(@)] /\ deletions' = deletions \cup {d}
    BY <1>4 DEF ExecDelete
  <2>2. /\ ~live'[a].exists /\ live'[a].inc = live[a].inc
        /\ \A b \in Addresses \ {a} : live'[b] = live[b]
    BY <1>1, <2>1 DEF Gone, ConsumerState
  <2>3. live[a].inc \in Nat \ {0}
    BY <1>1, <1>4 DEF DeathInv, ConsumerState
  <2>4. /\ Deaths(a) = live[a].inc - 1 /\ Deaths(a)' = live[a].inc
        /\ \A b \in Addresses \ {a} : Deaths(b)' = Deaths(b)
    BY <1>4, <2>2 DEF Deaths
  <2>5. \A x \in deletions : x.at = a => x.inc < live[a].inc
    BY <1>2, <2>3, <2>4 DEF DeathInv
  <2>6. \A b \in Addresses : live'[b].exists => live'[b].inc # 0
    BY <2>2 DEF DeathInv
  <2>7. \A x \in deletions' : x.inc \in 1 .. Deaths(x.at)'
    <3>1. ASSUME NEW x \in deletions PROVE x.inc \in 1 .. Deaths(x.at)'
      <4>1. x.inc \in 1 .. Deaths(x.at) /\ x.at \in Addresses
        BY <1>2 DEF DeathInv
      <4>2. CASE x.at = a
        BY <2>3, <2>4, <4>1, <4>2
      <4>3. CASE x.at # a
        BY <2>4, <4>1, <4>3
      <4> QED BY <4>2, <4>3
    <3>2. d.inc \in 1 .. Deaths(d.at)'
      BY <2>3, <2>4
    <3> QED BY <2>1, <3>1, <3>2
  <2>8. \A x, y \in deletions' : x.at = y.at /\ x.inc = y.inc => x = y
    BY <1>2, <2>1, <2>3, <2>5 DEF DeathInv
  <2> QED BY <2>6, <2>7, <2>8 DEF DeathInv
<1> QED BY <1>3, <1>4

LEMMA NextDeath == TypeInv /\ DeathInv /\ [Next]_vars => DeathInv'
<1> SUFFICES ASSUME TypeInv, DeathInv, [Next]_vars PROVE DeathInv'
  OBVIOUS
<1>1. CASE UNCHANGED <<live, deletions>>
  BY <1>1 DEF DeathInv, Deaths
<1>2. ASSUME NEW r \in Runs, RunStep(r) PROVE UNCHANGED <<live, deletions>>
  BY <1>2 DEF RunStep, Abort, Finish, Release, Connect, ConnectFails, Visit,
     FailEntry, SkipEntry, FetchInfo, FetchNotFound, FetchFails, SpareProtected,
     SpareActive, WouldDelete, SendDelete, DeleteSucceeds, DeleteFails, Settle,
     serverVars, wireVars
<1>3. ASSUME NEW r \in Runs, NEW k \in Calls, Start(r, k) \/ Cancel(r)
      PROVE  UNCHANGED <<live, deletions>>
  BY <1>3 DEF Start, Cancel, serverVars, wireVars
<1>4. ASSUME NEW r \in Runs, Cancel(r) PROVE UNCHANGED <<live, deletions>>
  BY <1>4 DEF Cancel, serverVars, wireVars
<1>5. ASSUME NEW a \in Addresses, ApplicationStep(a), UNCHANGED <<runVars, wireVars>>
      PROVE  DeathInv'
  BY <1>5, DeathsGrow DEF wireVars
<1>6. ASSUME Tick, UNCHANGED <<runVars, wireVars>> PROVE UNCHANGED <<live, deletions>>
  BY <1>6 DEF Tick, wireVars
<1>7. CASE UNCHANGED vars
  BY <1>1, <1>7 DEF vars, serverVars, wireVars
<1> QED BY <1>1, <1>2, <1>3, <1>4, <1>5, <1>6, <1>7, ExecDeath
        DEF Next, ServerStep, Terminated

\* The DELETED events of all calls for one address.
ClaimsAt(a) ==
  UNION {{<<r, i>> : i \in {j \in DOMAIN events[r] :
            events[r][j].action = "DELETED" /\ EventAt(r, j) = a}} : r \in Runs}

(* Each claim stands for a death of its own: there are not more claims.     *)
LEMMA ClaimsAreDeaths ==
  ASSUME TypeInv, TrailInv, DeathInv, ReportInv, NEW a \in Addresses
  PROVE  Cardinality(ClaimsAt(a)) <= Deaths(a)
<1> DEFINE C == ClaimsAt(a)
           Entry0(x) == events[x[1]][x[2]].entry
           Own(x, d) == d.run = x[1] /\ d.entry = Entry0(x) /\ d.at = a
           death(x) == CHOOSE d \in deletions : Own(x, d)
           f == [x \in C |-> death(x).inc]
<1>1. ASSUME NEW x \in C
      PROVE  /\ x = <<x[1], x[2]>> /\ x[1] \in Runs /\ x[2] \in DOMAIN events[x[1]]
             /\ events[x[1]][x[2]].action = "DELETED" /\ EventAt(x[1], x[2]) = a
  BY DEF ClaimsAt
<1>2. ASSUME NEW x \in C PROVE death(x) \in deletions /\ Own(x, death(x))
  <2>1. \E d \in deletions : Own(x, d)
    BY <1>1 DEF ReportInv, ReportsMatchDeletions
  <2> QED BY <2>1
<1>3. Deaths(a) \in Int
  BY DEF Deaths, TypeInv, TypeOK, ServerTypeOK, ConsumerState
<1>4. f \in [C -> 1 .. Deaths(a)]
  BY <1>2 DEF DeathInv
<1>5. ASSUME NEW x \in C, NEW y \in C, f[x] = f[y] PROVE x = y
  <2>1. death(x).at = death(y).at /\ death(x).inc = death(y).inc
    BY <1>2, <1>5
  <2>2. death(x) = death(y)
    BY <1>2, <2>1 DEF DeathInv
  <2>3. x[1] = y[1] /\ Entry0(x) = Entry0(y)
    BY <1>2, <2>2
  <2>4. events[x[1]] \in Seq(Event)
    BY <1>1 DEF TypeInv, TypeOK
  <2>5. x[2] \in DOMAIN events[x[1]] /\ y[2] \in DOMAIN events[x[1]]
    <3>1. x[2] \in DOMAIN events[x[1]] /\ y[2] \in DOMAIN events[y[1]]
      BY <1>1
    <3> QED BY <2>3, <3>1
  <2>7. \A i \in DOMAIN events[x[1]] : i \in Nat /\ events[x[1]][i].entry \in Nat
    <3>1. PICK s \in Seq(Event) : s = events[x[1]]
      BY <2>4
    <3>2. \A i \in DOMAIN s : i \in Nat /\ s[i] \in Event
      OBVIOUS
    <3>3. \A v \in Event : v.entry \in Nat
      BY DEF Event
    <3> QED BY <3>1, <3>2, <3>3
  <2>6. InOrder(x[1])
    BY <1>1 DEF TrailInv, TrailOf
  <2>8. ~(x[2] < y[2]) /\ ~(y[2] < x[2])
    BY <2>3, <2>5, <2>6, <2>7 DEF InOrder
  <2> QED BY <1>1, <2>3, <2>5, <2>7, <2>8
<1>6. f \in Injection(C, 1 .. Deaths(a))
  BY <1>4, <1>5 DEF Injection, IsInjective
<1>7. /\ IsFiniteSet(1 .. Deaths(a))
      /\ Cardinality(1 .. Deaths(a)) = IF 1 > Deaths(a) THEN 0 ELSE Deaths(a) - 1 + 1
  BY <1>3, FS_Interval
<1>8. Cardinality(C) <= Cardinality(1 .. Deaths(a))
  BY <1>6, <1>7, FS_Injection
<1>9. Deaths(a) >= 0
  BY DEF Deaths, DeathInv, TypeInv, TypeOK, ServerTypeOK, ConsumerState
<1>10. IsFiniteSet(C) /\ Cardinality(C) \in Nat
  BY <1>6, <1>7, FS_Injection, FS_CardinalityType
<1> QED BY <1>3, <1>7, <1>8, <1>9, <1>10

(* Calls that race over one manifest, or a manifest that names a consumer    *)
(* twice: never are there more DELETED events for an address than consumers  *)
(* of it that died (cleanup.go:268-290).                                     *)
THEOREM NothingClaimedTwice == Spec => []NoDeletionClaimedTwice
<1>1. Spec => []DeathInv
  BY InitDeath, NextDeath, TypeInvariant, PTL DEF Spec
<1>2. Spec => []ReportInv
  BY InitReportInv, NextReportInv, TypeInvariant, PTL DEF Spec
<1>3. TypeInv /\ TrailInv /\ DeathInv /\ ReportInv => NoDeletionClaimedTwice
  <2> SUFFICES ASSUME TypeInv, TrailInv, DeathInv, ReportInv, NEW a \in Addresses
               PROVE  Cardinality(ClaimsAt(a)) <= Deaths(a)
    BY DEF NoDeletionClaimedTwice, ClaimsAt, Deaths
  <2> QED BY ClaimsAreDeaths
<1> QED BY <1>1, <1>2, <1>3, TypeInvariant, TrailInvariant, PTL

-----------------------------------------------------------------------------
(* The counters add up: the trail of a call that returned has one event for *)
(* each entry, and each action counts once.                                 *)

LEMMA TypedSequence ==
  ASSUME NEW S, NEW s \in Seq(S)
  PROVE  /\ Len(s) \in Nat /\ DOMAIN s = 1 .. Len(s)
         /\ \A i \in DOMAIN s : i \in Nat /\ s[i] \in S
  OBVIOUS

LEMMA CountWhole ==
  ASSUME NEW T, NEW s \in Seq(T)
  PROVE  IsFiniteSet(DOMAIN s) /\ Cardinality(DOMAIN s) = Len(s)
<1>1. Len(s) \in Nat /\ DOMAIN s = 1 .. Len(s)
  BY TypedSequence
<1>2. IsFiniteSet(1 .. Len(s)) /\ Cardinality(1 .. Len(s)) = IF 1 > Len(s) THEN 0 ELSE Len(s) - 1 + 1
  BY <1>1, FS_Interval
<1> QED BY <1>1, <1>2

(* Counting by the actions of two disjoint sets adds up.                    *)
LEMMA CountDisjoint ==
  ASSUME NEW evs \in Seq(Event), NEW A, NEW B, A \cap B = {}
  PROVE  /\ Count(evs, A) \in Nat /\ Count(evs, B) \in Nat
         /\ Count(evs, A \cup B) = Count(evs, A) + Count(evs, B)
<1> DEFINE U == DOMAIN evs
           X == {i \in U : evs[i].action \in A}
           Y == {i \in U : evs[i].action \in B}
<1>1. IsFiniteSet(U)
  BY CountWhole
<1>2. X \in SUBSET U /\ Y \in SUBSET U
  OBVIOUS
<1>3. IsFiniteSet(X) /\ IsFiniteSet(Y)
  BY <1>1, <1>2, FS_Subset, Zenon
<1>4. {i \in U : evs[i].action \in A \cup B} = X \cup Y /\ X \cap Y = {}
  OBVIOUS
<1>5. Cardinality(X) \in Nat /\ Cardinality(Y) \in Nat
  BY <1>3, FS_CardinalityType
<1>6. Cardinality(X \cup Y) = Cardinality(X) + Cardinality(Y) - Cardinality(X \cap Y)
  BY <1>3, FS_Union
<1>7. Cardinality(X \cap Y) = 0
  BY <1>4, FS_EmptySet
<1>8. /\ Count(evs, A) = Cardinality(X) /\ Count(evs, B) = Cardinality(Y)
      /\ Count(evs, A \cup B) = Cardinality(X \cup Y)
  BY <1>4 DEF Count
<1> QED BY <1>5, <1>6, <1>7, <1>8

(* The six counters partition the events.                                   *)
LEMMA CountersPartition ==
  ASSUME NEW evs \in Seq(Event)
  PROVE  LET t == Result(evs) IN
           t.deleted + t.skipped + t.preserved + t.protected + t.gone + t.failed = Len(evs)
<1> DEFINE n(A) == Count(evs, A)
           D == {"DELETED", "WOULD"}
           DS == D \cup {"SKIP"}
           DSA == DS \cup {"ACTIVE"}
           DSAP == DSA \cup {"PROTECTED"}
           DSAPG == DSAP \cup {"GONE"}
           F == {"FAIL", "CONN"}
<1>1. /\ DSAPG \cap F = {} /\ DSAP \cap {"GONE"} = {} /\ DSA \cap {"PROTECTED"} = {}
      /\ DS \cap {"ACTIVE"} = {} /\ D \cap {"SKIP"} = {} /\ DSAPG \cup F = Action
  BY DEF Action
<1>2. n(Action) = Len(evs)
  <2>1. \A i \in DOMAIN evs : evs[i].action \in Action
    <3>1. \A i \in DOMAIN evs : evs[i] \in Event
      BY TypedSequence
    <3> QED BY <3>1 DEF Event
  <2>2. {i \in DOMAIN evs : evs[i].action \in Action} = DOMAIN evs
    BY <2>1
  <2> QED BY <2>2, CountWhole DEF Count
<1>3. /\ Result(evs).deleted = n(D) /\ Result(evs).skipped = n({"SKIP"})
      /\ Result(evs).preserved = n({"ACTIVE"}) /\ Result(evs).protected = n({"PROTECTED"})
      /\ Result(evs).gone = n({"GONE"}) /\ Result(evs).failed = n(F)
  BY DEF Result
<1> HIDE DEF n, D, F
<1>4. n(DSAPG \cup F) = n(DSAPG) + n(F) /\ n(DSAPG) \in Nat /\ n(F) \in Nat
  BY <1>1, CountDisjoint DEF n
<1>5. n(DSAP \cup {"GONE"}) = n(DSAP) + n({"GONE"}) /\ n(DSAP) \in Nat /\ n({"GONE"}) \in Nat
  BY <1>1, CountDisjoint DEF n
<1>6. /\ n(DSA \cup {"PROTECTED"}) = n(DSA) + n({"PROTECTED"})
      /\ n(DSA) \in Nat /\ n({"PROTECTED"}) \in Nat
  BY <1>1, CountDisjoint DEF n
<1>7. n(DS \cup {"ACTIVE"}) = n(DS) + n({"ACTIVE"}) /\ n(DS) \in Nat /\ n({"ACTIVE"}) \in Nat
  BY <1>1, CountDisjoint DEF n
<1>8. n(D \cup {"SKIP"}) = n(D) + n({"SKIP"}) /\ n(D) \in Nat /\ n({"SKIP"}) \in Nat
  BY <1>1, CountDisjoint DEF n
<1> QED BY <1>1, <1>2, <1>3, <1>4, <1>5, <1>6, <1>7, <1>8

(* A trail without gaps and repetitions is as long as the manifest.         *)
LEMMA WholeTrail ==
  ASSUME TypeInv, TrailInv, NEW r \in Runs, pc[r] = "done"
  PROVE  Len(events[r]) = Len(EntriesOf(r))
<1> DEFINE U == DOMAIN events[r]
           V == DOMAIN EntriesOf(r)
           f == [i \in U |-> events[r][i].entry]
<1>1. TrailOf(r) /\ left[r] = {} /\ todo[r] = {}
  BY DEF TrailInv, TrailOf, Between
<1>2. events[r] \in Seq(Event) /\ EntriesOf(r) \in Seq(Entry)
  BY CallFacts DEF TypeInv, TypeOK, EntriesOf
<1>3. /\ \A i \in U : i \in Nat /\ events[r][i].entry \in V
      /\ \A j \in V : j \in Nat /\ EntriesOf(r)[j].cluster \in Clusters
  <2>1. \A i \in U : events[r][i].entry \in V
    BY <1>1 DEF TrailOf, SettledFirst, InTrail
  <2>2. \A e \in Entry : e.cluster \in Clusters
    BY DEF Entry
  <2> QED BY <1>2, <2>1, <2>2
<1>4. ASSUME NEW j \in V PROVE \E i \in U : f[i] = j
  <2>1. j \in EntriesOn(call[r].manifest, EntriesOf(r)[j].cluster)
    BY DEF EntriesOn, EntriesOf
  <2>2. j \in InTrail(r)
    BY <1>1, <1>3, <2>1 DEF TrailOf, Visited
  <2> QED BY <2>2 DEF InTrail
<1>5. ASSUME NEW i \in U, NEW j \in U, f[i] = f[j] PROVE i = j
  BY <1>1, <1>3, <1>5 DEF TrailOf, InOrder
<1>6. f \in Bijection(U, V)
  BY <1>3, <1>4, <1>5 DEF Bijection, Injection, Surjection, IsInjective
<1>7. /\ IsFiniteSet(U) /\ Cardinality(U) = Len(events[r])
      /\ Cardinality(V) = Len(EntriesOf(r))
  BY <1>2, CountWhole
<1> QED BY <1>6, <1>7, FS_Bijection DEF ExistsBijection

(* When Apply returns without error, each entry of the manifest is in        *)
(* exactly one of the counters it reports (cleanup.go:76-91).                *)
THEOREM CountersComplete == Spec => []TallyComplete
<1>1. TypeInv /\ TrailInv => TallyComplete
  <2> SUFFICES ASSUME TypeInv, TrailInv, NEW r \in Runs, pc[r] = "done"
               PROVE  LET t == Result(events[r]) IN
                        t.deleted + t.skipped + t.preserved + t.protected + t.gone + t.failed
                          = Len(call[r].manifest.entries)
    BY DEF TallyComplete
  <2>1. events[r] \in Seq(Event)
    BY DEF TypeInv, TypeOK
  <2>2. Len(events[r]) = Len(call[r].manifest.entries)
    BY WholeTrail DEF EntriesOf
  <2> QED BY <2>1, <2>2, CountersPartition
<1> QED BY <1>1, TypeInvariant, TrailInvariant, PTL
=============================================================================

---------------------------- MODULE PipelineProofs ----------------------------
(***************************************************************************)
(* Proofs about Pipeline: what a scan saw and what Apply verifies compose, *)
(* for any consumers and thresholds, however long either takes.            *)
(***************************************************************************)
EXTENDS Pipeline, CleanupProofs, ScannerProofs

\* A call works on the manifest of a scan that is over.
Handed ==
  \A r \in Runs : pc[r] # "idle" => phase = "proposed" /\ call[r].manifest = proposal

PipeInv == TypeInv /\ ScanInv /\ Cleared /\ Handed

LEMMA InitPipe == PipelineInit => PipeInv
<1> SUFFICES ASSUME PipelineInit PROVE PipeInv
  OBVIOUS
<1>1. Init /\ ScannerInit
  BY DEF PipelineInit, ScannerInit, Init
<1>2. Handed
  BY <1>1 DEF Handed, Init
<1> QED BY <1>1, <1>2, InitTypeInv, InitScanInv, InitCleared DEF PipeInv

(* A scan's step, with the calls at rest.                                   *)
LEMMA ScanningPipe ==
  ASSUME PipeInv, Scanning
  PROVE  PipeInv'
<1>1. ScanStep /\ UNCHANGED serverVars /\ UNCHANGED <<runVars, wireVars>>
  BY DEF Scanning
<1>2. TypeInv'
  <2>1. ServerTypeOK'
    BY <1>1 DEF PipeInv, TypeInv, TypeOK, ServerTypeOK, serverVars
  <2> QED BY <1>1, <2>1, ServerType DEF PipeInv
<1>3. ScanInv'
  BY <1>1, StepScanInv DEF PipeInv
<1>4. Cleared'
  BY <1>1, StepCleared DEF PipeInv
<1>5. Handed'
  <2>1. phase # "proposed"
    BY <1>1 DEF ScanStep, BeginScan, ScanFails, ScanExpires, ListConsumers, StreamFails,
                Classify, ClassifyFails, StreamDone, MarkRenames, ReportRow, ScanReturns, Propose
  <2> QED BY <1>1, <2>1 DEF PipeInv, Handed, runVars
<1> QED BY <1>2, <1>3, <1>4, <1>5 DEF PipeInv

(* The proposal is handed over.                                             *)
LEMMA HandOver ==
  ASSUME PipeInv, NEW r \in Runs, CliApplies(r) \/ BotApplies(r)
  PROVE  PipeInv'
<1>1. PICK k : /\ Start(r, k) /\ k.manifest = proposal /\ phase = "proposed"
               /\ k \in Call /\ UNCHANGED scanVars
  <2>1. \A dry \in BOOLEAN : [manifest |-> proposal, dryRun |-> dry, guard |-> ScanGuard] \in Call
    BY ScanGuardAssumption DEF PipeInv, ScanInv, ScanTyped, ScanTypeOK, Call
  <2> QED BY <2>1 DEF CliApplies, BotApplies
<1>2. TypeInv'
  BY <1>1, StartType DEF PipeInv
<1>3. ScanInv'
  <2>1. ServerTypeOK /\ UNCHANGED serverVars
    BY <1>1 DEF PipeInv, TypeInv, TypeOK, Start
  <2> QED BY <1>1, <2>1, Moves, ServerScanInv DEF PipeInv
<1>4. Cleared'
  BY <1>1, StepCleared DEF PipeInv
<1>5. Handed'
  BY <1>1 DEF PipeInv, TypeInv, TypeOK, Handed, Start, scanVars
<1> QED BY <1>2, <1>3, <1>4, <1>5 DEF PipeInv

(* A call's own step, or its cancellation.                                  *)
LEMMA CallPipe ==
  ASSUME PipeInv, NEW r \in Runs, Cancel(r) \/ RunStep(r), UNCHANGED scanVars
  PROVE  PipeInv'
<1>1. TypeInv'
  BY CancelType, RunStepType DEF PipeInv
<1>2. UNCHANGED serverVars /\ call' = call
  BY DEF Cancel, RunStep, Abort, Finish, Release, Connect, ConnectFails, Visit,
       FailEntry, SkipEntry, FetchInfo, FetchNotFound, FetchFails, SpareProtected,
       SpareActive, WouldDelete, SendDelete, DeleteSucceeds, DeleteFails, Settle
<1>3. pc[r] # "idle" /\ \A s \in Runs \ {r} : pc'[s] = pc[s]
  BY DEF PipeInv, TypeInv, TypeOK,
       Cancel, RunStep, Abort, Finish, Release, Connect, ConnectFails, Visit,
       FailEntry, SkipEntry, FetchInfo, FetchNotFound, FetchFails, SpareProtected,
       SpareActive, WouldDelete, SendDelete, DeleteSucceeds, DeleteFails, Settle, AtEntry
<1>4. ScanInv'
  <2>1. ServerTypeOK
    BY DEF PipeInv, TypeInv, TypeOK
  <2> QED BY <1>2, <2>1, Moves, ServerScanInv DEF PipeInv
<1>5. Cleared'
  BY StepCleared DEF PipeInv
<1>6. Handed'
  BY <1>2, <1>3 DEF PipeInv, Handed, scanVars
<1> QED BY <1>1, <1>4, <1>5, <1>6 DEF PipeInv

(* A server that removes a consumer brings none back.                       *)
LEMMA ServerPipe ==
  ASSUME PipeInv, ServerStep, UNCHANGED scanVars
  PROVE  PipeInv'
<1>1. TypeInv'
  BY ServerStepType DEF PipeInv
<1>2. ServerGoesOn
  <2>1. ASSUME NEW q \in requests, ExecDelete(q) PROVE ServerGoesOn
    <3>1. ServerTypeOK' /\ clock' = clock /\ clock \in Nat
      BY <1>1, <2>1 DEF PipeInv, TypeInv, TypeOK, ExecDelete, ServerTypeOK
    <3>2. live \in [Addresses -> ConsumerState] /\ q.at \in Addresses
      BY DEF PipeInv, TypeInv, TypeOK, ServerTypeOK
    <3>3. ~Gone(live[q.at]).exists
      BY <3>2 DEF Gone, ConsumerState
    <3>4. \A a \in Addresses : Settled(a)' => live'[a] = live[a]
      BY <2>1, <3>2, <3>3 DEF ExecDelete, Settled
    <3> QED BY <3>1, <3>4 DEF ServerGoesOn, AcksGoOn, Settled
  <2>2. ServerTypeOK
    BY DEF PipeInv, TypeInv, TypeOK
  <2> QED BY <2>1, <2>2, Moves DEF ServerStep
<1>3. ScanInv'
  BY <1>2, ServerScanInv DEF PipeInv
<1>4. Cleared'
  BY StepCleared DEF PipeInv
<1>5. UNCHANGED runVars
  BY DEF ServerStep, ExecDelete
<1>6. Handed'
  BY <1>5 DEF PipeInv, Handed, runVars, scanVars
<1> QED BY <1>1, <1>3, <1>4, <1>6 DEF PipeInv

LEMMA NextPipe == PipeInv /\ [PipelineNext]_allVars => PipeInv'
<1> SUFFICES ASSUME PipeInv, [PipelineNext]_allVars PROVE PipeInv'
  OBVIOUS
<1>1. CASE UNCHANGED allVars
  <2>1. ServerTypeOK /\ UNCHANGED serverVars /\ UNCHANGED scanVars /\ UNCHANGED <<runVars, wireVars>>
    BY <1>1 DEF allVars, PipeInv, TypeInv, TypeOK
  <2>2. TypeInv'
    BY <2>1, RestType DEF PipeInv, vars
  <2>3. ScanInv'
    BY <2>1, Moves, ServerScanInv DEF PipeInv
  <2>4. Cleared'
    BY <2>1, StepCleared DEF PipeInv
  <2>5. Handed'
    BY <2>1 DEF PipeInv, Handed, runVars, scanVars
  <2> QED BY <2>2, <2>3, <2>4, <2>5 DEF PipeInv
<1>2. ASSUME NEW r \in Runs, CliApplies(r) \/ BotApplies(r) \/ Interrupt(r) \/ Applying(r)
      PROVE  PipeInv'
  BY <1>2, HandOver, CallPipe DEF Interrupt, Applying
<1> QED BY <1>1, <1>2, ScanningPipe, ServerPipe DEF PipelineNext, Rest

LEMMA PipeInvariant == PipelineSpec => []PipeInv
  BY InitPipe, NextPipe, PTL DEF PipelineSpec

-----------------------------------------------------------------------------
\* What a request rests on: the promise of Apply, and the row of the scan.
LEMMA RequestFacts ==
  ASSUME PipeInv, NEW q \in requests
  PROVE  /\ ~InUse(q.seen, proposal.generatedAt)
         /\ \E i \in DOMAIN rows :
              /\ HomeOf(rows[i]) = q.at /\ rows[i].status = "STALE"
              /\ rows[i].pending >= MinPending /\ IdleRow(rows[i])
<1>1. /\ q.run \in Runs /\ pc[q.run] # "idle" /\ Removable(q, q.seen)
  BY DEF PipeInv, TypeInv, TypeOK, Cleared
<1>2. phase = "proposed" /\ call[q.run].manifest = proposal
  BY <1>1 DEF PipeInv, Handed
<1>3. ~InUse(q.seen, proposal.generatedAt)
  BY <1>1, <1>2 DEF Removable, Justified
<1>4. PICK k \in DOMAIN proposal.entries : At(proposal.entries[k]) = q.at
  BY <1>1, <1>2 DEF Removable, Justified
<1>5. PICK i \in DOMAIN rows : q.at = HomeOf(rows[i]) /\ Proposed(rows[i])
  BY <1>2, <1>4 DEF PipeInv, ScanInv, JudgedInv, FromRows
<1>6. rows[i].status = "STALE"
  BY <1>5 DEF Proposed, CliProposes, BotProposes, ChatProposes
<1>7. PICK j \in DOMAIN all : Reported(all[j]) /\ SameRow(rows[i], all[j])
  BY DEF PipeInv, ScanInv, RowsInv
<1>8. rows[i].pending >= MinPending
  BY <1>6, <1>7 DEF Reported, MeetsThresholds, SameRow
<1>9. IdleRow(rows[i])
  BY DEF PipeInv, ScanInv, JudgedInv
<1> QED BY <1>3, <1>5, <1>6, <1>8, <1>9

(* A deletion nobody approves is never asked for unless the scan saw the     *)
(* consumer stale, and backlogged enough, whichever caller built the         *)
(* manifest (cmd/consumer/scan.go, cmd/bot/serve.go).                        *)
THEOREM StaleRequested == PipelineSpec => []OnlyStaleRequested
<1>1. PipeInv => OnlyStaleRequested
  BY RequestFacts DEF OnlyStaleRequested, HomeOf
<1> QED BY <1>1, PipeInvariant, PTL

(* Classification and re-verification together: however long the walk takes, *)
(* and however late the server acts, a consumer that was there before the    *)
(* scan and is removed as Apply inspected it was in nobody's use, and had    *)
(* acknowledged nothing in the MinIdle before the scan nor after the         *)
(* manifest was stamped.                                                     *)
THEOREM IdleRemoved == PipelineSpec => RemovedWasIdle
<1>1. ASSUME PipeInv, NEW q \in requests, RemovesSettled(q)
      PROVE  LET c == live[q.at] IN
             /\ ~c.bound /\ c.waiting = 0
             /\ \/ c.lastAck = 0
                \/ c.lastAck + MinIdle <= now
                \/ now <= c.lastAck /\ c.lastAck <= proposal.generatedAt
  <2>1. live[q.at] = q.seen /\ Settled(q.at)
    BY <1>1 DEF RemovesSettled
  <2>2. ~InUse(live[q.at], proposal.generatedAt)
    BY <1>1, <2>1, RequestFacts
  <2>3. Quiet(q.at)
    BY <1>1, <2>1, RequestFacts DEF IdleRow
  <2> QED BY <2>2, <2>3 DEF InUse, Quiet
<1>2. PipeInv => \A q \in requests : RemovesSettled(q) =>
       LET c == live[q.at] IN
         /\ ~c.bound /\ c.waiting = 0
         /\ \/ c.lastAck = 0
            \/ c.lastAck + MinIdle <= now
            \/ now <= c.lastAck /\ c.lastAck <= proposal.generatedAt
  BY <1>1
<1> QED BY <1>2, PipeInvariant, PTL DEF RemovedWasIdle
=============================================================================

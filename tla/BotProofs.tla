------------------------------ MODULE BotProofs ------------------------------
(***************************************************************************)
(* Proofs about Bot, for any number of jobs, schedules and approvals, any  *)
(* findings, and crashes and restarts at any moment: an announced link     *)
(* leads to a manifest, and every removal goes back to a scan and a link.  *)
(***************************************************************************)
EXTENDS Bot, CleanupProofs

-----------------------------------------------------------------------------
(* Types: those of Cleanup, which Bot's own steps disturb only by making a  *)
(* call or by ending one, and those of the bot itself.  A job that stores or *)
(* announces has a manifest and an ID to do it with.                        *)

Holding ==
  \A j \in Jobs : job[j] \in {"storing", "writing", "announcing"} =>
    id[j] \in Ids /\ found[j] \in Manifest

BotTyped ==
  /\ TypeInv
  /\ BotTypeOK
  /\ Holding
  /\ found \in [Jobs -> Manifest \cup {NoManifest}]
  /\ file \in [Ids -> Manifest \cup {Absent, Truncated}]
  /\ clock \in 0 .. MaxTime

LEMMA BuiltIsManifest ==
  ASSUME BotTyped, NEW entries \in Findings
  PROVE  Built(entries) \in Manifest
  BY FindingsAssumption DEF BotTyped, Built, Manifest

(* Every call the bot makes is one Apply may be called with.                *)
LEMMA BotCall ==
  ASSUME NEW m \in Manifest
  PROVE  [manifest |-> m, dryRun |-> FALSE, guard |-> BotGuard] \in Call
  BY BotGuardAssumption DEF Call

LEMMA InitBotTyped == BotInit => BotTyped
<1> SUFFICES ASSUME BotInit PROVE BotTyped
  OBVIOUS
<1>1. TypeInv
  BY InitTypeInv DEF BotInit
<1>2. clock \in 0 .. MaxTime
  BY StartAssumption, BoundsAssumption DEF BotInit, Init, ServerInit
<1>3. BotTypeOK /\ Holding
  BY DEF BotInit, BotTypeOK, Holding
<1> QED BY <1>1, <1>2, <1>3 DEF BotInit, BotTyped

(* What Cleanup and its servers do without the bot.                         *)
LEMMA RunKeepsServer ==
  ASSUME NEW r \in Runs, RunStep(r)
  PROVE  UNCHANGED serverVars
  BY DEF RunStep, Abort, Finish, Release, Connect, ConnectFails, Visit,
     FailEntry, SkipEntry, FetchInfo, FetchNotFound, FetchFails, SpareProtected,
     SpareActive, WouldDelete, SendDelete, DeleteSucceeds, DeleteFails, Settle

LEMMA ClockBounded ==
  ASSUME clock \in 0 .. MaxTime, ServerStep
  PROVE  clock' \in 0 .. MaxTime
<1>1. \A a \in Addresses : ApplicationStep(a) => clock' = clock
  BY DEF ApplicationStep, BindPush, UnbindPush, Poll, PollEnds, Publish, Ack,
     Annotate, Drop, Create, Change
<1>2. Tick => clock' \in 0 .. MaxTime
  BY BoundsAssumption DEF Tick
<1> QED BY <1>1, <1>2 DEF ServerStep, ExecDelete

(* The process ends: the calls under way end where they are.                *)
LEMMA ExitType ==
  ASSUME TypeInv, Exit
  PROVE  TypeInv'
<1> USE DEF Exit, wireVars, serverVars
<1>1. TypeOK'
  BY DEF TypeInv, TypeOK, ServerTypeOK
<1>2. AtHand'
  <2> SUFFICES ASSUME NEW s \in Runs
               PROVE  /\ pc'[s] = "idle" => left'[s] = {} /\ events'[s] = << >>
                      /\ left'[s] \subseteq DOMAIN call'[s].manifest.entries
                      /\ pc'[s] \in {"verify", "deleting"} => left'[s] # {} /\ ~Current(s)'.skip
                      /\ pc'[s] = "verify" => info'[s] \in ConsumerState
    BY DEF AtHand
  <2>1. Current(s)' = Current(s)
    BY DEF Current, Position
  <2>2. pc'[s] = pc[s] \/ pc'[s] = "aborted"
    OBVIOUS
  <2> QED BY <2>1, <2>2 DEF TypeInv, AtHand
<1> QED BY <1>1, <1>2 DEF TypeInv
(* A step of the bot that leaves the calls alone.                           *)
LEMMA BotStepTyped ==
  ASSUME BotTyped, UNCHANGED vars, BotTypeOK', Holding',
         found' \in [Jobs -> Manifest \cup {NoManifest}],
         file' \in [Ids -> Manifest \cup {Absent, Truncated}]
  PROVE  BotTyped'
<1>1. TypeInv'
  BY RestType DEF BotTyped
<1>2. clock' = clock
  BY DEF vars, serverVars
<1> QED BY <1>1, <1>2 DEF BotTyped

(* A step of the calls, or of the servers, that leaves the bot alone.       *)
LEMMA CallStepTyped ==
  ASSUME BotTyped, UNCHANGED botVars, TypeInv', clock' \in 0 .. MaxTime
  PROVE  BotTyped'
<1>1. BotTypeOK'
  BY DEF BotTyped, BotTypeOK, botVars
<1>2. Holding'
  BY DEF BotTyped, Holding, botVars
<1> QED BY <1>1, <1>2 DEF BotTyped, botVars

LEMMA JobStepTyped ==
  ASSUME BotTyped, NEW j \in Jobs, Fire(j) \/ JobStep(j)
  PROVE  BotTyped'
<1>1. CASE Fire(j) \/ ScanErrs(j) \/ FindsNothing(j) \/ PutFails(j)
  BY <1>1, BotStepTyped DEF Fire, ScanErrs, FindsNothing, PutFails, BotTyped, BotTypeOK, Holding
<1>2. ASSUME NEW f \in Findings, FindsStale(j, f) PROVE BotTyped'
  <2>1. Built(f) \in Manifest
    BY BuiltIsManifest
  <2>2. ManifestId(j) \in Ids
    BY DEF ManifestId, Ids, BotTyped
  <2> QED BY <1>2, <2>1, <2>2, BotStepTyped DEF FindsStale, BotTyped, BotTypeOK, Holding
<1>3. ASSUME NEW f \in Findings, NEW r \in Runs, AppliesFindings(j, f, r) PROVE BotTyped'
  <2>1. Built(f) \in Manifest
    BY BuiltIsManifest
  <2>2. TypeInv'
    BY <1>3, <2>1, BotCall, StartType DEF AppliesFindings, BotTyped
  <2>3. clock' = clock
    BY <1>3 DEF AppliesFindings, Start, serverVars
  <2> QED BY <1>3, <2>1, <2>2, <2>3 DEF AppliesFindings, BotTyped, BotTypeOK, Holding
<1>4. CASE BeginPut(j)
  BY <1>4, BotStepTyped DEF BeginPut, BotTyped, BotTypeOK, Holding
<1>5. CASE EndPut(j)
  BY <1>5, BotStepTyped DEF EndPut, BotTyped, BotTypeOK, Holding
<1>6. CASE Announce(j)
  BY <1>6, BotStepTyped DEF Announce, BotTyped, BotTypeOK, Holding, Link
<1> QED BY <1>1, <1>2, <1>3, <1>4, <1>5, <1>6 DEF JobStep

LEMMA ApprovalTyped ==
  ASSUME BotTyped, NEW r \in Runs, NEW l \in links, Approve(r, l) \/ ApproveNotFound(r, l)
  PROVE  BotTyped'
<1>1. l \in Link
  BY DEF BotTyped, BotTypeOK
<1>2. CASE Approve(r, l)
  <2>1. file[l.id] \in Manifest
    BY <1>1, <1>2 DEF Approve, Readable, BotTyped, Link
  <2>2. TypeInv'
    BY <1>2, <2>1, BotCall, StartType DEF Approve, BotTyped
  <2>3. clock' = clock
    BY <1>2 DEF Approve, Start, serverVars
  <2> QED BY <1>1, <1>2, <2>2, <2>3 DEF Approve, jobVars, BotTyped, BotTypeOK, Holding
<1>3. CASE ApproveNotFound(r, l)
  BY <1>1, <1>3, BotStepTyped DEF ApproveNotFound, jobVars, BotTyped, BotTypeOK, Holding
<1> QED BY <1>2, <1>3

LEMMA NextBotTyped == BotTyped /\ [BotNext]_allBotVars => BotTyped'
<1> SUFFICES ASSUME BotTyped, [BotNext]_allBotVars PROVE BotTyped'
  OBVIOUS
<1>1. ASSUME NEW j \in Jobs, Fire(j) \/ JobStep(j) PROVE BotTyped'
  BY <1>1, JobStepTyped
<1>2. ASSUME NEW r \in Runs, NEW l \in links, Approve(r, l) \/ ApproveNotFound(r, l)
      PROVE BotTyped'
  BY <1>2, ApprovalTyped
<1>3. ASSUME NEW r \in Runs, HangUp(r) PROVE BotTyped'
  <2>1. TypeInv' /\ clock' = clock
    BY <1>3, CancelType DEF HangUp, Cancel, serverVars, BotTyped
  <2> QED BY <1>3, <2>1, CallStepTyped DEF HangUp, BotTyped
<1>4. ASSUME NEW r \in Runs, Working(r) PROVE BotTyped'
  <2>1. TypeInv' /\ clock' = clock
    BY <1>4, RunStepType, RunKeepsServer DEF Working, serverVars, BotTyped
  <2> QED BY <1>4, <2>1, CallStepTyped DEF Working, BotTyped
<1>5. ASSUME NEW r \in Runs, Record(r) \/ LoseRecord(r) PROVE BotTyped'
  BY <1>5, BotStepTyped DEF Record, LoseRecord, BotTyped, BotTypeOK, Holding
<1>6. CASE Stop \/ Restart
  BY <1>6, BotStepTyped DEF Stop, Restart, jobVars, BotTyped, BotTypeOK, Holding
<1>7. CASE Exit
  <2>1. TypeInv' /\ clock' = clock
    BY <1>7, ExitType DEF Exit, serverVars, BotTyped
  <2>2. BotTypeOK' /\ Holding'
    BY <1>7 DEF Exit, Busy, BotTyped, BotTypeOK, Holding
  <2> QED BY <1>7, <2>1, <2>2 DEF Exit, BotTyped
<1>8. CASE ServerStep /\ UNCHANGED botVars
  <2>1. TypeInv' /\ clock' \in 0 .. MaxTime
    BY <1>8, ServerStepType, ClockBounded DEF BotTyped
  <2> QED BY <1>8, <2>1, CallStepTyped
<1>9. CASE UNCHANGED allBotVars
  <2>1. TypeInv' /\ clock' = clock
    BY <1>9, RestType DEF allBotVars, vars, serverVars, BotTyped
  <2> QED BY <1>9, <2>1, CallStepTyped DEF allBotVars, BotTyped
<1> QED BY <1>1, <1>2, <1>3, <1>4, <1>5, <1>6, <1>7, <1>8, <1>9 DEF BotNext

(* Every reachable state of the bot is well typed, restarts included.       *)
THEOREM BotTypeCorrect == BotSpec => []BotTypeOK
<1>1. BotSpec => []BotTyped
  BY InitBotTyped, NextBotTyped, PTL DEF BotSpec
<1>2. BotTyped => BotTypeOK
  BY DEF BotTyped
<1> QED BY <1>1, <1>2, PTL
-----------------------------------------------------------------------------
(* Links.  The invariant: only jobs without auto_delete have an ID, and what *)
(* a job has stored stays readable until another job of the same ID starts  *)
(* to write; that one then holds the file, or has failed or died doing so.  *)

Overwritten(j) ==
  \E k \in Jobs : k # j /\ id[k] = id[j] /\ job[k] \in {"writing", "failed"}

Stored(j) == job[j] = "announcing" \/ \E l \in links : l.job = j

LinkInv ==
  /\ \A j \in AutoDelete :
       id[j] = NoId /\ job[j] \notin {"storing", "writing", "announcing"}
  /\ \A j \in Jobs : job[j] \in {"idle", "scanning"} => id[j] = NoId
  /\ \A r \in Runs : origin[r] \in Jobs => origin[r] \in AutoDelete
  /\ \A l \in links : job[l.job] = "done" /\ id[l.job] = l.id
  /\ \A j \in Jobs : Stored(j) => Readable(id[j]) \/ Overwritten(j)

LEMMA InitLinkInv == BotInit => LinkInv
  BY JobsAssumption, AbsenceAssumption DEF BotInit, LinkInv, Stored

LEMMA StoredHasId ==
  ASSUME BotTyped, LinkInv, NEW j \in Jobs, Stored(j)
  PROVE  id[j] \in Ids
<1>1. CASE job[j] = "announcing"
  BY <1>1 DEF BotTyped, Holding
<1>2. ASSUME NEW l \in links, l.job = j PROVE id[j] \in Ids
  BY <1>2 DEF LinkInv, BotTyped, BotTypeOK, Link
<1> QED BY <1>1, <1>2 DEF Stored

(* What is stored stays, if nothing new is, no file is truncated and whoever *)
(* has written under its ID, and is not done, is still in the way.          *)
LEMMA StoredStays ==
  ASSUME BotTyped, LinkInv,
         \A j \in Jobs : Stored(j)' => Stored(j) /\ id'[j] = id[j],
         \A i \in Ids : Readable(i) => Readable(i)',
         \A k \in Jobs : id[k] # NoId /\ job[k] \in {"writing", "failed"}
           => job'[k] \in {"writing", "failed"} /\ id'[k] = id[k]
  PROVE  \A j \in Jobs : Stored(j)' => Readable(id[j])' \/ Overwritten(j)'
<1> SUFFICES ASSUME NEW j \in Jobs, Stored(j)' PROVE Readable(id[j])' \/ Overwritten(j)'
  OBVIOUS
<1>1. Stored(j) /\ id'[j] = id[j] /\ id[j] \in Ids
  BY StoredHasId
<1>2. CASE Readable(id[j])
  <2>1. Readable(id[j])' <=> file'[id'[j]] \notin {Absent, Truncated}
    BY DEF Readable
  <2>2. file'[id[j]] \notin {Absent, Truncated}
    BY <1>1, <1>2 DEF Readable
  <2> QED BY <1>1, <2>1, <2>2
<1>3. CASE Overwritten(j)
  <2>1. PICK k \in Jobs : k # j /\ id[k] = id[j] /\ job[k] \in {"writing", "failed"}
    BY <1>3 DEF Overwritten
  <2>2. job'[k] \in {"writing", "failed"} /\ id'[k] = id'[j]
    BY <1>1, <2>1, AbsenceAssumption
  <2> QED BY <2>1, <2>2 DEF Overwritten
<1> QED BY <1>1, <1>2, <1>3 DEF LinkInv

(* A job goes on, and neither stores nor announces.                         *)
LEMMA MoveLink ==
  ASSUME BotTyped, LinkInv, NEW j \in Jobs, id[j] = NoId \/ job[j] \notin {"done", "failed"},
         NEW next \in {"scanning", "applying", "done", "failed"},
         job' = [job EXCEPT ![j] = next],
         job[j] = "writing" => next = "failed",
         next = "scanning" => job[j] = "idle",
         UNCHANGED <<id, file, links>>,
         \A r \in Runs : origin'[r] = origin[r] \/ origin'[r] \in AutoDelete
  PROVE  LinkInv'
<1>1. \A k \in Jobs : k # j => job'[k] = job[k]
  BY DEF BotTyped, BotTypeOK
<1>2. job'[j] = next
  BY DEF BotTyped, BotTypeOK
<1>3. \A l \in links : l.job \in Jobs /\ l.job # j
  BY AbsenceAssumption DEF LinkInv, BotTyped, BotTypeOK, Link
<1>4. \A k \in Jobs : Stored(k)' => Stored(k) /\ id'[k] = id[k]
  BY <1>1, <1>2 DEF Stored
<1>5. \A i \in Ids : Readable(i) => Readable(i)'
  BY DEF Readable
<1>6. \A k \in Jobs : Stored(k)' => Readable(id[k])' \/ Overwritten(k)'
  BY <1>1, <1>2, <1>4, <1>5, StoredStays
<1>7. \A k \in AutoDelete : id'[k] = NoId /\ job'[k] \notin {"storing", "writing", "announcing"}
  BY <1>1, <1>2, JobsAssumption DEF LinkInv
<1>8. \A k \in Jobs : job'[k] \in {"idle", "scanning"} => id'[k] = NoId
  BY <1>1, <1>2 DEF LinkInv
<1>9. \A r \in Runs : origin'[r] \in Jobs => origin'[r] \in AutoDelete
  BY DEF LinkInv
<1>10. \A l \in links' : job'[l.job] = "done" /\ id'[l.job] = l.id
  BY <1>1, <1>3 DEF LinkInv
<1> QED BY <1>6, <1>7, <1>8, <1>9, <1>10 DEF LinkInv

(* The jobs rest, and the calls that begin are not theirs.                  *)
LEMMA RestLink ==
  ASSUME BotTyped, LinkInv, UNCHANGED <<job, id, file, links>>,
         \A r \in Runs : origin'[r] = origin[r] \/ origin'[r] \notin Jobs
  PROVE  LinkInv'
<1>1. \A k \in Jobs : Stored(k)' => Stored(k) /\ id'[k] = id[k]
  BY DEF Stored
<1>2. \A i \in Ids : Readable(i) => Readable(i)'
  BY DEF Readable
<1>3. \A k \in Jobs : Stored(k)' => Readable(id[k])' \/ Overwritten(k)'
  BY <1>1, <1>2, StoredStays
<1> QED BY <1>3 DEF LinkInv

(* A job that has just built its manifest has nothing stored yet.           *)
LEMMA FindsLink ==
  ASSUME BotTyped, LinkInv, NEW j \in Jobs, NEW f \in Findings, FindsStale(j, f)
  PROVE  LinkInv'
<1> USE DEF FindsStale
<1>1. \A k \in Jobs : k # j => job'[k] = job[k] /\ id'[k] = id[k]
  BY DEF BotTyped, BotTypeOK
<1>2. job'[j] = "storing" /\ job[j] = "scanning" /\ id[j] = NoId
  BY DEF BotTyped, BotTypeOK, LinkInv
<1>3. \A l \in links : l.job \in Jobs /\ l.job # j
  BY <1>2 DEF LinkInv, BotTyped, BotTypeOK, Link
<1>4. \A k \in Jobs : Stored(k)' => Stored(k) /\ id'[k] = id[k]
  BY <1>1, <1>2, <1>3 DEF Stored
<1>5. \A i \in Ids : Readable(i) => Readable(i)'
  BY DEF Readable
<1>6. \A k \in Jobs : Stored(k)' => Readable(id[k])' \/ Overwritten(k)'
  BY <1>1, <1>2, <1>4, <1>5, StoredStays
<1>7. \A k \in AutoDelete : k \in Jobs /\ k # j
  BY JobsAssumption
<1>8. \A l \in links' : job'[l.job] = "done" /\ id'[l.job] = l.id
  BY <1>1, <1>3 DEF LinkInv
<1>9. \A k \in Jobs : job'[k] \in {"idle", "scanning"} => id'[k] = NoId
  BY <1>1, <1>2 DEF LinkInv
<1> QED BY <1>1, <1>6, <1>7, <1>8, <1>9 DEF LinkInv

(* A write that begins truncates the file, and stands in the way of all the *)
(* others that have stored under that ID.                                   *)
LEMMA BeginLink ==
  ASSUME BotTyped, LinkInv, NEW j \in Jobs, BeginPut(j)
  PROVE  LinkInv'
<1> USE DEF BeginPut
<1>1. \A k \in Jobs : k # j => job'[k] = job[k]
  BY DEF BotTyped, BotTypeOK
<1>2. job'[j] = "writing" /\ job[j] = "storing" /\ UNCHANGED <<id, links, origin>>
  BY DEF BotTyped, BotTypeOK
<1>3. \A l \in links : l.job \in Jobs /\ l.job # j
  BY <1>2 DEF LinkInv, BotTyped, BotTypeOK, Link
<1>4. \A i \in Ids : i # id[j] => file'[i] = file[i]
  BY DEF BotTyped
<1>5. ASSUME NEW k \in Jobs, Stored(k)' PROVE Readable(id[k])' \/ Overwritten(k)'
  <2>1. k # j /\ Stored(k)
    BY <1>1, <1>2, <1>3, <1>5 DEF Stored
  <2>2. id[k] \in Ids
    BY <2>1, StoredHasId
  <2>3. CASE id[k] = id[j]
    BY <1>2, <2>1, <2>3 DEF Overwritten
  <2>4. CASE id[k] # id[j] /\ Readable(id[k])
    BY <1>2, <1>4, <2>2, <2>4 DEF Readable
  <2>5. CASE id[k] # id[j] /\ Overwritten(k)
    BY <1>1, <1>2, <2>5 DEF Overwritten
  <2> QED BY <2>1, <2>3, <2>4, <2>5 DEF LinkInv
<1>6. \A k \in AutoDelete : k \in Jobs /\ k # j
  BY <1>2, JobsAssumption DEF LinkInv
<1>7. \A l \in links' : job'[l.job] = "done" /\ id'[l.job] = l.id
  BY <1>1, <1>2, <1>3 DEF LinkInv
<1>8. \A k \in Jobs : job'[k] \in {"idle", "scanning"} => id'[k] = NoId
  BY <1>1, <1>2 DEF LinkInv
<1> QED BY <1>1, <1>2, <1>5, <1>6, <1>7, <1>8 DEF LinkInv

(* A write that ends leaves a manifest for all who have stored under the ID. *)
LEMMA EndLink ==
  ASSUME BotTyped, LinkInv, NEW j \in Jobs, EndPut(j)
  PROVE  LinkInv'
<1> USE DEF EndPut
<1>1. \A k \in Jobs : k # j => job'[k] = job[k]
  BY DEF BotTyped, BotTypeOK
<1>2. job'[j] = "announcing" /\ job[j] = "writing" /\ UNCHANGED <<id, links, origin>>
  BY DEF BotTyped, BotTypeOK
<1>3. \A l \in links : l.job \in Jobs /\ l.job # j
  BY <1>2 DEF LinkInv, BotTyped, BotTypeOK, Link
<1>4. id[j] \in Ids /\ found[j] \in Manifest
  BY <1>2 DEF BotTyped, Holding
<1>5. \A i \in Ids : i # id[j] => file'[i] = file[i]
  BY DEF BotTyped
<1>6. file'[id[j]] \notin {Absent, Truncated}
  BY <1>4, AbsenceAssumption DEF BotTyped
<1>7. ASSUME NEW k \in Jobs, Stored(k)' PROVE Readable(id[k])' \/ Overwritten(k)'
  <2>1. CASE id[k] = id[j]
    BY <1>2, <1>6, <2>1 DEF Readable
  <2>2. CASE id[k] # id[j]
    <3>1. Stored(k) /\ id[k] \in Ids
      BY <1>1, <1>2, <1>7, <2>2, StoredHasId DEF Stored
    <3>2. CASE Readable(id[k])
      BY <1>2, <1>5, <2>2, <3>1, <3>2 DEF Readable
    <3>3. CASE Overwritten(k)
      BY <1>1, <1>2, <2>2, <3>3 DEF Overwritten
    <3> QED BY <3>1, <3>2, <3>3 DEF LinkInv
  <2> QED BY <2>1, <2>2
<1>8. \A k \in AutoDelete : k \in Jobs /\ k # j
  <2>1. j \notin AutoDelete
    BY <1>4, AbsenceAssumption DEF LinkInv
  <2> QED BY <2>1, JobsAssumption
<1>9. \A l \in links' : job'[l.job] = "done" /\ id'[l.job] = l.id
  BY <1>1, <1>2, <1>3 DEF LinkInv
<1>10. \A k \in Jobs : job'[k] \in {"idle", "scanning"} => id'[k] = NoId
  BY <1>1, <1>2 DEF LinkInv
<1> QED BY <1>1, <1>2, <1>7, <1>8, <1>9, <1>10 DEF LinkInv

(* A link is announced by a job that has stored.                            *)
LEMMA AnnounceLink ==
  ASSUME BotTyped, LinkInv, NEW j \in Jobs, Announce(j)
  PROVE  LinkInv'
<1> USE DEF Announce
<1>1. \A k \in Jobs : k # j => job'[k] = job[k]
  BY DEF BotTyped, BotTypeOK
<1>2. job'[j] = "done" /\ job[j] = "announcing" /\ UNCHANGED <<id, file, origin>>
  BY DEF BotTyped, BotTypeOK
<1>3. \A l \in links : l.job \in Jobs /\ l.job # j
  BY <1>2 DEF LinkInv, BotTyped, BotTypeOK, Link
<1>4. links' = links \cup {[id |-> id[j], job |-> j]}
  OBVIOUS
<1>5. \A k \in Jobs : Stored(k)' => Stored(k) /\ id'[k] = id[k]
  BY <1>1, <1>2, <1>4 DEF Stored
<1>6. \A i \in Ids : Readable(i) => Readable(i)'
  BY <1>2 DEF Readable
<1>7. \A k \in Jobs : Stored(k)' => Readable(id[k])' \/ Overwritten(k)'
  BY <1>1, <1>2, <1>5, <1>6, StoredStays
<1>8. \A l \in links' : job'[l.job] = "done" /\ id'[l.job] = l.id
  BY <1>1, <1>2, <1>3, <1>4 DEF LinkInv
<1>9. \A k \in AutoDelete : id'[k] = NoId /\ job'[k] \notin {"storing", "writing", "announcing"}
  BY <1>1, <1>2, JobsAssumption DEF LinkInv
<1>10. \A k \in Jobs : job'[k] \in {"idle", "scanning"} => id'[k] = NoId
  BY <1>1, <1>2 DEF LinkInv
<1> QED BY <1>2, <1>7, <1>8, <1>9, <1>10 DEF LinkInv

(* The process ends: what was being written is in the way for ever.         *)
LEMMA ExitLink ==
  ASSUME BotTyped, LinkInv, Exit
  PROVE  LinkInv'
<1> USE DEF Exit, Busy
<1>1. \A k \in Jobs : job'[k] = job[k] \/ job'[k] = "failed"
  BY DEF BotTyped, BotTypeOK
<1>2. \A k \in Jobs : job[k] \in {"idle", "done", "failed"} => job'[k] = job[k]
  BY DEF BotTyped, BotTypeOK
<1>3. \A k \in Jobs : job[k] \in {"writing", "failed"} => job'[k] = "failed"
  BY DEF BotTyped, BotTypeOK
<1>4. \A l \in links : l.job \in Jobs
  BY DEF BotTyped, BotTypeOK, Link
<1>5. \A k \in Jobs : Stored(k)' => Stored(k) /\ id'[k] = id[k]
  BY <1>1 DEF Stored
<1>6. \A i \in Ids : Readable(i) => Readable(i)'
  BY DEF Readable
<1>7. \A k \in Jobs : Stored(k)' => Readable(id[k])' \/ Overwritten(k)'
  BY <1>3, <1>5, <1>6, StoredStays
<1>8. \A l \in links' : job'[l.job] = "done" /\ id'[l.job] = l.id
  BY <1>2, <1>4 DEF LinkInv
<1>9. \A k \in AutoDelete : id'[k] = NoId /\ job'[k] \notin {"storing", "writing", "announcing"}
  BY <1>1, JobsAssumption DEF LinkInv
<1>10. \A k \in Jobs : job'[k] \in {"idle", "scanning"} => id'[k] = NoId
  BY <1>1 DEF LinkInv
<1> QED BY <1>7, <1>8, <1>9, <1>10 DEF LinkInv

LEMMA NextLinkInv == BotTyped /\ LinkInv /\ [BotNext]_allBotVars => LinkInv'
<1> SUFFICES ASSUME BotTyped, LinkInv, [BotNext]_allBotVars PROVE LinkInv'
  OBVIOUS
<1>1. ASSUME NEW j \in Jobs, Fire(j) PROVE LinkInv'
  BY <1>1, MoveLink DEF Fire
<1>2. ASSUME NEW j \in Jobs, JobStep(j) PROVE LinkInv'
  <2>1. CASE ScanErrs(j) \/ FindsNothing(j) \/ PutFails(j)
    <3>1. job[j] \in {"scanning", "storing", "writing"}
      BY <2>1 DEF ScanErrs, FindsNothing, PutFails
    <3>2. \E next \in {"done", "failed"} :
            job' = [job EXCEPT ![j] = next] /\ (job[j] = "writing" => next = "failed")
      BY <2>1 DEF ScanErrs, FindsNothing, PutFails
    <3>3. UNCHANGED <<id, file, links, origin>>
      BY <2>1 DEF ScanErrs, FindsNothing, PutFails
    <3> QED BY <3>1, <3>2, <3>3, MoveLink
  <2>2. ASSUME NEW f \in Findings, FindsStale(j, f) PROVE LinkInv'
    BY <2>2, FindsLink
  <2>3. ASSUME NEW f \in Findings, NEW r \in Runs, AppliesFindings(j, f, r) PROVE LinkInv'
    <3>1. \A s \in Runs : origin'[s] = origin[s] \/ origin'[s] \in AutoDelete
      BY <2>3 DEF AppliesFindings, BotTyped, BotTypeOK
    <3> QED BY <2>3, <3>1, MoveLink DEF AppliesFindings
  <2> QED BY <1>2, <2>1, <2>2, <2>3, BeginLink, EndLink, AnnounceLink DEF JobStep
<1>3. ASSUME NEW r \in Runs, NEW l \in links, Approve(r, l) \/ ApproveNotFound(r, l)
      PROVE LinkInv'
  <2>1. l \notin Jobs
    BY AbsenceAssumption DEF BotTyped, BotTypeOK
  <2>2. \A s \in Runs : origin'[s] = origin[s] \/ origin'[s] = l
    BY <1>3 DEF Approve, ApproveNotFound, BotTyped, BotTypeOK
  <2>3. UNCHANGED <<job, id, file, links>>
    BY <1>3 DEF Approve, ApproveNotFound, jobVars
  <2> QED BY <2>1, <2>2, <2>3, RestLink
<1>4. ASSUME NEW r \in Runs, Record(r) \/ LoseRecord(r) PROVE LinkInv'
  <2>1. UNCHANGED <<id, file, links, origin>>
    BY <1>4 DEF Record, LoseRecord
  <2>2. CASE origin[r] \in Jobs
    <3>1. id[origin[r]] = NoId /\ job[origin[r]] # "writing"
      BY <2>2 DEF LinkInv
    <3>2. job' = [job EXCEPT ![origin[r]] = "done"]
      BY <1>4, <2>2 DEF Record, LoseRecord
    <3> QED BY <2>1, <2>2, <3>1, <3>2, MoveLink
  <2>3. CASE origin[r] \notin Jobs
    BY <1>4, <2>1, <2>3, RestLink DEF Record, LoseRecord
  <2> QED BY <2>2, <2>3
<1>5. CASE UNCHANGED <<job, id, file, links, origin>>
  BY <1>5, RestLink
<1>6. ASSUME NEW r \in Runs, HangUp(r) \/ Working(r) PROVE LinkInv'
  BY <1>5, <1>6 DEF HangUp, Working, botVars
<1>7. CASE Stop \/ Restart
  BY <1>5, <1>7 DEF Stop, Restart, jobVars
<1>8. CASE (ServerStep /\ UNCHANGED botVars) \/ UNCHANGED allBotVars
  BY <1>5, <1>8 DEF botVars, allBotVars
<1> QED BY <1>1, <1>2, <1>3, <1>4, <1>6, <1>7, <1>8, ExitLink DEF BotNext

(* However jobs overlap, fail, and die with the process, an announced link  *)
(* leads to a manifest unless another job of the same schedule and second   *)
(* has begun to write in its place (serve.go:529-536, file.go:62-81).       *)
THEOREM LinksAlwaysResolve == BotSpec => []LinksResolve
<1>1. BotTyped /\ LinkInv => LinksResolve
  <2> SUFFICES ASSUME BotTyped, LinkInv, NEW l \in links
               PROVE  Readable(l.id) \/ \E j \in Jobs : /\ j # l.job /\ id[j] = l.id
                                                         /\ job[j] \in {"writing", "failed"}
    BY DEF LinksResolve
  <2>1. l.job \in Jobs /\ Stored(l.job) /\ id[l.job] = l.id
    BY DEF Stored, LinkInv, BotTyped, BotTypeOK, Link
  <2> QED BY <2>1 DEF LinkInv, Overwritten
<1>2. BotSpec => [](BotTyped /\ LinkInv)
  BY InitBotTyped, NextBotTyped, InitLinkInv, NextLinkInv, PTL DEF BotSpec
<1> QED BY <1>1, <1>2, PTL

-----------------------------------------------------------------------------
(* Removals.  The invariant: whatever can be read from the store is what    *)
(* some job found and stored under that ID, and every call under way has    *)
(* the manifest of a job of its own, or of the schedule of its link.        *)

Traced(r) ==
  \E j \in Jobs :
    /\ found[j] = call[r].manifest
    /\ \/ j \in AutoDelete /\ origin[r] = j
       \/ \E l \in links : l = origin[r] /\ Name[l.job] = Name[j]

Listed(x) ==
  /\ pc[x.run] # "idle"
  /\ \E i \in DOMAIN call[x.run].manifest.entries :
       At(call[x.run].manifest.entries[i]) = x.at

TraceInv ==
  /\ \A j \in Jobs : job[j] \in {"idle", "scanning"} => found[j] = NoManifest
  /\ \A j \in Jobs : id[j] # NoId => id[j][1] = Name[j]
  /\ \A i \in Ids : Readable(i) => \E j \in Jobs : found[j] = file[i] /\ id[j] = i
  /\ \A r \in Runs : pc[r] # "idle" => Traced(r)
  /\ \A x \in requests : Listed(x)
  /\ \A x \in deletions : Listed(x)
LEMMA InitTraceInv == BotInit => TraceInv
  BY DEF BotInit, Init, TraceInv, Readable

\* What a job has found, and the ID it goes by, are settled for ever.
FindingsStay ==
  \A j \in Jobs : found[j] \in Manifest => found'[j] = found[j] /\ id'[j] = id[j]

\* A call that was made stays made, with its arguments and for its reason.
CallsStay ==
  \A r \in Runs : pc[r] # "idle" =>
    pc'[r] # "idle" /\ call'[r] = call[r] /\ origin'[r] = origin[r]

LEMMA TracedStays ==
  ASSUME BotTyped, FindingsStay, links \subseteq links', NEW r \in Runs, Traced(r),
         call'[r] = call[r], origin'[r] = origin[r]
  PROVE  Traced(r)'
<1>1. PICK j \in Jobs :
        /\ found[j] = call[r].manifest
        /\ \/ j \in AutoDelete /\ origin[r] = j
           \/ \E l \in links : l = origin[r] /\ Name[l.job] = Name[j]
  BY DEF Traced
<1>2. call[r].manifest \in Manifest
  BY CallFacts DEF BotTyped, TypeInv
<1>3. found'[j] = call'[r].manifest
  BY <1>1, <1>2 DEF FindingsStay
<1> QED BY <1>1, <1>3 DEF Traced

LEMMA ListedStays ==
  ASSUME CallsStay, NEW x, x.run \in Runs, Listed(x)
  PROVE  Listed(x)'
<1>1. pc'[x.run] # "idle" /\ call'[x.run] = call[x.run]
  BY DEF CallsStay, Listed
<1>2. PICK i \in DOMAIN call[x.run].manifest.entries :
        At(call[x.run].manifest.entries[i]) = x.at
  BY DEF Listed
<1>3. call'[x.run].manifest.entries = call[x.run].manifest.entries
  BY <1>1
<1>4. i \in DOMAIN call'[x.run].manifest.entries /\ At(call'[x.run].manifest.entries[i]) = x.at
  BY <1>2, <1>3
<1> QED BY <1>1, <1>4 DEF Listed, At

(* The invariant survives a step if what is new in the store, among the     *)
(* calls, the requests and the removals is accounted for.                   *)
LEMMA TraceStays ==
  ASSUME BotTyped, TraceInv, FindingsStay, CallsStay, links \subseteq links',
         \A j \in Jobs : job'[j] \in {"idle", "scanning"} => found'[j] = NoManifest,
         \A j \in Jobs : id'[j] # NoId => id'[j][1] = Name[j],
         \A i \in Ids : Readable(i)' =>
           \/ Readable(i) /\ file'[i] = file[i]
           \/ \E j \in Jobs : found'[j] = file'[i] /\ id'[j] = i,
         \A r \in Runs : pc[r] = "idle" /\ pc'[r] # "idle" => Traced(r)',
         \A x \in requests' : x \in requests \/ Listed(x)',
         \A x \in deletions' : x \in deletions \/ Listed(x)'
  PROVE  TraceInv'
<1>1. ASSUME NEW i \in Ids, Readable(i)'
      PROVE  \E j \in Jobs : found'[j] = file'[i] /\ id'[j] = i
  <2>1. CASE Readable(i) /\ file'[i] = file[i]
    <3>1. PICK j \in Jobs : found[j] = file[i] /\ id[j] = i
      BY <2>1 DEF TraceInv
    <3>2. found[j] \in Manifest
      BY <2>1, <3>1 DEF Readable, BotTyped
    <3> QED BY <2>1, <3>1, <3>2 DEF FindingsStay
  <2> QED BY <1>1, <2>1
<1>2. ASSUME NEW r \in Runs, pc'[r] # "idle" PROVE Traced(r)'
  BY <1>2, TracedStays DEF CallsStay, TraceInv
<1>3. \A x \in requests \cup deletions : x.run \in Runs
  BY DEF BotTyped, TypeInv, TypeOK
<1>4. \A x \in requests' : Listed(x)'
  BY <1>3, ListedStays DEF TraceInv
<1>5. \A x \in deletions' : Listed(x)'
  BY <1>3, ListedStays DEF TraceInv
<1> QED BY <1>1, <1>2, <1>4, <1>5 DEF TraceInv
(* A step of the bot that leaves the calls and the findings alone.          *)
LEMMA BotStepTrace ==
  ASSUME BotTyped, TraceInv, UNCHANGED <<found, id, pc, call, requests, deletions>>,
         links \subseteq links',
         \A r \in Runs : pc[r] # "idle" => origin'[r] = origin[r],
         \A j \in Jobs : job'[j] \in {"idle", "scanning"} => job[j] \in {"idle", "scanning"},
         \A i \in Ids : Readable(i)' =>
           \/ Readable(i) /\ file'[i] = file[i]
           \/ \E j \in Jobs : found[j] = file'[i] /\ id[j] = i
  PROVE  TraceInv'
<1>1. FindingsStay
  BY DEF FindingsStay
<1>2. CallsStay
  BY DEF CallsStay
<1>3. \A j \in Jobs : job'[j] \in {"idle", "scanning"} => found'[j] = NoManifest
  BY DEF TraceInv
<1>4. \A j \in Jobs : id'[j] # NoId => id'[j][1] = Name[j]
  BY DEF TraceInv
<1> QED BY <1>1, <1>2, <1>3, <1>4, TraceStays

LEMMA JobTrace ==
  ASSUME BotTyped, TraceInv, NEW j \in Jobs,
         \/ Fire(j) \/ ScanErrs(j) \/ FindsNothing(j)
         \/ BeginPut(j) \/ EndPut(j) \/ PutFails(j) \/ Announce(j)
  PROVE  TraceInv'
<1>1. /\ UNCHANGED <<found, id, pc, call, requests, deletions, origin>>
      /\ links \subseteq links'
  BY DEF Fire, ScanErrs, FindsNothing, BeginPut, EndPut, PutFails, Announce,
     vars, runVars, wireVars
<1>2. \A k \in Jobs : job'[k] \in {"idle", "scanning"} => job[k] \in {"idle", "scanning"}
  BY DEF Fire, ScanErrs, FindsNothing, BeginPut, EndPut, PutFails, Announce,
     BotTyped, BotTypeOK
<1>3. CASE file' = file
  BY <1>1, <1>2, <1>3, BotStepTrace DEF Readable
<1>4. CASE BeginPut(j)
  <2>1. \A i \in Ids : file'[i] = file[i] \/ file'[i] = Truncated
    BY <1>4 DEF BeginPut, BotTyped
  <2>2. \A i \in Ids : Readable(i)' => Readable(i) /\ file'[i] = file[i]
    BY <2>1 DEF Readable
  <2> QED BY <1>1, <1>2, <2>2, BotStepTrace
<1>5. CASE EndPut(j)
  <2>1. \A i \in Ids : file'[i] = file[i] \/ (i = id[j] /\ file'[i] = found[j])
    BY <1>5 DEF EndPut, BotTyped
  <2>2. \A i \in Ids : Readable(i)' =>
          \/ Readable(i) /\ file'[i] = file[i]
          \/ \E k \in Jobs : found[k] = file'[i] /\ id[k] = i
    BY <2>1 DEF Readable
  <2> QED BY <1>1, <1>2, <2>2, BotStepTrace
<1> QED BY <1>3, <1>4, <1>5 DEF Fire, ScanErrs, FindsNothing, PutFails, Announce

(* A scan ends with a manifest: to be stored, or, with auto_delete, applied. *)
LEMMA FindsTrace ==
  ASSUME BotTyped, LinkInv, TraceInv, NEW j \in Jobs, NEW f \in Findings,
         FindsStale(j, f)
  PROVE  TraceInv'
<1> USE DEF FindsStale
<1>1. /\ \A k \in Jobs : k # j => job'[k] = job[k] /\ id'[k] = id[k] /\ found'[k] = found[k]
      /\ job'[j] = "storing" /\ id'[j] = ManifestId(j) /\ found'[j] = Built(f)
  BY DEF BotTyped, BotTypeOK
<1>2. found[j] = NoManifest
  BY DEF TraceInv
<1>3. FindingsStay
  BY <1>1, <1>2, AbsenceAssumption DEF FindingsStay
<1>4. UNCHANGED <<pc, call, requests, deletions, file, links, origin>>
  BY DEF vars, runVars, wireVars
<1>5. CallsStay
  BY <1>4 DEF CallsStay
<1>6. \A k \in Jobs : job'[k] \in {"idle", "scanning"} => found'[k] = NoManifest
  BY <1>1 DEF TraceInv
<1>7. \A k \in Jobs : id'[k] # NoId => id'[k][1] = Name[k]
  BY <1>1 DEF TraceInv, ManifestId
<1>8. \A i \in Ids : Readable(i)' => Readable(i) /\ file'[i] = file[i]
  BY <1>4 DEF Readable
<1> QED BY <1>3, <1>4, <1>5, <1>6, <1>7, <1>8, TraceStays

(* What a call that begins leaves alone.                                    *)
LEMMA StartKeeps ==
  ASSUME BotTyped, NEW r \in Runs, NEW k, Start(r, k)
  PROVE  /\ pc[r] = "idle" /\ call'[r] = k
         /\ \A s \in Runs : s # r => pc'[s] = pc[s] /\ call'[s] = call[s]
         /\ UNCHANGED <<requests, deletions>>
  BY DEF Start, BotTyped, TypeInv, TypeOK, wireVars

LEMMA AppliesTrace ==
  ASSUME BotTyped, TraceInv, NEW j \in Jobs, NEW f \in Findings, NEW r \in Runs,
         AppliesFindings(j, f, r)
  PROVE  TraceInv'
<1> DEFINE k == [manifest |-> Built(f), dryRun |-> FALSE, guard |-> BotGuard]
<1>1. /\ \A i \in Jobs : i # j => job'[i] = job[i] /\ found'[i] = found[i]
      /\ job'[j] = "applying" /\ found'[j] = Built(f) /\ origin'[r] = j
      /\ UNCHANGED <<id, file, links>>
      /\ \A s \in Runs : s # r => origin'[s] = origin[s]
  BY DEF AppliesFindings, BotTyped, BotTypeOK
<1>2. found[j] = NoManifest
  BY DEF AppliesFindings, TraceInv
<1>3. FindingsStay
  BY <1>1, <1>2, AbsenceAssumption DEF FindingsStay
<1>4. Start(r, k)
  BY DEF AppliesFindings
<1>5. /\ pc[r] = "idle" /\ call'[r].manifest = Built(f)
      /\ \A s \in Runs : s # r => pc'[s] = pc[s] /\ call'[s] = call[s]
      /\ UNCHANGED <<requests, deletions>>
  BY <1>4, StartKeeps
<1>6. CallsStay
  BY <1>1, <1>5 DEF CallsStay
<1>7. Traced(r)'
  BY <1>1, <1>5 DEF AppliesFindings, Traced
<1>8. \A i \in Jobs : job'[i] \in {"idle", "scanning"} => found'[i] = NoManifest
  BY <1>1 DEF TraceInv
<1>9. \A i \in Jobs : id'[i] # NoId => id'[i][1] = Name[i]
  BY <1>1 DEF TraceInv
<1>10. \A i \in Ids : Readable(i)' => Readable(i) /\ file'[i] = file[i]
  BY <1>1 DEF Readable
<1>11. \A s \in Runs : pc[s] = "idle" /\ pc'[s] # "idle" => Traced(s)'
  BY <1>5, <1>7
<1> HIDE DEF k
<1> QED BY <1>1, <1>3, <1>5, <1>6, <1>8, <1>9, <1>10, <1>11, TraceStays

(* A link that is followed leads to a manifest of its own schedule, as only *)
(* jobs of that schedule store under IDs that begin with its name.          *)
LEMMA ApproveTrace ==
  ASSUME BotTyped, LinkInv, TraceInv, NEW r \in Runs, NEW l \in links, Approve(r, l)
  PROVE  TraceInv'
<1> DEFINE k == [manifest |-> file[l.id], dryRun |-> FALSE, guard |-> BotGuard]
<1>1. /\ UNCHANGED <<job, found, id, file, links>> /\ origin'[r] = l
      /\ \A s \in Runs : s # r => origin'[s] = origin[s]
  BY DEF Approve, jobVars, BotTyped, BotTypeOK
<1>2. Start(r, k)
  BY DEF Approve
<1>3. /\ pc[r] = "idle" /\ call'[r].manifest = file[l.id]
      /\ \A s \in Runs : s # r => pc'[s] = pc[s] /\ call'[s] = call[s]
      /\ UNCHANGED <<requests, deletions>>
  BY <1>2, StartKeeps
<1>4. CallsStay
  BY <1>1, <1>3 DEF CallsStay
<1>5. Traced(r)'
  <2>1. l.job \in Jobs /\ l.id \in Ids /\ id[l.job] = l.id
    BY DEF BotTyped, BotTypeOK, Link, LinkInv
  <2>2. PICK j \in Jobs : found[j] = file[l.id] /\ id[j] = l.id
    BY <2>1 DEF Approve, TraceInv
  <2>3. Name[l.job] = Name[j]
    BY <2>1, <2>2, AbsenceAssumption DEF TraceInv
  <2> QED BY <1>1, <1>3, <2>2, <2>3 DEF Traced
<1>6. FindingsStay
  BY <1>1 DEF FindingsStay
<1>7. \A i \in Ids : Readable(i)' => Readable(i) /\ file'[i] = file[i]
  BY <1>1 DEF Readable
<1>8. \A s \in Runs : pc[s] = "idle" /\ pc'[s] # "idle" => Traced(s)'
  BY <1>3, <1>5
<1>9. /\ \A j \in Jobs : job'[j] \in {"idle", "scanning"} => found'[j] = NoManifest
      /\ \A j \in Jobs : id'[j] # NoId => id'[j][1] = Name[j]
  BY <1>1 DEF TraceInv
<1> HIDE DEF k
<1> QED BY <1>1, <1>3, <1>4, <1>6, <1>7, <1>8, <1>9, TraceStays
(* The calls and the servers: a request names an entry of its call, and a   *)
(* removal carries out a request.                                           *)
LEMMA CallStepTrace ==
  ASSUME BotTyped, TraceInv, UNCHANGED <<botVars, call>>,
         \A r \in Runs : pc[r] = "idle" <=> pc'[r] = "idle",
         \A x \in requests' : x \in requests \/ Listed(x)',
         \A x \in deletions' : x \in deletions \/ Listed(x)'
  PROVE  TraceInv'
<1> USE DEF botVars
<1>1. FindingsStay
  BY DEF FindingsStay
<1>2. CallsStay
  BY DEF CallsStay
<1>3. \A i \in Ids : Readable(i)' => Readable(i) /\ file'[i] = file[i]
  BY DEF Readable
<1>4. \A j \in Jobs : job'[j] \in {"idle", "scanning"} => found'[j] = NoManifest
  BY DEF TraceInv
<1>5. \A j \in Jobs : id'[j] # NoId => id'[j][1] = Name[j]
  BY DEF TraceInv
<1> QED BY <1>1, <1>2, <1>3, <1>4, <1>5, TraceStays

LEMMA WorkTrace ==
  ASSUME BotTyped, TraceInv, NEW r \in Runs, RunStep(r), UNCHANGED botVars
  PROVE  TraceInv'
<1>1. CASE SendDelete(r)
  <2>1. /\ requests' = requests \cup {DeleteRequest(r)}
        /\ UNCHANGED <<call, deletions>> /\ pc[r] = "verify" /\ pc'[r] = "deleting"
        /\ \A s \in Runs : s # r => pc'[s] = pc[s]
    BY <1>1 DEF SendDelete, BotTyped, TypeInv, TypeOK
  <2>2. left[r] # {}
    BY <2>1 DEF BotTyped, TypeInv, AtHand
  <2>3. Position(r) \in DOMAIN call[r].manifest.entries
    BY <2>2, CurrentEntry DEF BotTyped
  <2>4. DeleteRequest(r).run = r /\ DeleteRequest(r).at = At(call[r].manifest.entries[Position(r)])
    BY DEF DeleteRequest, Current
  <2>5. \A q : q.run = r /\ q.at = At(Current(r)) => Listed(q)'
    BY <2>1, <2>3 DEF Listed, Current
  <2>6. \A x \in requests' : x \in requests \/ Listed(x)'
    BY <2>1, <2>4, <2>5 DEF Current
  <2> QED BY <2>1, <2>6, CallStepTrace
<1>2. CASE ~SendDelete(r)
  <2>1. UNCHANGED <<requests, deletions, call>>
    BY <1>2 DEF RunStep, Abort, Finish, Release, Connect, ConnectFails, Visit,
       FailEntry, SkipEntry, FetchInfo, FetchNotFound, FetchFails, SpareProtected,
       SpareActive, WouldDelete, DeleteSucceeds, DeleteFails, Settle, wireVars
  <2>2. pc[r] # "idle" /\ \E next \in {"done", "aborted", "loop", "entry", "offline", "verify"} :
          pc' = [pc EXCEPT ![r] = next]
    BY <1>2 DEF RunStep, Abort, Finish, Release, Connect, ConnectFails, Visit, AtEntry,
       FailEntry, SkipEntry, FetchInfo, FetchNotFound, FetchFails, SpareProtected,
       SpareActive, WouldDelete, DeleteSucceeds, DeleteFails, Settle
  <2>3. \A s \in Runs : pc[s] = "idle" <=> pc'[s] = "idle"
    BY <2>2 DEF BotTyped, TypeInv, TypeOK
  <2> QED BY <2>1, <2>3, CallStepTrace
<1> QED BY <1>1, <1>2

LEMMA ServerTrace ==
  ASSUME BotTyped, TraceInv, ServerStep, UNCHANGED botVars
  PROVE  TraceInv'
<1>1. ASSUME NEW q \in requests, ExecDelete(q) PROVE TraceInv'
  <2>1. UNCHANGED runVars /\ requests' \subseteq requests
    BY <1>1 DEF ExecDelete
  <2>2. \A x \in deletions' : x \in deletions \/ (x.run = q.run /\ x.at = q.at)
    BY <1>1 DEF ExecDelete
  <2>3. Listed(q)
    BY DEF TraceInv
  <2>4. ASSUME NEW x, x.run = q.run, x.at = q.at PROVE Listed(x)'
    BY <2>1, <2>3, <2>4 DEF Listed, runVars, At
  <2> QED BY <2>1, <2>2, <2>4, CallStepTrace DEF runVars
<1>2. CASE UNCHANGED <<runVars, wireVars>>
  BY <1>2, CallStepTrace DEF runVars, wireVars
<1> QED BY <1>1, <1>2 DEF ServerStep

(* The process ends: no call begins.                                        *)
LEMMA ExitTrace ==
  ASSUME BotTyped, TraceInv, Exit
  PROVE  TraceInv'
<1>1. UNCHANGED <<call, requests, deletions, found, id, file, links, origin>>
  BY DEF Exit, wireVars
<1>2. \A r \in Runs : pc[r] = "idle" <=> pc'[r] = "idle"
  BY DEF Exit, Unanswered, BotTyped, TypeInv, TypeOK
<1>3. \A j \in Jobs : job'[j] \in {"idle", "scanning"} => found'[j] = NoManifest
  BY <1>1 DEF Exit, Busy, BotTyped, BotTypeOK, TraceInv
<1>4. FindingsStay
  BY <1>1 DEF FindingsStay
<1>5. CallsStay
  BY <1>1, <1>2 DEF CallsStay
<1>6. \A i \in Ids : Readable(i)' => Readable(i) /\ file'[i] = file[i]
  BY <1>1 DEF Readable
<1>7. \A j \in Jobs : id'[j] # NoId => id'[j][1] = Name[j]
  BY <1>1 DEF TraceInv
<1> QED BY <1>1, <1>2, <1>3, <1>4, <1>5, <1>6, <1>7, TraceStays

\* Whoever works, works on somebody's behalf.
LEMMA NotAsked ==
  ASSUME BotTyped, TraceInv, NEW r \in Runs, origin[r] = NoOrigin
  PROVE  pc[r] = "idle"
<1> SUFFICES ASSUME Traced(r) PROVE FALSE
  BY DEF TraceInv
<1> QED BY JobsAssumption, AbsenceAssumption DEF Traced, BotTyped, BotTypeOK

LEMMA NextTraceInv ==
  BotTyped /\ LinkInv /\ TraceInv /\ [BotNext]_allBotVars => TraceInv'
<1> SUFFICES ASSUME BotTyped, LinkInv, TraceInv, [BotNext]_allBotVars PROVE TraceInv'
  OBVIOUS
<1>1. ASSUME NEW j \in Jobs, Fire(j) \/ JobStep(j) PROVE TraceInv'
  BY <1>1, JobTrace, FindsTrace, AppliesTrace DEF JobStep
<1>2. ASSUME NEW r \in Runs, NEW l \in links, Approve(r, l) PROVE TraceInv'
  BY <1>2, ApproveTrace
<1>3. ASSUME UNCHANGED <<found, id, pc, call, requests, deletions, links, file>>,
             \A r \in Runs : pc[r] # "idle" => origin'[r] = origin[r],
             \A j \in Jobs : job'[j] \in {"idle", "scanning"} => job[j] \in {"idle", "scanning"}
      PROVE  TraceInv'
  BY <1>3, BotStepTrace DEF Readable
<1>4. ASSUME NEW r \in Runs, NEW l \in links, ApproveNotFound(r, l) PROVE TraceInv'
  <2>1. pc[r] = "idle"
    BY <1>4, NotAsked DEF ApproveNotFound
  <2>2. \A s \in Runs : pc[s] # "idle" => origin'[s] = origin[s]
    BY <1>4, <2>1 DEF ApproveNotFound, BotTyped, BotTypeOK
  <2> QED BY <1>3, <1>4, <2>2 DEF ApproveNotFound, jobVars, vars, runVars, wireVars
<1>5. ASSUME NEW r \in Runs, HangUp(r) PROVE TraceInv'
  BY <1>5, CallStepTrace DEF HangUp, Cancel, wireVars
<1>6. ASSUME NEW r \in Runs, Working(r) PROVE TraceInv'
  BY <1>6, WorkTrace DEF Working
<1>7. ASSUME NEW r \in Runs, Record(r) \/ LoseRecord(r) PROVE TraceInv'
  <2>1. \A j \in Jobs : job'[j] \in {"idle", "scanning"} => job[j] \in {"idle", "scanning"}
    BY <1>7 DEF Record, LoseRecord, BotTyped, BotTypeOK
  <2> QED BY <1>3, <1>7, <2>1 DEF Record, LoseRecord, vars, runVars, wireVars
<1>8. CASE Stop \/ Restart
  BY <1>3, <1>8 DEF Stop, Restart, jobVars, vars, runVars, wireVars
<1>9. CASE ServerStep /\ UNCHANGED botVars
  BY <1>9, ServerTrace
<1>10. CASE UNCHANGED allBotVars
  BY <1>3, <1>10 DEF allBotVars, botVars, vars, runVars, wireVars
<1> QED BY <1>1, <1>2, <1>4, <1>5, <1>6, <1>7, <1>8, <1>9, <1>10, ExitTrace DEF BotNext

(* Whatever dies, is approved twice or is answered late: a consumer that is *)
(* removed was listed by a scan, and somebody followed a link of the same   *)
(* schedule, unless it has auto_delete (serve.go:525-536, approve.go:95-116). *)
THEOREM RemovalsAlwaysTraceable == BotSpec => []RemovalsTraceable
<1>1. BotTyped /\ TraceInv => RemovalsTraceable
  <2> SUFFICES ASSUME BotTyped, TraceInv, NEW d \in deletions
               PROVE  \E j \in Jobs :
                        /\ found[j] = call[d.run].manifest
                        /\ \E i \in DOMAIN found[j].entries : At(found[j].entries[i]) = d.at
                        /\ \/ j \in AutoDelete /\ origin[d.run] = j
                           \/ \E l \in links : l = origin[d.run] /\ Name[l.job] = Name[j]
    BY DEF RemovalsTraceable
  <2>1. d.run \in Runs
    BY DEF BotTyped, TypeInv, TypeOK
  <2>2. Listed(d) /\ Traced(d.run)
    BY <2>1 DEF TraceInv, Listed
  <2> QED BY <2>2 DEF Listed, Traced
<1>2. BotSpec => [](BotTyped /\ LinkInv /\ TraceInv)
  BY InitBotTyped, NextBotTyped, InitLinkInv, NextLinkInv, InitTraceInv, NextTraceInv, PTL
     DEF BotSpec
<1> QED BY <1>1, <1>2, PTL

-----------------------------------------------------------------------------
(* The audit log.  A call asks once for each entry, for an entry that is    *)
(* settled is never looked at again; what it asked for, and what was        *)
(* removed for it, is in its events unless it was killed.                   *)

\* What is settled of a call, what is left of the cluster under way, and the
\* clusters yet to visit have no entry in common.
Apart(r) ==
  /\ \A i \in InTrail(r) : i \notin left[r] /\ EntriesOf(r)[i].cluster \notin todo[r]
  /\ \A i \in left[r] : EntriesOf(r)[i].cluster \notin todo[r]

SameEntry(x, y) == x.run = y.run /\ x.entry = y.entry

AskedOnce ==
  /\ \A p, q \in requests : SameEntry(p, q) => p = q
  /\ \A d, e \in deletions : SameEntry(d, e) => d = e
  /\ \A q \in requests, d \in deletions : ~SameEntry(q, d)

InEvents == \A x \in requests \cup deletions : outcome[x.run] = "killed" \/ Accounted(x)

OnceInv ==
  /\ \A r \in Runs : Apart(r)
  /\ AskedOnce /\ InEvents
  /\ \A r \in Runs : outcome[r] = "killed" => pc[r] = "aborted"

LEMMA InitOnce == BotInit => OnceInv
<1> SUFFICES ASSUME BotInit PROVE OnceInv
  OBVIOUS
<1>1. \A r \in Runs : events[r] = << >> /\ left[r] = {} /\ outcome[r] = "none"
  BY DEF BotInit, Init
<1>2. \A r \in Runs : InTrail(r) = {}
  BY <1>1 DEF InTrail
<1>3. requests = {} /\ deletions = {}
  BY DEF BotInit, Init
<1> QED BY <1>1, <1>2, <1>3 DEF OnceInv, Apart, AskedOnce, InEvents

LEMMA SentRuns ==
  ASSUME BotTyped
  PROVE  \A x \in requests \cup deletions : x.run \in Runs
  BY DEF BotTyped, TypeInv, TypeOK

\* A call of which neither the trail nor what is to visit changes.
LEMMA ApartStays ==
  ASSUME NEW r, Apart(r), events'[r] = events[r], left'[r] = left[r],
         todo'[r] = todo[r], call'[r] = call[r]
  PROVE  Apart(r)'
  BY DEF Apart, InTrail, EntriesOf

(* Steps that write no event and ask for nothing.                           *)
LEMMA OnceStays ==
  ASSUME BotTyped, OnceInv, UNCHANGED <<requests, deletions>>,
         \A r \in Runs : Apart(r)',
         \A x \in requests \cup deletions :
           Accounted(x) => outcome'[x.run] = "killed" \/ Accounted(x)',
         \A r \in Runs : outcome[r] = "killed" => outcome'[r] = "killed",
         \A r \in Runs : outcome'[r] = "killed" => pc'[r] = "aborted"
  PROVE  OnceInv'
<1>1. AskedOnce'
  BY DEF OnceInv, AskedOnce
<1>2. InEvents'
  BY SentRuns DEF OnceInv, InEvents
<1> QED BY <1>1, <1>2 DEF OnceInv

(* A step of the bot that leaves the calls alone.                           *)
LEMMA BotStepOnce ==
  ASSUME BotTyped, OnceInv, UNCHANGED <<pc, call, todo, left, events, requests, deletions>>,
         \A r \in Runs : outcome[r] = "killed" <=> outcome'[r] = "killed"
  PROVE  OnceInv'
<1>1. \A r \in Runs : Apart(r)'
  BY ApartStays DEF OnceInv
<1>2. \A x : Accounted(x) => Accounted(x)'
  BY DEF Accounted, Position
<1> QED BY <1>1, <1>2, OnceStays DEF OnceInv

(* A call begins: it has asked for nothing.                                 *)
LEMMA StartOnce ==
  ASSUME BotTyped, OnceInv, NEW r \in Runs, NEW k, Start(r, k), outcome' = outcome
  PROVE  OnceInv'
<1>1. /\ pc[r] = "idle" /\ events[r] = << >> /\ left[r] = {}
      /\ UNCHANGED <<events, left, requests, deletions>>
      /\ \A s \in Runs : s # r => pc'[s] = pc[s] /\ call'[s] = call[s] /\ todo'[s] = todo[s]
  BY DEF Start, BotTyped, TypeInv, TypeOK, AtHand, wireVars
<1>2. InTrail(r)' = {} /\ left'[r] = {}
  BY <1>1 DEF InTrail
<1>3. \A s \in Runs : Apart(s)'
  <2>1. \A s \in Runs : s # r => Apart(s)'
    BY <1>1, ApartStays DEF OnceInv
  <2>2. Apart(r)'
    BY <1>2 DEF Apart
  <2> QED BY <2>1, <2>2
<1>4. ASSUME NEW x \in requests \cup deletions, Accounted(x) PROVE Accounted(x)'
  <2>1. x.run \in Runs /\ x.run # r
    BY <1>1, <1>4, SentRuns DEF Accounted
  <2> QED BY <1>1, <1>4, <2>1 DEF Accounted, Position
<1>5. \A s \in Runs : outcome[s] = "killed" => pc'[s] = "aborted"
  BY <1>1 DEF OnceInv
<1> QED BY <1>1, <1>3, <1>4, <1>5, OnceStays

(* An entry is settled: its event says what became of a delete it awaited.  *)
LEMMA SettleOnce ==
  ASSUME BotTyped, OnceInv, NEW r \in Runs, left[r] # {},
         NEW action \in Action, NEW next \in {"entry", "offline"}, Settle(r, action, next),
         UNCHANGED <<wireVars, outcome>>, pc[r] # "aborted",
         pc[r] = "deleting" => action \in {"DELETED", "FAIL"}
  PROVE  OnceInv'
<1> DEFINE p == Position(r)
           last == Len(events[r]) + 1
<1>1. /\ DOMAIN events'[r] = DOMAIN events[r] \cup {last}
      /\ events'[r][last] = [entry |-> Position(r), action |-> action]
      /\ \A i \in DOMAIN events[r] : events'[r][i] = events[r][i]
      /\ \A s \in Runs : s # r =>
           events'[s] = events[s] /\ pc'[s] = pc[s] /\ left'[s] = left[s]
  BY SettleFacts DEF BotTyped
<1>2. UNCHANGED <<call, todo, requests, deletions>> /\ left'[r] = left[r] \ {p}
  BY DEF Settle, wireVars, BotTyped, TypeInv, TypeOK
<1>3. p \in left[r]
  BY CurrentEntry DEF BotTyped
<1>4. InTrail(r)' = InTrail(r) \cup {p}
  <2>1. events'[r][last].entry = p
    BY <1>1
  <2> HIDE DEF p, last
  <2> QED BY <1>1, <2>1 DEF InTrail
<1>5. \A s \in Runs : Apart(s)'
  <2>1. \A s \in Runs : s # r => Apart(s)'
    BY <1>1, <1>2, ApartStays DEF OnceInv
  <2>2. Apart(r)'
    <3>1. EntriesOf(r)' = EntriesOf(r)
      BY <1>2 DEF EntriesOf
    <3> HIDE DEF p
    <3> QED BY <1>2, <1>3, <1>4, <3>1 DEF OnceInv, Apart
  <2> QED BY <2>1, <2>2
<1>6. \A x \in requests \cup deletions : Accounted(x) => Accounted(x)'
  BY SettleAccounted, SentRuns DEF BotTyped
<1>7. \A s \in Runs : outcome'[s] = "killed" => pc'[s] = "aborted"
  BY <1>1 DEF OnceInv
<1> QED BY <1>2, <1>5, <1>6, <1>7, OnceStays

(* A call moves on without an event: no delete is awaited.                  *)
LEMMA MoveOnce ==
  ASSUME BotTyped, OnceInv, NEW r \in Runs, NEW next,
         pc[r] \notin {"deleting", "aborted"}, pc' = [pc EXCEPT ![r] = next],
         UNCHANGED <<call, events, requests, deletions, outcome>>,
         \A s \in Runs : s # r => left'[s] = left[s] /\ todo'[s] = todo[s],
         Apart(r)'
  PROVE  OnceInv'
<1>1. \A s \in Runs : s # r => pc'[s] = pc[s]
  BY DEF BotTyped, TypeInv, TypeOK
<1>2. \A s \in Runs : Apart(s)'
  BY ApartStays DEF OnceInv
<1>3. ASSUME NEW x \in requests \cup deletions, Accounted(x) PROVE Accounted(x)'
  <2>1. CASE x.run = r
    BY <1>3, <2>1 DEF Accounted
  <2>2. CASE x.run # r
    BY <1>1, <1>3, <2>2, SentRuns DEF Accounted, Position
  <2> QED BY <2>1, <2>2
<1>4. \A s \in Runs : outcome'[s] = "killed" => pc'[s] = "aborted"
  BY <1>1 DEF OnceInv
<1> QED BY <1>2, <1>3, <1>4, OnceStays

(* A cluster is visited: none of its entries is settled.                    *)
LEMMA VisitOnce ==
  ASSUME BotTyped, OnceInv, NEW r \in Runs, NEW c \in Clusters, Visit(r, c),
         NEW next, pc' = [pc EXCEPT ![r] = next], outcome' = outcome
  PROVE  OnceInv'
<1>1. /\ pc[r] = "loop" /\ c \in todo[r] /\ UNCHANGED <<call, events, requests, deletions>>
      /\ left'[r] = EntriesOn(call[r].manifest, c) /\ todo'[r] = todo[r] \ {c}
      /\ \A s \in Runs : s # r => left'[s] = left[s] /\ todo'[s] = todo[s]
  BY DEF Visit, wireVars, BotTyped, TypeInv, TypeOK
<1>2. InTrail(r)' = InTrail(r) /\ EntriesOf(r)' = EntriesOf(r)
  BY <1>1 DEF InTrail, EntriesOf
<1>3. \A i \in left'[r] : EntriesOf(r)[i].cluster = c
  BY <1>1 DEF EntriesOn, EntriesOf
<1>4. Apart(r)'
  BY <1>1, <1>2, <1>3 DEF OnceInv, Apart
<1> QED BY <1>1, <1>4, MoveOnce

(* A delete is sent for an entry that nothing was asked for yet.            *)
LEMMA SendOnce ==
  ASSUME BotTyped, OnceInv, NEW r \in Runs, SendDelete(r), outcome' = outcome
  PROVE  OnceInv'
<1>1. /\ pc[r] = "verify" /\ pc'[r] = "deleting"
      /\ UNCHANGED <<call, todo, left, events, deletions>>
      /\ requests' = requests \cup {DeleteRequest(r)}
      /\ \A s \in Runs : s # r => pc'[s] = pc[s]
  BY DEF SendDelete, BotTyped, TypeInv, TypeOK
<1>2. DeleteRequest(r).run = r /\ DeleteRequest(r).entry = Position(r)
  BY DEF DeleteRequest
<1>3. Position(r) \in left[r]
  BY <1>1, CurrentEntry DEF BotTyped, TypeInv, AtHand
<1>4. ASSUME NEW x \in requests \cup deletions PROVE ~SameEntry(x, DeleteRequest(r))
  <2> SUFFICES ASSUME x.run = r, x.entry = Position(r) PROVE FALSE
    BY <1>2 DEF SameEntry
  <2>1. outcome[r] # "killed"
    BY <1>1 DEF OnceInv
  <2>2. Accounted(x)
    BY <2>1 DEF OnceInv, InEvents
  <2>3. x.entry \in InTrail(r)
    BY <1>1, <2>2 DEF Accounted, InTrail
  <2> QED BY <1>3, <2>3 DEF OnceInv, Apart
<1>5. AskedOnce'
  <2>1. \A x, y : SameEntry(x, y) => SameEntry(y, x)
    BY DEF SameEntry
  <2> QED BY <1>1, <1>4, <2>1 DEF OnceInv, AskedOnce
<1>6. InEvents'
  <2>1. ASSUME NEW x \in requests \cup deletions, Accounted(x) PROVE Accounted(x)'
    <3>1. CASE x.run = r
      BY <1>1, <2>1, <3>1 DEF Accounted
    <3>2. CASE x.run # r
      BY <1>1, <2>1, <3>2, SentRuns DEF Accounted, Position
    <3> QED BY <3>1, <3>2
  <2>2. \A x : x.run = r /\ x.entry = Position(r) => Accounted(x)'
    BY <1>1 DEF Accounted, Position
  <2> QED BY <1>1, <1>2, <2>1, <2>2 DEF OnceInv, InEvents
<1>7. \A s \in Runs : Apart(s)'
  BY <1>1, ApartStays DEF OnceInv
<1>8. \A s \in Runs : outcome'[s] = "killed" => pc'[s] = "aborted"
  BY <1>1 DEF OnceInv
<1> QED BY <1>5, <1>6, <1>7, <1>8 DEF OnceInv

(* A request turns into a removal, or into nothing, but never into two.     *)
LEMMA ExecOnce ==
  ASSUME BotTyped, OnceInv, NEW q \in requests, ExecDelete(q), outcome' = outcome
  PROVE  OnceInv'
<1> DEFINE d == [run |-> q.run, entry |-> q.entry, at |-> q.at, inc |-> live[q.at].inc]
<1>1. /\ requests' = requests \ {q} /\ deletions' \subseteq deletions \cup {d}
      /\ UNCHANGED <<pc, call, todo, left, events>>
  BY DEF ExecDelete, runVars
<1>2. d.run = q.run /\ d.entry = q.entry
  OBVIOUS
<1> HIDE DEF d
<1>3. \A x : Accounted(x)' <=> Accounted(x)
  BY <1>1 DEF Accounted, Position
<1>4. Accounted(q) => Accounted(d)
  BY <1>2 DEF Accounted
<1>5. InEvents'
  BY <1>1, <1>2, <1>3, <1>4 DEF OnceInv, InEvents
<1>6. AskedOnce'
  <2>1. \A e \in deletions : ~SameEntry(d, e) /\ ~SameEntry(e, d)
    BY <1>2 DEF OnceInv, AskedOnce, SameEntry
  <2>2. \A p \in requests' : ~SameEntry(p, d)
    BY <1>1, <1>2 DEF OnceInv, AskedOnce, SameEntry
  <2> QED BY <1>1, <2>1, <2>2 DEF OnceInv, AskedOnce
<1>7. \A s \in Runs : Apart(s)'
  BY <1>1, ApartStays DEF OnceInv
<1> QED BY <1>1, <1>5, <1>6, <1>7 DEF OnceInv

LEMMA WorkOnce ==
  ASSUME BotTyped, OnceInv, NEW r \in Runs, RunStep(r), outcome' = outcome
  PROVE  OnceInv'
<1>1. pc[r] \in {"verify", "deleting"} => left[r] # {}
  BY DEF BotTyped, TypeInv, AtHand
<1>2. ASSUME NEW next, pc[r] \notin {"deleting", "aborted"}, pc' = [pc EXCEPT ![r] = next],
             UNCHANGED <<call, todo, left, events, wireVars>>
      PROVE  OnceInv'
  <2>1. Apart(r)'
    BY <1>2, ApartStays DEF OnceInv
  <2> QED BY <1>2, <2>1, MoveOnce DEF wireVars
<1>3. CASE Abort(r) \/ Finish(r) \/ Release(r) \/ FetchInfo(r)
  BY <1>2, <1>3 DEF Abort, Finish, Release, FetchInfo, AtEntry
<1>4. ASSUME NEW c \in Clusters, Connect(r, c) \/ ConnectFails(r, c) PROVE OnceInv'
  BY <1>4, VisitOnce DEF Connect, ConnectFails
<1>5. CASE FailEntry(r)
  BY <1>5, SettleOnce DEF FailEntry, Action
<1>6. CASE SkipEntry(r) \/ FetchNotFound(r) \/ FetchFails(r)
  BY <1>6, SettleOnce DEF SkipEntry, FetchNotFound, FetchFails, AtEntry, Action
<1>7. CASE SpareProtected(r) \/ SpareActive(r) \/ WouldDelete(r)
  BY <1>1, <1>7, SettleOnce DEF SpareProtected, SpareActive, WouldDelete, Action
<1>8. CASE DeleteSucceeds(r) \/ DeleteFails(r)
  BY <1>1, <1>8, SettleOnce DEF DeleteSucceeds, DeleteFails, Action
<1>9. CASE SendDelete(r)
  BY <1>9, SendOnce
<1> QED BY <1>3, <1>4, <1>5, <1>6, <1>7, <1>8, <1>9 DEF RunStep

(* The process ends: whoever was awaiting an answer is killed.              *)
LEMMA ExitOnce ==
  ASSUME BotTyped, OnceInv, Exit
  PROVE  OnceInv'
<1>1. UNCHANGED <<call, todo, left, events, requests, deletions>>
  BY DEF Exit, wireVars
<1>2. \A r \in Runs : Apart(r)'
  BY <1>1, ApartStays DEF OnceInv
<1>3. \A r \in Runs : \/ outcome'[r] = "killed" /\ pc'[r] = "aborted"
                      \/ outcome'[r] = outcome[r] /\ pc'[r] = pc[r]
  BY DEF Exit
<1>4. \A x \in requests \cup deletions :
        Accounted(x) => outcome'[x.run] = "killed" \/ Accounted(x)'
  BY <1>1, <1>3, SentRuns DEF Accounted, Position
<1>5. /\ \A r \in Runs : outcome[r] = "killed" => outcome'[r] = "killed"
      /\ \A r \in Runs : outcome'[r] = "killed" => pc'[r] = "aborted"
  BY <1>3 DEF OnceInv
<1> QED BY <1>1, <1>2, <1>4, <1>5, OnceStays

LEMMA NextOnce ==
  BotTyped /\ TraceInv /\ OnceInv /\ [BotNext]_allBotVars => OnceInv'
<1> SUFFICES ASSUME BotTyped, TraceInv, OnceInv, [BotNext]_allBotVars PROVE OnceInv'
  OBVIOUS
<1>1. ASSUME UNCHANGED <<pc, call, todo, left, events, wireVars>>,
             \A r \in Runs : outcome[r] = "killed" <=> outcome'[r] = "killed"
      PROVE  OnceInv'
  BY <1>1, BotStepOnce DEF wireVars
<1>2. ASSUME UNCHANGED <<vars, outcome>> PROVE OnceInv'
  BY <1>1, <1>2 DEF vars, runVars
<1>3. ASSUME NEW j \in Jobs, Fire(j) \/ JobStep(j) PROVE OnceInv'
  <2>1. ASSUME NEW f \in Findings, NEW r \in Runs, AppliesFindings(j, f, r) PROVE OnceInv'
    BY <2>1, StartOnce DEF AppliesFindings
  <2> QED BY <1>2, <1>3, <2>1 DEF Fire, JobStep, ScanErrs, FindsNothing, FindsStale,
             BeginPut, EndPut, PutFails, Announce
<1>4. ASSUME NEW r \in Runs, NEW l \in links, Approve(r, l) PROVE OnceInv'
  BY <1>4, StartOnce DEF Approve
<1>5. ASSUME NEW r \in Runs, NEW l \in links, ApproveNotFound(r, l) PROVE OnceInv'
  <2>1. pc[r] = "idle"
    BY <1>5, NotAsked DEF ApproveNotFound
  <2>2. \A s \in Runs : outcome[s] = "killed" <=> outcome'[s] = "killed"
    BY <1>5, <2>1 DEF ApproveNotFound, OnceInv, BotTyped, BotTypeOK
  <2> QED BY <1>1, <1>5, <2>2 DEF ApproveNotFound, vars, runVars
<1>6. ASSUME NEW r \in Runs, HangUp(r) PROVE OnceInv'
  BY <1>1, <1>6 DEF HangUp, Cancel, botVars
<1>7. ASSUME NEW r \in Runs, Working(r) PROVE OnceInv'
  BY <1>7, WorkOnce DEF Working, botVars
<1>8. ASSUME NEW r \in Runs, Record(r) \/ LoseRecord(r) PROVE OnceInv'
  <2>1. \A s \in Runs : outcome[s] = "killed" <=> outcome'[s] = "killed"
    BY <1>8 DEF Record, LoseRecord, Returned, BotTyped, BotTypeOK
  <2> QED BY <1>1, <1>8, <2>1 DEF Record, LoseRecord, vars, runVars
<1>9. CASE Stop \/ Restart
  BY <1>2, <1>9 DEF Stop, Restart
<1>10. CASE ServerStep /\ UNCHANGED botVars
  <2>1. ASSUME NEW q \in requests, ExecDelete(q) PROVE OnceInv'
    BY <1>10, <2>1, ExecOnce DEF botVars
  <2>2. CASE UNCHANGED <<runVars, wireVars>>
    BY <1>1, <1>10, <2>2 DEF runVars, botVars
  <2> QED BY <1>10, <2>1, <2>2 DEF ServerStep
<1>11. CASE UNCHANGED allBotVars
  BY <1>2, <1>11 DEF allBotVars, botVars
<1> QED BY <1>3, <1>4, <1>5, <1>6, <1>7, <1>8, <1>9, <1>10, <1>11, ExitOnce DEF BotNext

\* An answer comes once the call has returned, with a record of its result.
Answered ==
  \A r \in Runs : outcome[r] = "answered" =>
    /\ pc[r] \in {"done", "aborted"}
    /\ \E a \in audit : a.run = r /\ a.result = Result(events[r])

LEMMA InitAnswered == BotInit => Answered
  BY DEF BotInit, Answered

(* A step of a call that has not returned, or none.                         *)
LEMMA AnsweredStays ==
  ASSUME Answered, audit \subseteq audit',
         \A r \in Runs : outcome'[r] = "answered" => outcome[r] = "answered",
         \A r \in Runs : pc[r] \in {"done", "aborted"} =>
           pc'[r] \in {"done", "aborted"} /\ events'[r] = events[r]
  PROVE  Answered'
  BY DEF Answered

\* A call that has returned takes no more steps.
LEMMA ReturnedRests ==
  ASSUME BotTyped, NEW r \in Runs, NEW s \in Runs, RunStep(r), pc[s] \in {"done", "aborted"}
  PROVE  pc'[s] = pc[s] /\ events'[s] = events[s]
<1>1. pc[r] \notin {"done", "aborted"}
  BY DEF RunStep, Abort, Finish, Release, Connect, ConnectFails, Visit, AtEntry,
     FailEntry, SkipEntry, FetchInfo, FetchNotFound, FetchFails, SpareProtected,
     SpareActive, WouldDelete, SendDelete, DeleteSucceeds, DeleteFails
<1> QED BY <1>1 DEF RunStep, Abort, Finish, Release, Connect, ConnectFails, Visit, AtEntry,
     FailEntry, SkipEntry, FetchInfo, FetchNotFound, FetchFails, SpareProtected,
     SpareActive, WouldDelete, SendDelete, DeleteSucceeds, DeleteFails, Settle,
     BotTyped, TypeInv, TypeOK

LEMMA NextAnswered ==
  BotTyped /\ Answered /\ [BotNext]_allBotVars => Answered'
<1> SUFFICES ASSUME BotTyped, Answered, [BotNext]_allBotVars PROVE Answered'
  OBVIOUS
<1>1. ASSUME UNCHANGED <<pc, events, outcome, audit>> PROVE Answered'
  BY <1>1, AnsweredStays
<1>2. ASSUME NEW r \in Runs, NEW k, Start(r, k), UNCHANGED <<outcome, audit>> PROVE Answered'
  <2>1. pc[r] = "idle" /\ events' = events /\ \A s \in Runs : s # r => pc'[s] = pc[s]
    BY <1>2 DEF Start, BotTyped, TypeInv, TypeOK
  <2>2. \A s \in Runs : pc[s] \in {"done", "aborted"} =>
          pc'[s] \in {"done", "aborted"} /\ events'[s] = events[s]
    BY <2>1
  <2> QED BY <1>2, <2>2, AnsweredStays
<1>3. ASSUME NEW j \in Jobs, Fire(j) \/ JobStep(j) PROVE Answered'
  <2>1. ASSUME NEW f \in Findings, NEW r \in Runs, AppliesFindings(j, f, r) PROVE Answered'
    BY <1>2, <2>1 DEF AppliesFindings
  <2> QED BY <1>1, <1>3, <2>1 DEF Fire, JobStep, ScanErrs, FindsNothing, FindsStale,
             BeginPut, EndPut, PutFails, Announce, vars, runVars
<1>4. ASSUME NEW r \in Runs, NEW l \in links, Approve(r, l) PROVE Answered'
  BY <1>2, <1>4 DEF Approve
<1>5. ASSUME NEW r \in Runs, NEW l \in links, ApproveNotFound(r, l) PROVE Answered'
  <2>1. \A s \in Runs : outcome'[s] = "answered" => outcome[s] = "answered"
    BY <1>5 DEF ApproveNotFound, BotTyped, BotTypeOK
  <2> QED BY <1>5, <2>1, AnsweredStays DEF ApproveNotFound, vars, runVars
<1>6. ASSUME NEW r \in Runs, HangUp(r) PROVE Answered'
  BY <1>1, <1>6 DEF HangUp, Cancel, botVars
<1>7. ASSUME NEW r \in Runs, Working(r) PROVE Answered'
  BY <1>7, ReturnedRests, AnsweredStays DEF Working, botVars
<1>8. ASSUME NEW r \in Runs, Record(r) PROVE Answered'
  <2>1. /\ pc[r] \in {"done", "aborted"} /\ UNCHANGED <<pc, events>>
        /\ audit' = audit \cup {[run |-> r, result |-> Result(events[r])]}
        /\ \A s \in Runs : s # r => outcome'[s] = outcome[s]
    BY <1>8 DEF Record, Returned, vars, runVars, BotTyped, BotTypeOK
  <2>2. PICK a : a = [run |-> r, result |-> Result(events[r])]
    OBVIOUS
  <2>3. a \in audit' /\ a.run = r /\ a.result = Result(events[r])
    BY <2>1, <2>2
  <2> QED BY <2>1, <2>3 DEF Answered
<1>9. ASSUME NEW r \in Runs, LoseRecord(r) PROVE Answered'
  <2>1. \A s \in Runs : outcome'[s] = "answered" => outcome[s] = "answered"
    BY <1>9 DEF LoseRecord, BotTyped, BotTypeOK
  <2> QED BY <1>9, <2>1, AnsweredStays DEF LoseRecord, vars, runVars
<1>10. CASE Stop \/ Restart
  BY <1>1, <1>10 DEF Stop, Restart, vars, runVars
<1>11. CASE Exit
  <2>1. \A s \in Runs : outcome'[s] = "answered" => outcome[s] = "answered"
    BY <1>11 DEF Exit, BotTyped, BotTypeOK
  <2>2. \A s \in Runs : pc[s] \in {"done", "aborted"} => pc'[s] \in {"done", "aborted"}
    BY <1>11 DEF Exit
  <2> QED BY <1>11, <2>1, <2>2, AnsweredStays DEF Exit
<1>12. CASE ServerStep /\ UNCHANGED botVars
  BY <1>1, <1>12 DEF ServerStep, ExecDelete, runVars, botVars
<1>13. CASE UNCHANGED allBotVars
  BY <1>1, <1>13 DEF allBotVars, botVars, vars, runVars
<1> QED BY <1>3, <1>4, <1>5, <1>6, <1>7, <1>8, <1>9, <1>10, <1>11, <1>12, <1>13 DEF BotNext

(* Each removal has an event of its own, which counts as deleted or failed. *)
LEMMA RemovalsCounted ==
  ASSUME BotTyped, OnceInv, NEW r \in Runs, pc[r] \in {"done", "aborted"},
         outcome[r] # "killed"
  PROVE  Cardinality({d \in deletions : d.run = r})
           <= Result(events[r]).deleted + Result(events[r]).failed
<1> DEFINE D == {d \in deletions : d.run = r}
           U == DOMAIN events[r]
           A == {"DELETED", "WOULD"}
           B == {"FAIL", "CONN"}
           E == {i \in U : events[r][i].action \in A \cup B}
           Own(d, i) == events[r][i].entry = d.entry
           f == [d \in D |-> CHOOSE i \in E : Own(d, i)]
<1>1. ASSUME NEW d \in D PROVE f[d] \in E /\ Own(d, f[d])
  <2>1. Accounted(d)
    BY DEF OnceInv, InEvents
  <2>2. \E i \in E : Own(d, i)
    BY <2>1 DEF Accounted
  <2> QED BY <2>2
<1>2. ASSUME NEW d \in D, NEW e \in D, f[d] = f[e] PROVE d = e
  <2>1. Own(d, f[d]) /\ Own(e, f[e])
    BY <1>1
  <2>2. d.entry = e.entry /\ d.run = e.run
    <3> HIDE DEF f
    <3> QED BY <1>2, <2>1
  <2> QED BY <2>2 DEF OnceInv, AskedOnce, SameEntry
<1>3. f \in Injection(D, E)
  <2>1. f \in [D -> E]
    BY <1>1
  <2> HIDE DEF f
  <2> QED BY <1>2, <2>1 DEF Injection, IsInjective
<1>4. PICK evs \in Seq(Event) : evs = events[r]
  BY DEF BotTyped, TypeInv, TypeOK
<1>5. IsFiniteSet(E)
  <2>1. IsFiniteSet(U) /\ E \in SUBSET U
    BY <1>4, CountWhole
  <2> QED BY <2>1, FS_Subset, Zenon
<1> HIDE DEF f, D, E
<1>6. Cardinality(D) <= Cardinality(E)
  BY <1>3, <1>5, FS_Injection
<1>7. Cardinality(E) = Result(events[r]).deleted + Result(events[r]).failed
  <2>1. Count(evs, A \cup B) = Count(evs, A) + Count(evs, B)
    BY CountDisjoint
  <2>2. Count(evs, A \cup B) = Cardinality(E)
    BY <1>4 DEF Count, E
  <2> QED BY <1>4, <2>1, <2>2 DEF Result
<1> QED BY <1>6, <1>7 DEF D

(* However late the servers act, and however the call ended, what an        *)
(* answered Apply removed has room in the tally of its record               *)
(* (serve.go:559, approve.go:118-137).                                      *)
THEOREM RemovalsAlwaysRecorded == BotSpec => []RemovalsRecorded
<1>1. BotTyped /\ OnceInv /\ Answered => RemovalsRecorded
  <2> SUFFICES ASSUME BotTyped, OnceInv, Answered, NEW r \in Runs, outcome[r] = "answered"
               PROVE  \E a \in audit :
                        /\ a.run = r
                        /\ Cardinality({d \in deletions : d.run = r})
                             <= a.result.deleted + a.result.failed
    BY DEF RemovalsRecorded
  <2>1. PICK a \in audit : a.run = r /\ a.result = Result(events[r])
    BY DEF Answered
  <2>2. Cardinality({d \in deletions : d.run = r})
          <= Result(events[r]).deleted + Result(events[r]).failed
    BY RemovalsCounted DEF Answered
  <2> QED BY <2>1, <2>2
<1>2. BotSpec => [](BotTyped /\ LinkInv /\ TraceInv /\ OnceInv /\ Answered)
  BY InitBotTyped, NextBotTyped, InitLinkInv, NextLinkInv, InitTraceInv, NextTraceInv,
     InitOnce, NextOnce, InitAnswered, NextAnswered, PTL DEF BotSpec
<1> QED BY <1>1, <1>2, PTL
=============================================================================

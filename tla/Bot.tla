---------------------------------- MODULE Bot ----------------------------------
(***************************************************************************)
(* `bot serve`: scheduled and chat scans store the manifests they build    *)
(* and announce an approval link, or apply them at once (auto_delete);     *)
(* whoever follows a link has the stored manifest applied.  Jobs overlap,  *)
(* approvals overlap, and the process may stop, die and start again at any *)
(* moment; the store and the audit log survive it.                         *)
(*                                                                         *)
(* A scan is one step here (Scanner has its detail); every Apply is a call *)
(* of Cleanup, step by step.                                               *)
(***************************************************************************)
EXTENDS Cleanup

CONSTANTS
  Jobs,         \* the firings of schedules and the chat scans of a behaviour
  Name,         \* the schedule, or chat-<context>, of each job
  AutoDelete,   \* the jobs of schedules with auto_delete
  Findings,     \* the entries a scan may come up with
  BotGuard,     \* the Protector built at boot
  Absent, Truncated,    \* the states of a file that holds no manifest
  NoManifest, NoId, NoOrigin

VARIABLES
  status,     \* of the process: "up", "stopping" or "down"
  job,        \* where each job is
  found,      \* the manifest a job has built
  id,         \* the ID it stores it under
  file,       \* the store: the content of <id>.yaml
  links,      \* history: the announced approval links
  origin,     \* the link, or the auto_delete job, behind each Apply
  outcome,    \* how each Apply ended for whoever asked for it
  audit       \* the audit log: its records of Applies

botVars == <<status, job, found, id, file, links, origin, outcome, audit>>
jobVars == <<job, found, id>>
allBotVars == <<vars, botVars>>

ASSUME JobsAssumption == AutoDelete \subseteq Jobs /\ << >> \notin Findings
ASSUME FindingsAssumption == Findings \subseteq Seq(Entry)
ASSUME BotGuardAssumption == BotGuard \in Guards \cup {NoProtector}
ASSUME StartAssumption == StartTime <= MaxTime

\* The second a manifest is stored in is part of its ID, and all that tells
\* two manifests of one schedule apart.
Ids == {Name[j] : j \in Jobs} \X (0 .. MaxTime)

ManifestId(j) == <<Name[j], clock>>

Built(entries) == [generatedAt |-> clock, entries |-> entries]

Link == [id : Ids, job : Jobs]

\* The absence of a thing is not such a thing.
ASSUME AbsenceAssumption ==
  /\ NoId \notin Ids
  /\ NoManifest \notin Manifest /\ {Absent, Truncated} \cap Manifest = {}
  /\ NoOrigin \notin Jobs /\ NoOrigin \notin Link /\ Jobs \cap Link = {}

-----------------------------------------------------------------------------
BotInit ==
  /\ Init
  /\ status = "up"
  /\ job = [j \in Jobs |-> "idle"]
  /\ found = [j \in Jobs |-> NoManifest]
  /\ id = [j \in Jobs |-> NoId]
  /\ file = [i \in Ids |-> Absent]
  /\ links = {}
  /\ origin = [r \in Runs |-> NoOrigin]
  /\ outcome = [r \in Runs |-> "none"]
  /\ audit = {}

\* The cron clock, or a chat command, starts a scan.
Fire(j) ==
  /\ status = "up" /\ job[j] = "idle"
  /\ job' = [job EXCEPT ![j] = "scanning"]
  /\ UNCHANGED <<vars, status, found, id, file, links, origin, outcome, audit>>

\* No connection, or Scan returns an error: only the process log says so.
ScanErrs(j) ==
  /\ status # "down" /\ job[j] = "scanning"
  /\ job' = [job EXCEPT ![j] = "failed"]
  /\ UNCHANGED <<vars, status, found, id, file, links, origin, outcome, audit>>

FindsNothing(j) ==
  /\ status # "down" /\ job[j] = "scanning"
  /\ job' = [job EXCEPT ![j] = "done"]
  /\ UNCHANGED <<vars, status, found, id, file, links, origin, outcome, audit>>

\* Mutant: the ID is assigned to a variable that shadows the one used.
FindsStaleUnnamed(j, entries) ==
  /\ status # "down" /\ job[j] = "scanning" /\ j \notin AutoDelete
  /\ found' = [found EXCEPT ![j] = Built(entries)]
  /\ job' = [job EXCEPT ![j] = "storing"]
  /\ UNCHANGED <<vars, status, id, file, links, origin, outcome, audit>>

FindsStale(j, entries) ==
  /\ status # "down" /\ job[j] = "scanning" /\ j \notin AutoDelete
  /\ found' = [found EXCEPT ![j] = Built(entries)]
  /\ id' = [id EXCEPT ![j] = ManifestId(j)]
  /\ job' = [job EXCEPT ![j] = "storing"]
  /\ UNCHANGED <<vars, status, file, links, origin, outcome, audit>>

\* Mutant: every schedule is taken for one with auto_delete.
AppliesUnasked(j, entries, r) ==
  /\ status # "down" /\ job[j] = "scanning"
  /\ origin[r] = NoOrigin
  /\ found' = [found EXCEPT ![j] = Built(entries)]
  /\ origin' = [origin EXCEPT ![r] = j]
  /\ job' = [job EXCEPT ![j] = "applying"]
  /\ Start(r, [manifest |-> Built(entries), dryRun |-> FALSE, guard |-> BotGuard])
  /\ UNCHANGED <<status, id, file, links, outcome, audit>>

\* autoDelete: Apply at once, in the job's own goroutine.
AppliesFindings(j, entries, r) ==
  /\ status # "down" /\ job[j] = "scanning" /\ j \in AutoDelete
  /\ origin[r] = NoOrigin
  /\ found' = [found EXCEPT ![j] = Built(entries)]
  /\ origin' = [origin EXCEPT ![r] = j]
  /\ job' = [job EXCEPT ![j] = "applying"]
  /\ Start(r, [manifest |-> Built(entries), dryRun |-> FALSE, guard |-> BotGuard])
  /\ UNCHANGED <<status, id, file, links, outcome, audit>>

-----------------------------------------------------------------------------
(* store.File.Put: os.WriteFile truncates, then writes, under f.mu.  A     *)
(* file that was not written to its end is taken to be unparsable.         *)

\* Mutant: a Put that fails never gives the mutex back.
LockedForEver ==
  \E j \in Jobs : job[j] = "writing" \/ (job[j] = "failed" /\ id[j] # NoId)

Locked == \E j \in Jobs : job[j] = "writing"

BeginPut(j) ==
  /\ status # "down" /\ job[j] = "storing" /\ ~Locked
  /\ file' = [file EXCEPT ![id[j]] = Truncated]
  /\ job' = [job EXCEPT ![j] = "writing"]
  /\ UNCHANGED <<vars, status, found, id, links, origin, outcome, audit>>

EndPut(j) ==
  /\ status # "down" /\ job[j] = "writing"
  /\ file' = [file EXCEPT ![id[j]] = found[j]]
  /\ job' = [job EXCEPT ![j] = "announcing"]
  /\ UNCHANGED <<vars, status, found, id, links, origin, outcome, audit>>

\* Mutant: a manifest that could not be stored is announced all the same.
PutFailsUnnoticed(j) ==
  /\ status # "down" /\ job[j] \in {"storing", "writing"}
  /\ job' = [job EXCEPT ![j] = "announcing"]
  /\ UNCHANGED <<vars, status, found, id, file, links, origin, outcome, audit>>

\* The directory is gone, the disk is full.  (A name that makes no valid ID
\* fails before the mutex is taken, with no other effect.)
PutFails(j) ==
  /\ status # "down" /\ job[j] \in {"storing", "writing"}
  /\ job[j] = "storing" => ~Locked
  /\ job' = [job EXCEPT ![j] = "failed"]
  /\ UNCHANGED <<vars, status, found, id, file, links, origin, outcome, audit>>

\* The signed link is posted.
Announce(j) ==
  /\ status # "down" /\ job[j] = "announcing"
  /\ links' = links \cup {[id |-> id[j], job |-> j]}
  /\ job' = [job EXCEPT ![j] = "done"]
  /\ UNCHANGED <<vars, status, found, id, file, origin, outcome, audit>>

-----------------------------------------------------------------------------
(* POST /approve/{id}: f.mu is not taken to read the file.                 *)

Readable(i) == file[i] \notin {Absent, Truncated}

Approve(r, l) ==
  /\ status = "up" /\ l \in links /\ origin[r] = NoOrigin
  /\ Readable(l.id)
  /\ origin' = [origin EXCEPT ![r] = l]
  /\ Start(r, [manifest |-> file[l.id], dryRun |-> FALSE, guard |-> BotGuard])
  /\ UNCHANGED <<status, jobVars, file, links, outcome, audit>>

\* The file is missing or unparsable: 404, and no record.
ApproveNotFound(r, l) ==
  /\ status = "up" /\ l \in links /\ origin[r] = NoOrigin
  /\ ~Readable(l.id)
  /\ origin' = [origin EXCEPT ![r] = l]
  /\ outcome' = [outcome EXCEPT ![r] = "refused"]
  /\ UNCHANGED <<vars, status, jobVars, file, links, audit>>

\* The HTTP client hangs up; a scheduled job's context is never cancelled.
HangUp(r) ==
  /\ status # "down" /\ origin[r] \in links
  /\ Cancel(r)
  /\ UNCHANGED botVars

Working(r) == status # "down" /\ RunStep(r) /\ UNCHANGED botVars

Returned(r) == pc[r] \in {"done", "aborted"} /\ outcome[r] = "none"

\* Mutant: an Apply that ends in an error answers without a record.
RecordSuccessOnly(r) ==
  /\ status # "down" /\ Returned(r)
  /\ outcome' = [outcome EXCEPT ![r] = "answered"]
  /\ audit' = IF pc[r] = "aborted" THEN audit
              ELSE audit \cup {[run |-> r, result |-> Result(events[r])]}
  /\ job' = IF origin[r] \in Jobs THEN [job EXCEPT ![origin[r]] = "done"] ELSE job
  /\ UNCHANGED <<vars, status, found, id, file, links, origin>>

\* Mutant: only an Apply that did something is answered.
RecordIfDeleted(r) ==
  /\ status # "down" /\ Returned(r) /\ Result(events[r]).deleted > 0
  /\ outcome' = [outcome EXCEPT ![r] = "answered"]
  /\ audit' = audit \cup {[run |-> r, result |-> Result(events[r])]}
  /\ job' = IF origin[r] \in Jobs THEN [job EXCEPT ![origin[r]] = "done"] ELSE job
  /\ UNCHANGED <<vars, status, found, id, file, links, origin>>

\* Apply has returned, with or without an error: record it, then answer.
Record(r) ==
  /\ status # "down" /\ Returned(r)
  /\ outcome' = [outcome EXCEPT ![r] = "answered"]
  /\ audit' = audit \cup {[run |-> r, result |-> Result(events[r])]}
  /\ job' = IF origin[r] \in Jobs THEN [job EXCEPT ![origin[r]] = "done"] ELSE job
  /\ UNCHANGED <<vars, status, found, id, file, links, origin>>

\* The record could not be written; the error is dropped.
LoseRecord(r) ==
  /\ status # "down" /\ Returned(r)
  /\ outcome' = [outcome EXCEPT ![r] = "unrecorded"]
  /\ job' = IF origin[r] \in Jobs THEN [job EXCEPT ![origin[r]] = "done"] ELSE job
  /\ UNCHANGED <<vars, status, found, id, file, links, origin, audit>>

-----------------------------------------------------------------------------
(* The process.                                                            *)

\* SIGTERM: no new jobs, no new requests.
Stop ==
  /\ status = "up"
  /\ status' = "stopping"
  /\ UNCHANGED <<vars, jobVars, file, links, origin, outcome, audit>>

Busy(j) == job[j] \notin {"idle", "done", "failed"}
Unanswered(r) == pc[r] # "idle" /\ outcome[r] = "none"

\* The process exits, having waited for the jobs (30 seconds at most) and
\* not for the approvals, or dies: whatever was under way ends where it is.
Exit ==
  /\ status # "down"
  /\ status' = "down"
  /\ job' = [j \in Jobs |-> IF Busy(j) THEN "failed" ELSE job[j]]
  /\ outcome' = [r \in Runs |-> IF Unanswered(r) THEN "killed" ELSE outcome[r]]
  /\ pc' = [r \in Runs |-> IF Unanswered(r) THEN "aborted" ELSE pc[r]]
  /\ UNCHANGED <<serverVars, call, cancelled, todo, left, info, events, wireVars,
                 found, id, file, links, origin, audit>>

Restart ==
  /\ status = "down"
  /\ status' = "up"
  /\ UNCHANGED <<vars, jobVars, file, links, origin, outcome, audit>>

JobStep(j) ==
  \/ ScanErrs(j) \/ FindsNothing(j)
  \/ \E f \in Findings : FindsStale(j, f) \/ \E r \in Runs : AppliesFindings(j, f, r)
  \/ BeginPut(j) \/ EndPut(j) \/ PutFails(j) \/ Announce(j)

BotNext ==
  \/ \E j \in Jobs : Fire(j) \/ JobStep(j)
  \/ \E r \in Runs :
       \/ \E l \in links : Approve(r, l) \/ ApproveNotFound(r, l)
       \/ HangUp(r) \/ Working(r) \/ Record(r) \/ LoseRecord(r)
  \/ Stop \/ Exit \/ Restart
  \/ ServerStep /\ UNCHANGED botVars

BotSpec == BotInit /\ [][BotNext]_allBotVars

\* A running Apply goes on and its result is recorded; jobs go on as well.
FairBotSpec ==
  /\ BotSpec
  /\ \A j \in Jobs : WF_allBotVars(JobStep(j))
  /\ \A r \in Runs : WF_allBotVars(Working(r)) /\ WF_allBotVars(Record(r))
-----------------------------------------------------------------------------
(* Properties.                                                             *)

BotTypeOK ==
  /\ status \in {"up", "stopping", "down"}
  /\ job \in [Jobs -> {"idle", "scanning", "storing", "writing", "announcing",
                       "applying", "done", "failed"}]
  /\ \A j \in Jobs : found[j] = NoManifest \/ found[j] \in Manifest
  /\ id \in [Jobs -> Ids \cup {NoId}]
  /\ DOMAIN file = Ids
  /\ \A i \in Ids : file[i] \in {Absent, Truncated} \/ file[i] \in Manifest
  /\ links \subseteq Link
  /\ origin \in [Runs -> Link \cup Jobs \cup {NoOrigin}]
  /\ outcome \in [Runs -> {"none", "refused", "answered", "unrecorded", "killed"}]

(* An announced link leads to a manifest for ever, across restarts, unless   *)
(* a later scan of the same schedule in the same second has started to       *)
(* write over it (serve.go:529-536, file.go:62-81).                          *)
LinksResolve ==
  \A l \in links :
    Readable(l.id) \/ \E j \in Jobs : /\ j # l.job /\ id[j] = l.id
                                      /\ job[j] \in {"writing", "failed"}

(* Every removal goes back to a scan that listed the consumer, and to a link *)
(* of the same schedule that somebody followed, unless the schedule has      *)
(* auto_delete (serve.go:525-536, approve.go:95-116).                        *)
RemovalsTraceable ==
  \A d \in deletions :
    \E j \in Jobs :
      /\ found[j] = call[d.run].manifest
      /\ \E i \in DOMAIN found[j].entries : At(found[j].entries[i]) = d.at
      /\ \/ j \in AutoDelete /\ origin[d.run] = j
         \/ \E l \in links : l = origin[d.run] /\ Name[l.job] = Name[j]

(* What an answered Apply removed is in the audit log, in a record whose     *)
(* tally has room for it, error or not, however late the servers execute the *)
(* requests (serve.go:559, approve.go:118-137).                              *)
RemovalsRecorded ==
  \A r \in Runs : outcome[r] = "answered" =>
    \E a \in audit :
      /\ a.run = r
      /\ Cardinality({d \in deletions : d.run = r}) <= a.result.deleted + a.result.failed

(* Whoever asks for an Apply gets an answer, unless the process ends.        *)
ApplyAnswered == \A r \in Runs : pc[r] = "loop" ~> outcome[r] # "none"

(* A scan ends, with or without a link: nobody waits for the store's mutex   *)
(* for ever (file.go:68-69), so that shutdown has something to wait for.     *)
JobsEnd == \A j \in Jobs : job[j] = "scanning" ~> job[j] \in {"done", "failed"}

(* README.md:286: a link can only approve the one manifest it was issued for. *)
LinkApprovesItsManifest ==
  \A r \in Runs : pc[r] # "idle" /\ origin[r] \in links =>
    call[r].manifest = found[origin[r].job]
=============================================================================

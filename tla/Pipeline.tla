------------------------------- MODULE Pipeline -------------------------------
(***************************************************************************)
(* From scan to deletion without a human between: `consumer scan --delete` *)
(* and an auto_delete schedule scan a cluster, build a manifest and hand   *)
(* it to Apply at once.  An approved manifest takes the same way, later.   *)
(* Composes Scanner and Cleanup over one set of live consumers.            *)
(***************************************************************************)
EXTENDS Scanner, Cleanup

\* The protector that the scan consults is the one given to Apply.
ASSUME ScanGuardAssumption == ScanGuard \in Guards \cup {NoProtector}

allVars == <<serverVars, scanVars, runVars, wireVars>>

PipelineInit == Init /\ ScanInit

Scanning == ScanStep /\ UNCHANGED <<serverVars, runVars, wireVars>>

\* deleteStale: an empty proposal is not applied; --dry-run is a choice.
CliApplies(r) ==
  /\ request.caller = "cli"
  /\ phase = "proposed" /\ proposal.entries # << >>
  /\ \E dry \in BOOLEAN :
       Start(r, [manifest |-> proposal, dryRun |-> dry, guard |-> ScanGuard])
  /\ UNCHANGED scanVars

\* autoDelete: the same, and never a dry run.
BotApplies(r) ==
  /\ request.caller = "bot"
  /\ phase = "proposed" /\ proposal.entries # << >>
  /\ Start(r, [manifest |-> proposal, dryRun |-> FALSE, guard |-> ScanGuard])
  /\ UNCHANGED scanVars

\* Only the CLI's context can be cancelled: a scheduled job's is Background.
Interrupt(r) == request.caller = "cli" /\ Cancel(r) /\ UNCHANGED scanVars
Applying(r) == RunStep(r) /\ UNCHANGED scanVars

Rest ==
  /\ phase = "failed" \/ (phase = "proposed" /\ proposal.entries = << >>)
     \/ \A r \in Runs : pc[r] \in {"done", "aborted"}
  /\ UNCHANGED allVars

PipelineNext ==
  \/ Scanning
  \/ \E r \in Runs : CliApplies(r) \/ BotApplies(r) \/ Interrupt(r) \/ Applying(r)
  \/ ServerStep /\ UNCHANGED scanVars
  \/ Rest

PipelineSpec == PipelineInit /\ [][PipelineNext]_allVars

FairPipelineSpec ==
  /\ PipelineSpec
  /\ WF_allVars(Scanning)
  /\ \A r \in Runs : /\ WF_allVars(CliApplies(r) \/ BotApplies(r))
                    /\ WF_allVars(Applying(r))

-----------------------------------------------------------------------------
\* The request removes the very consumer that was there before the scan, and
\* nothing has happened to it since Apply inspected it.
RemovesSettled(q) == Executed(q) /\ live[q.at] = q.seen /\ Settled(q.at)

(* Classification and re-verification together (scanner.go:241-251,         *)
(* cleanup.go:292-308): a consumer that existed before the scan and is       *)
(* removed as inspected is neither bound nor polled, had not acknowledged    *)
(* anything in the MinIdle before the scan, nor after the manifest was       *)
(* stamped; what it acknowledged while the scan ran goes unnoticed.          *)
RemovedWasIdle ==
  [][\A q \in requests : RemovesSettled(q) =>
       LET c == live[q.at] IN
         /\ ~c.bound /\ c.waiting = 0
         /\ \/ c.lastAck = 0
            \/ c.lastAck + MinIdle <= now
            \/ now <= c.lastAck /\ c.lastAck <= proposal.generatedAt]_allVars

(* Nothing outside what the scan saw as stale is ever asked to be deleted.   *)
OnlyStaleRequested ==
  \A q \in requests :
    \E i \in DOMAIN rows :
      /\ <<Home, rows[i].stream, rows[i].consumer>> = q.at
      /\ rows[i].status = "STALE" /\ rows[i].pending >= MinPending

(* Scan and apply both end.                                                  *)
PipelineEnds ==
  phase = "walk" ~> \/ phase = "failed"
                    \/ phase = "proposed" /\ proposal.entries = << >>
                    \/ \A r \in Runs : pc[r] \in {"done", "aborted"}

(* README.md:42: a consumer that woke up since the scan is preserved.        *)
WokenUpPreserved ==
  [][\A q \in requests : RemovesSettled(q) => live[q.at].lastAck <= now]_allVars
=============================================================================

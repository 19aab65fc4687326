------------------------------- MODULE Scanner -------------------------------
(***************************************************************************)
(* internal/scanner: Scan walks the streams of one cluster, classifies     *)
(* every consumer it finds, detects renames, applies the reporting         *)
(* thresholds and asks the peer cluster about what is left; then one of    *)
(* the three callers turns the rows into a manifest.  Each consumer is     *)
(* queried at its own moment, while the applications go on.                *)
(***************************************************************************)
EXTENDS Manifest, Protect, Integers, FiniteSets, SequencesExt

CONSTANTS
  Home,          \* the cluster scanned
  NoPeer,
  Requests,      \* the scans somebody may ask for
  Unset,         \* a flag or a setting that is not given
  DayIdle,       \* 24 hours: the built-in min_idle, and the chat's
  ChatMinPending,      \* the chat's min_pending
  ContextPeer,   \* contexts.<Home>.peer of the configuration
  ScanGuard,     \* the Protector built from the configuration
  FilterOf,      \* the normalised filter subject of each stream and consumer
  NoFilter,
  NoName         \* the consumer of a stream-level row

VARIABLES
  phase,     \* where the scan is
  now,       \* the time read once, before the walk
  streams,   \* streams still to be walked
  names,     \* ConsumerNames of the stream under way, still to be classified
  current,   \* the stream under way
  all,       \* every row, in the order found
  next,      \* the row of all to report next
  rows,      \* what Scan returns
  request,   \* who asked for the scan, and with what
  proposal   \* the manifest built from rows

scanVars == <<phase, now, streams, names, current, all, next, rows, request, proposal>>

-----------------------------------------------------------------------------
(* Options.  A flag of the command line overrides the environment, which    *)
(* overrides the file, which overrides what is built in; a schedule has its *)
(* own fields, zero where it gives none; the chat has constants.            *)
Thresholds == [minPending : Nat \cup {Unset}, minIdle : Nat \cup {Unset}]

\* A request comes with the defaults.* of the file and of the environment.
Request ==
  [caller : {"cli", "bot", "chat", "owner"}, stream : Streams \cup {AnyName},
   minPending : Nat \cup {Unset}, minIdle : Nat \cup {Unset},
   peer : Clusters \cup {Unset}, file : Thresholds, env : Thresholds]

ASSUME RequestsAssumption == Requests \subseteq Request
ASSUME ThresholdsAssumption == {DayIdle, ChatMinPending} \subseteq Nat
ASSUME HomeAssumption ==
  Home \in Clusters /\ ContextPeer \in Clusters \cup {NoPeer} /\ NoName \notin Consumers

Given(value, default) == IF value = Unset THEN default ELSE value

\* Mutants: the file overrides the environment; nothing is built in.
DefaultsOfFileFirst ==
  [minPending |-> Given(request.file.minPending, Given(request.env.minPending, 0)),
   minIdle    |-> Given(request.file.minIdle, Given(request.env.minIdle, DayIdle))]
DefaultsLost ==
  [minPending |-> Given(request.env.minPending, Given(request.file.minPending, 0)),
   minIdle    |-> Given(request.env.minIdle, Given(request.file.minIdle, 0))]

Defaults ==
  [minPending |-> Given(request.env.minPending, Given(request.file.minPending, 0)),
   minIdle    |-> Given(request.env.minIdle, Given(request.file.minIdle, DayIdle))]

CliOptions(q) ==
  [minPending |-> Given(q.minPending, Defaults.minPending),
   minIdle    |-> Given(q.minIdle, Defaults.minIdle),
   peer       |-> Given(q.peer, ContextPeer),
   protect    |-> ScanGuard]

ScheduleOptions(q) ==
  [minPending |-> Given(q.minPending, 0),
   minIdle    |-> Given(q.minIdle, 0),
   peer       |-> Given(q.peer, NoPeer),
   protect    |-> ScanGuard]

ChatOptions ==
  [minPending |-> ChatMinPending, minIdle |-> DayIdle,
   peer |-> NoPeer, protect |-> NoProtector]

\* `consumer owner` classifies by the defaults.
OwnerOptions ==
  [minPending |-> 0, minIdle |-> Defaults.minIdle,
   peer |-> NoPeer, protect |-> NoProtector]

Options ==
  CASE request.caller = "cli" -> CliOptions(request)
    [] request.caller = "bot" -> ScheduleOptions(request)
    [] request.caller = "chat" -> ChatOptions
    [] request.caller = "owner" -> OwnerOptions

OnlyStream == request.stream
MinPending == Options.minPending
MinIdle == Options.minIdle
Peer == Options.peer

-----------------------------------------------------------------------------
Wanted == {s \in Streams : OnlyStream = AnyName \/ s = OnlyStream}

InUseNow(c) == c.bound \/ c.waiting > 0

\* Mutant: the comparison with MinIdle the wrong way round.
RecentAckInverted(c) == c.lastAck # 0 /\ now - c.lastAck > MinIdle

RecentAck(c) == c.lastAck # 0 /\ now - c.lastAck < MinIdle

Status(c) ==
  IF InUseNow(c) \/ RecentAck(c) THEN "ACTIVE"
  ELSE IF c.pending = 0 /\ c.lastAck = 0 THEN "OK" ELSE "STALE"

\* Idle is measured from the last ack, or from the creation without one.
Idle(c) == now - (IF c.lastAck # 0 THEN c.lastAck ELSE c.created)

ErrorRow(s, n) ==
  [stream |-> s, consumer |-> n, status |-> "ERR", pending |-> 0, lastAck |-> 0,
   idle |-> 0, filter |-> NoFilter, managed |-> "", renamedTo |-> NoName, peer |-> ""]

ClassifiedRow(s, n, c) ==
  [stream |-> s, consumer |-> n, status |-> Status(c), pending |-> c.pending,
   lastAck |-> c.lastAck, idle |-> Idle(c), filter |-> FilterOf[<<s, n>>],
   managed |-> Reason(Options.protect, s, n, c.meta), renamedTo |-> NoName, peer |-> ""]

\* Mutant: the last successor found wins, however old its ack.
SuccessorsLastWins(rs, s, f) ==
  FoldLeft(LAMBDA best, r :
             IF r.status # "ACTIVE" \/ r.stream # s \/ r.filter # f THEN best ELSE <<r>>,
           << >>, rs)

Heir(r, s, f) == r.status = "ACTIVE" /\ r.stream = s /\ r.filter = f
Outdone(r, best) == best # << >> /\ r.lastAck <= best[1].lastAck

\* detectRenames: for each stream and filter the most recently active of its
\* ACTIVE rows, the first found when several are equally recent.
Successors(rs, s, f) ==
  LET best[i \in 0 .. Len(rs)] ==
        IF i = 0 THEN << >>
        ELSE IF Heir(rs[i], s, f) /\ ~Outdone(rs[i], best[i - 1]) THEN <<rs[i]>>
        ELSE best[i - 1]
  IN  best[Len(rs)]

DetectRenames(rs) ==
  [i \in DOMAIN rs |->
     LET found == Successors(rs, rs[i].stream, rs[i].filter) IN
     IF /\ rs[i].status = "STALE" /\ rs[i].filter # NoFilter
        /\ found # << >>
        /\ found[1].consumer # rs[i].consumer
     THEN [rs[i] EXCEPT !.renamedTo = found[1].consumer]
     ELSE rs[i]]

\* Mutant: the backlog does not matter.
MeetsThresholdsAlways(r) == TRUE

MeetsThresholds(r) == r.status = "ACTIVE" \/ r.pending >= MinPending

Reported(r) == (r.status = "ERR" /\ r.consumer = NoName) \/ MeetsThresholds(r)

\* A row of the peer, by what the peer's server answers.
PeerStatus(c) ==
  IF ~c.exists THEN "ABSENT"
  ELSE IF InUseNow(c) \/ RecentAck(c) THEN "ACTIVE" ELSE "STALE"

\* Mutants: nobody looks at Managed; whatever is not alive is listed.
CliProposesManaged(r) == r.status = "STALE"
CliProposesUnlessAlive(r) == r.status \notin {"ACTIVE", "OK"} /\ r.managed = ""

\* The three copies of buildManifest: only the CLI's leaves out what an
\* external controller manages.
CliProposes(r) == r.status = "STALE" /\ r.managed = ""
BotProposes(r) == r.status = "STALE"
ChatProposes(r) == r.status = "STALE"

Proposed(r) ==
  \/ request.caller = "cli" /\ CliProposes(r)
  \/ request.caller = "bot" /\ BotProposes(r)
  \/ request.caller = "chat" /\ ChatProposes(r)

\* The rows proposed, in their order.
ProposedRows(rs) ==
  LET kept[i \in 0 .. Len(rs)] ==
        IF i = 0 THEN << >>
        ELSE IF Proposed(rs[i]) THEN Append(kept[i - 1], rs[i]) ELSE kept[i - 1]
  IN  kept[Len(rs)]

BuildManifest(rs) ==
  LET stale == ProposedRows(rs) IN
  [generatedAt |-> clock,
   entries |-> [i \in DOMAIN stale |->
                  [cluster |-> Home, stream |-> stale[i].stream,
                   consumer |-> stale[i].consumer, skip |-> FALSE]]]

NoProposal == [generatedAt |-> 0, entries |-> << >>]

-----------------------------------------------------------------------------
ScanInit ==
  /\ phase = "idle"
  /\ now = 0
  /\ streams = {}
  /\ names = {}
  /\ current = NoName
  /\ all = << >>
  /\ next = 1
  /\ rows = << >>
  /\ request \in Requests
  /\ proposal = NoProposal

\* The cluster is reached and lists its streams; the clock is read.
BeginScan ==
  /\ phase = "idle"
  /\ phase' = "walk"
  /\ now' = clock
  /\ streams' = Wanted
  /\ UNCHANGED <<names, current, all, next, rows, request, proposal>>

\* No connection, no manager or no stream names: Scan returns an error.
ScanFails ==
  /\ phase = "idle"
  /\ phase' = "failed"
  /\ UNCHANGED <<now, streams, names, current, all, next, rows, request, proposal>>

\* The two-minute context ended; it is looked at before each stream only.
ScanExpires ==
  /\ phase = "walk" /\ streams # {}
  /\ phase' = "failed"
  /\ UNCHANGED <<now, streams, names, current, all, next, rows, request, proposal>>

ListConsumers(s) ==
  /\ phase = "walk" /\ s \in streams
  /\ phase' = "stream"
  /\ streams' = streams \ {s}
  /\ current' = s
  /\ names' = {n \in Consumers : live[<<Home, s, n>>].exists}
  /\ UNCHANGED <<now, all, next, rows, request, proposal>>

\* LoadStream or ConsumerNames failed: a row for the stream itself.
StreamFails(s) ==
  /\ phase = "walk" /\ s \in streams
  /\ streams' = streams \ {s}
  /\ all' = Append(all, ErrorRow(s, NoName))
  /\ UNCHANGED <<phase, now, names, current, next, rows, request, proposal>>

Classify(n) ==
  /\ phase = "stream" /\ n \in names
  /\ live[<<Home, current, n>>].exists
  /\ names' = names \ {n}
  /\ all' = Append(all, ClassifiedRow(current, n, live[<<Home, current, n>>]))
  /\ UNCHANGED <<phase, now, streams, current, next, rows, request, proposal>>

\* Mutants: a consumer that could not be queried leaves no row; it is queried
\* until it answers.
ClassifyFailsSilently(n) ==
  /\ phase = "stream" /\ n \in names
  /\ names' = names \ {n}
  /\ UNCHANGED <<phase, now, streams, current, all, next, rows, request, proposal>>
ClassifyFailsRetried(n) ==
  /\ phase = "stream" /\ n \in names
  /\ UNCHANGED scanVars

\* The consumer is gone by now, or could not be queried.
ClassifyFails(n) ==
  /\ phase = "stream" /\ n \in names
  /\ names' = names \ {n}
  /\ all' = Append(all, ErrorRow(current, n))
  /\ UNCHANGED <<phase, now, streams, current, next, rows, request, proposal>>

StreamDone ==
  /\ phase = "stream" /\ names = {}
  /\ phase' = "walk"
  /\ UNCHANGED <<now, streams, names, current, all, next, rows, request, proposal>>

MarkRenames ==
  /\ phase = "walk" /\ streams = {}
  /\ phase' = "report"
  /\ all' = DetectRenames(all)
  /\ UNCHANGED <<now, streams, names, current, next, rows, request, proposal>>

\* Mutant: any error of the peer reads as "not found".
AnswersOfPeerAbsentOnError(r) ==
  IF Peer = NoPeer \/ (r.status = "ERR" /\ r.consumer = NoName) THEN {""}
  ELSE {"ABSENT", PeerStatus(live[<<Peer, r.stream, r.consumer>>])}

\* What the peer may say of a row, if there is a peer to ask.
AnswersOfPeer(r) ==
  IF Peer = NoPeer \/ (r.status = "ERR" /\ r.consumer = NoName) THEN {""}
  ELSE {"ERR", PeerStatus(live[<<Peer, r.stream, r.consumer>>])}

\* One row is dropped, or kept with what the peer says of it.
ReportRow ==
  /\ phase = "report" /\ next \in DOMAIN all
  /\ next' = next + 1
  /\ IF Reported(all[next])
     THEN \E answer \in AnswersOfPeer(all[next]) :
            rows' = Append(rows, [all[next] EXCEPT !.peer = answer])
     ELSE UNCHANGED rows
  /\ UNCHANGED <<phase, now, streams, names, current, all, request, proposal>>

ScanReturns ==
  /\ phase = "report" /\ next \notin DOMAIN all
  /\ phase' = "done"
  /\ UNCHANGED <<now, streams, names, current, all, next, rows, request, proposal>>

\* The caller builds its manifest, stamped with the time of building.
Propose ==
  /\ phase = "done"
  /\ phase' = "proposed"
  /\ proposal' = BuildManifest(rows)
  /\ UNCHANGED <<now, streams, names, current, all, next, rows, request>>

ScanStep ==
  \/ BeginScan \/ ScanFails \/ ScanExpires
  \/ \E s \in Streams : ListConsumers(s) \/ StreamFails(s)
  \/ \E n \in Consumers : Classify(n) \/ ClassifyFails(n)
  \/ StreamDone \/ MarkRenames \/ ReportRow \/ ScanReturns \/ Propose

ScanOver ==
  /\ phase \in {"proposed", "failed"}
  /\ UNCHANGED <<serverVars, scanVars>>

ScanNext ==
  \/ ScanStep /\ UNCHANGED serverVars
  \/ (Tick \/ \E a \in Addresses : ApplicationStep(a)) /\ UNCHANGED scanVars
  \/ ScanOver

ScannerInit == ServerInit /\ ScanInit

ScanSpec == ScannerInit /\ [][ScanNext]_<<serverVars, scanVars>>

\* Every query has a timeout of its own, so a scan under way goes on.
FairScanSpec == ScanSpec /\ WF_<<serverVars, scanVars>>(ScanStep /\ UNCHANGED serverVars)

-----------------------------------------------------------------------------
(* Properties.                                                             *)

SubjectFilters == {FilterOf[a] : a \in Streams \X Consumers} \cup {NoFilter}

Row ==
  [stream : Streams, consumer : Consumers \cup {NoName},
   status : {"ACTIVE", "STALE", "OK", "ERR"}, pending : Nat, lastAck : Nat, idle : Int,
   filter : SubjectFilters,
   managed : {"", "metadata", "pattern"}, renamedTo : Consumers \cup {NoName},
   peer : {"", "ACTIVE", "STALE", "ABSENT", "ERR"}]

ScanTypeOK ==
  /\ phase \in {"idle", "walk", "stream", "report", "done", "proposed", "failed"}
  /\ now \in Nat
  /\ streams \subseteq Streams /\ names \subseteq Consumers
  /\ current \in Streams \cup {NoName}
  /\ all \in Seq(Row) /\ rows \in Seq(Row)
  /\ next \in Nat
  /\ request \in Requests
  /\ proposal \in Manifest

\* The consumer has been there since before the scan.
Settled(a) == live[a].exists /\ live[a].inc = 1

RowsOf(rs, s, n) == {i \in DOMAIN rs : rs[i].stream = s /\ rs[i].consumer = n}

(* A scan that returns has looked once at every consumer there all along    *)
(* (scanner.go:101-127), unless it says the stream could not be read; it     *)
(* reports once what is active or has more than MinPending messages waiting, *)
(* and nothing that has fewer and is not active (scanner.go:136-153).        *)
NothingOverlooked ==
  phase \in {"done", "proposed"} =>
    \A s \in Streams :
      IF OnlyStream \notin {AnyName, s} THEN \A i \in DOMAIN all : all[i].stream # s
      ELSE \/ RowsOf(rows, s, NoName) # {}
           \/ \A n \in Consumers :
                /\ Settled(<<Home, s, n>>) => Cardinality(RowsOf(all, s, n)) = 1
                /\ Cardinality(RowsOf(rows, s, n)) <= Cardinality(RowsOf(all, s, n))
                /\ \A i \in RowsOf(all, s, n) :
                     IF all[i].status = "ACTIVE" \/ all[i].pending > MinPending
                     THEN RowsOf(rows, s, n) # {}
                     ELSE all[i].pending < MinPending => RowsOf(rows, s, n) = {}

(* What the package comment says STALE means (scanner.go:7): past MinIdle,    *)
(* also when it was never acknowledged, and above MinPending.  The code       *)
(* compares at scanner.go:241-251 and 286.                                    *)
StaleAsDefined ==
  \A i \in DOMAIN rows :
    rows[i].status = "STALE" => rows[i].idle >= MinIdle /\ rows[i].pending > MinPending

(* Nobody who acknowledged anything in the MinIdle before the scan, and is   *)
(* still there, is proposed for deletion (scanner.go:241-251).               *)
OnlyIdleProposed ==
  phase = "proposed" =>
    \A i \in DOMAIN proposal.entries :
      LET c == live[At(proposal.entries[i])] IN
        Settled(At(proposal.entries[i])) =>
          c.lastAck = 0 \/ c.lastAck + MinIdle <= now \/ c.lastAck >= now

(* A stale row is given a new name exactly when its stream has an active     *)
(* consumer of the same filter, and then the most recently active one        *)
(* (scanner.go:158-191).                                                     *)
RenamesNameSuccessors ==
  phase \in {"report", "done", "proposed"} =>
    \A i \in DOMAIN all :
      LET heirs == {j \in DOMAIN all :
                     /\ all[j].status = "ACTIVE" /\ all[j].stream = all[i].stream
                     /\ all[j].filter = all[i].filter /\ all[j].filter # NoFilter}
      IN  IF all[i].status = "STALE" /\ heirs # {}
          THEN \E j \in heirs : /\ all[i].renamedTo = all[j].consumer
                                /\ \A k \in heirs : all[k].lastAck <= all[j].lastAck
          ELSE all[i].renamedTo = NoName

(* A row says a consumer is absent from the peer, or stale there, only if    *)
(* the peer's consumer is not one that was there all along, respectively     *)
(* was acknowledged in the MinIdle before the scan (scanner.go:256-279).     *)
PeerStatusHonest ==
  \A i \in DOMAIN rows :
    LET a == <<Peer, rows[i].stream, rows[i].consumer>> IN
      Peer # NoPeer /\ rows[i].peer \in {"ABSENT", "STALE"} /\ Settled(a) =>
        /\ rows[i].peer = "STALE"
        /\ live[a].lastAck = 0 \/ live[a].lastAck + MinIdle <= now \/ live[a].lastAck >= now

(* Rows marked as managed by an external controller stay out of the manifest *)
(* (scanner.go:45-48).                                                       *)
ManagedKeptOut ==
  phase = "proposed" =>
    \A i \in DOMAIN proposal.entries :
      \A j \in RowsOf(rows, proposal.entries[i].stream, proposal.entries[i].consumer) :
        rows[j].managed = ""

\* What a caller that gives no min_idle has to expect: on the command line the
\* one of the environment, or else of the file; or else, as in the chat, a day.
IdleExpected ==
  CASE request.caller = "cli" /\ request.env.minIdle # Unset -> request.env.minIdle
    [] request.caller = "cli" /\ request.env.minIdle = Unset /\ request.file.minIdle # Unset ->
         request.file.minIdle
    [] OTHER -> DayIdle

(* Scans that are given no min_idle share one default, whoever starts them   *)
(* (config.go:146-184, chatops/scan.go:18-21): what was acknowledged so      *)
(* shortly before the scan is not proposed.                                  *)
DefaultIdleHonoured ==
  phase = "proposed" /\ request.minIdle = Unset =>
    \A i \in DOMAIN proposal.entries :
      LET c == live[At(proposal.entries[i])] IN
        Settled(At(proposal.entries[i])) =>
          c.lastAck = 0 \/ c.lastAck + IdleExpected <= now \/ c.lastAck >= now

(* A scan that starts ends, in a manifest or in an error.                    *)
ScanEnds == phase = "walk" ~> phase \in {"proposed", "failed"}
=============================================================================

# natsie, specified

TLA+ models of natsie, the tool that finds JetStream consumers nobody uses and
deletes them, with TLC configurations that check small instances and TLAPS
proofs that hold for all of them. References like `cleanup.go:203` are to
`src/internal/...`; `PROJECT.json` maps every definition to its lines.

## The system

natsie runs as a CLI (`consumer scan`, `consumer apply`, ...) or as a daemon
(`bot serve`). Both scan clusters, propose a *manifest* of stale consumers, and
apply manifests. Nothing is locked: the applications that own the consumers go
on using, removing and recreating them all the while, and the daemon may apply
several manifests at once.

| Component | State it keeps | Operations | What makes it correct |
| --- | --- | --- | --- |
| cleanup (`cleanup/cleanup.go`) | the result of one call; nothing between calls | `Apply` | removes only what is listed, unused and unprotected; reports exactly what it did; returns |
| protect (`protect/protect.go`) | rules, fixed at boot | `New`, `Reason` | no rule is shadowed by another rule's opt-out |
| manifest (`manifest/manifest.go`) | a YAML document | `Read`, `Write` | carries `generated_at`, the operator's `skip` |
| scanner (`scanner/scanner.go`) | rows of one scan | `Scan` | overlooks nobody; calls nobody stale who was active; names the right successor; never mistakes a failed query for an absence |
| manifest builders (`cmd/consumer/scan.go`, `cmd/bot/serve.go`, `chatops/scan.go`) | none | three copies of `buildManifest` | propose stale, unmanaged consumers only |
| scheduler (`infra/scheduler`) | cron entries | `Add`, `Start`, `Stop` | jobs may overlap; `Stop` waits, but at most 30 s |
| store (`infra/store`) | one YAML file for each manifest ID | `Put`, `Get`, `List`, `Delete` | an ID never changes its meaning |
| approvals (`infra/httpsrv`) | none | preview, apply | an approval applies what was announced, and is recorded |
| audit log, metrics | a JSONL file, counters | `Log`, `Observe...` | every outcome leaves a record |
| Mattermost listener (`infra/mattermost`) | a backoff, one session, the events it received | `Run`, `session`, `handleEvent`, `reply` | one socket at a time; reconnects for ever; runs each command once, in order, and none of its own; stops on shutdown |
| chat commands (`chatops`) | none | read-only queries, `scan` | a scan like the scheduled ones |
| owners router (`owners`) and dispatcher (`cmd/bot/serve.go`) | rules, a map of sinks | `Match`, `Group`, `post` | an entry reaches its owner and the operators, once, whoever refuses |
| peer check, stream scan, stream report (`scanner/peers.go`, `streams.go`, `streamreport.go`) | what one walk has read | `CheckPeers`, `ScanUnlimitedStreams`, `ReportStreams` | no server is a ghost by mistake; each replica and each leader is counted once |
| consumer owner (`scanner/owner.go`, `cmd/consumer/owner.go`) | the matches found so far | `ResolveOwner` | names the one seen to work last |
| config (`infra/config`) | none after boot | `Load` | the layers of a setting override each other in order |
| natsctx, notify, rendering, `version` | none | | I/O and formatting |

**How they interact.** The CLI and the daemon call `Scan`, then a manifest
builder, then either `Apply` at once (`--delete`, `auto_delete`) or the store,
from which an approval or `consumer apply` takes the manifest to `Apply` later.
`Apply` asks `protect` and talks to the servers; chat and HTTP reach the same
store and the same `Apply`.

**What is hard.** Each `CONSUMER.INFO` and `CONSUMER.DELETE` is a request of its
own, so that everything natsie knows is a little old when it acts on it. A delete
that timed out may be executed later. Calls of `Apply` overlap. A context may be
cancelled between two clusters. A scan takes up to two minutes and reads the
clock once. A walk over Raft groups meets a cluster that changes between two
reads. Chat connections break with commands in hand. Sinks refuse messages.
`PROJECT.json` lists each hazard at its line with the properties that would notice
it.

## The modules

| Module | Models |
| --- | --- |
| `JetStream` | the NATS servers and the applications: not natsie's code, only what the fields natsie reads presuppose |
| `Manifest` | `manifest.go`: the fields that a deletion depends on |
| `Protect` | `protect.go`: `New`'s validation, `Reason` |
| `SafeDelete` | what `cleanup` promises, without its control flow: the abstract specification that `Cleanup` refines |
| `Cleanup` | `cleanup.go`: any number of `Apply` calls at once |
| `Scanner` | `scanner.go`: one `Scan`; whose options it runs with; the three manifest builders |
| `OwnerSearch` | `owner.go`, `connectAll`: a search over several clusters, beside the scans of `Scanner` |
| `Pipeline` | `Scanner` and `Cleanup` over the same consumers: `scan --delete` and `auto_delete` |
| `Bot` | the daemon: overlapping scan jobs, the manifest store, approval links, approvals, the audit log, stop, death and restart; every `Apply` is a call of `Cleanup` |
| `Survey` | `peers.go`, `streams.go`, `streamreport.go`: the walks that only report, over a cluster that fails and recovers |
| `Notices` | the daemon's boot validation, jobs of every kind, the owners router and what is posted to whom; its reporting jobs run a walk of `Survey` |
| `Listener` | `listener.go`: the chat transport |
| `Lists` | what Go does to slices in several components: append under a condition, sort |
| `CleanupProofs` | theorems about `Cleanup`, its refinement of `SafeDelete` among them |
| `ListenerProofs` | theorems about `Listener` |
| `JetStreamProofs` | lemmas about the servers and applications, and least elements |
| `ListProofs` | lemmas about `Lists`, sums and counts |
| `ScannerProofs`, `PipelineProofs` | theorems about `Scanner` and `OwnerSearch`, and about `Scanner` and `Cleanup` in a row |
| `BotProofs` | theorems about `Bot` |
| `NoticesProofs` | theorems about `Survey` and `Notices` |
| `MCCleanup`, `MCScanner`, `MCPipeline`, `MCBot`, `MCNotices`, `MCListener` | small instances for TLC |

`Cleanup` extends `Manifest` (and with it `JetStream`) and `Protect`; `Scanner`
extends the same, and `OwnerSearch` extends `Scanner`; `Pipeline` extends both
`Scanner` and `Cleanup`, so that a proposal is tested against consumers that have
gone on changing since the scan. `Bot` extends `Cleanup`, `Notices` extends
`Survey`. `OwnerSearch` and `Survey` extend `Lists`. `Cleanup` instantiates
`SafeDelete` with a refinement mapping.

### JetStream

`live` holds the consumer at each address (cluster, stream, name) with the fields
`CONSUMER.INFO` answers: `push_bound`, `num_waiting`, `num_pending`,
`ack_floor.last_active`, the metadata, the creation time, and `inc`, a history of
which incarnation of that name it is (0 for a name that no application uses). Applications bind, poll, acknowledge,
receive messages, change metadata, drop and recreate consumers at any time. Time
is a small integer, 0 meaning "never". One clock serves natsie and the servers.

### Cleanup

One process per call. `pc` is where the call is:

| `pc` | in the code |
| --- | --- |
| `idle` / `loop` | before the call / at the head of the loop over `byCluster` (`cleanup.go:115`) |
| `entry` / `offline` | at the head of `applyOnCluster`'s loop (146) / of the loop that records `CONN` (124) |
| `verify` | the `CONSUMER.INFO` answer is in hand (175) |
| `deleting` | the delete was sent and is awaited (271) |
| `done` / `aborted` | `return result, nil` / `return result, err` |

`todo` is what is left of the map, visited in arbitrary order as Go does; `left`
the positions of the current cluster's entries not yet settled, taken in
ascending order; `info` the answer at hand; `events` is `Result.Events` (an event
names its entry by position, from which its address follows). The counters of
`Result` are written in the same statements as the events, and are therefore a
function of them, the operator `Result`. `requests` holds deletes that the servers
may still execute, whether or not the caller still waits; `reply` the answer,
which the caller may get or miss; `deletions` is a history.

An entry is settled in one step (`Settle`: append the event, advance, go on),
which is what a case of the code's loop does between two requests. The queries and
deletes are steps of their own, with anything in between. A server executes a
pending delete at any later time, once. An answer of `not found` to a delete is an
error to natsie (281), as in the code.

### SafeDelete

The abstract specification has no manifest to walk, no context, no timeouts: a
caller inspects a consumer that exists, orders its removal if the call allows
that of the consumer as inspected (`Justified`), an order is carried out at any
later time or never, once, on whatever it finds, and a removal may be claimed by
whoever ordered it. The mapping: what a call inspected is the `info` at hand
(`Inspected`), orders are the `requests` that the servers may still execute
(`Orders`), removals are `deletions`, claims are the `DELETED` events.

### Scanner and OwnerSearch

`phase` follows `Scan`: `idle`, `walk` (between streams), `stream` (classifying
the consumers listed for `current`), `report` (thresholds and peer, row by row),
`done`, and `proposed` once a caller has built its manifest; `failed` is an error
return. `all` and `rows` are the slices of the same names; `now` is the time read
once (97). Each consumer is queried in a step of its own. A query may fail for any
reason at any time, then the row says `ERR`. A filter is an atom: `FilterOf` is the
normalised value `filterSubject` computes.

`request` says who asks and with what. The options follow from it: the flags of
the command line override the environment, which overrides the file, which
overrides what is built in (`CliOptions`, `Defaults`); a schedule has its own
fields and zero for those it does not give (`ScheduleOptions`); the chat has
constants (`ChatOptions`). What the file and the environment give is part of the
request, so that one run has several. The caller's copy of `buildManifest` then picks the
rows; only the CLI's looks at `managed`.

`OwnerSearch` adds `consumer owner`. `search` is `idle`, `contexts` (between two
clusters), `streams`, `consumers`, then `resolved` or `failed`; `matches` are the
consumers found that filter `Subject`. `Contexts` are the places in the list of
contexts and `Reaches` gives the cluster of each, so that two contexts may lead to
one cluster and one context may be given twice; what is found through each is a
match of its own, as in the code (a *sight*: context, stream, name). `conn` is the
connection under way. A context that cannot be reached, a stream
or a consumer that cannot be loaded is passed over, as in the code; the history
`unread` remembers which, since nothing is promised of those. A connection for
which no manager can be had (`SearchFails`), or two minutes that are over
(`SearchExpires`), end the whole search with an error. The classification
is `Scanner`'s, as it is in the code.

### Survey and Notices

A Raft group is a stream or one of its consumers. The cluster has a `leader` for
each group, servers that are `down`, and replicas that are `behind`; a server may
fail, recover (behind in all its groups), catch up, or win an election at any
time while a walk is under way. `walk` is `idle`, `streams`, `consumers` (within
one stream), then `done` or `failed`; `seen` holds what the groups answered that
could be read, `listed` the streams that could be loaded, with their placement
unless that was refused. `AggregatePeers`, `UnlimitedStreams`, `UnderReplicated`
and `PlacementSkew` are the pure functions that the code applies to these. The
leader may or may not be among the replicas that a group lists, which the code
allows for (peers.go:150).

`Notices` follows one firing of one schedule:

| `job` | in the code |
| --- | --- |
| `boot` / `refused` | `validateBotConfig`, `dialNotifiers`, `NewRouter` / the daemon does not start |
| `waiting` | for its cron time |
| `walking` / `scanning` | in a walk of `Survey` (`serve.go:347-483`) / in a scan (485) |
| `posting` / `erring` | messages are posted, one step each (645-652) / the same, after an `Apply` whose context had ended before it began with its one cluster |
| `over` / `error` | observed as a success / as an error (`metrics.go:85-110`) |

`outbox` holds the messages not yet posted, `offered` those that were, with
whether the sink took them. The entries of a manifest go to the owners first, in
the arbitrary order of Go's map, then to the global list. A message is what it is
about, the lines it shows, how many it leaves out, and whether it leads to the
manifest or to its approval. `trail` is what an unattended `Apply` did with each
entry: removed it, failed to (`FAIL`), could not reach its cluster (`CONN`) or
anything else. A notice is due if there is any of the first three (`Touched`,
serve.go:567); it lists the first two only (`Listed`, 604-617), and says whether
there are more without a count.

### Listener

| `pc` | in the code |
| --- | --- |
| `boot`, `off`, `fatal` | `buildListener` (`serve.go:206-233`): not enabled, not usable |
| `head` | at the head of `Run`'s loop (`listener.go:113`) |
| `handshake` / `dial` | the three look-ups, under the context (185-213) / `NewWebSocketClient4`, without it (155) |
| `pump` / `handling` | in the `select` of `session` (166) / a command runs until its reply is posted (264-297) |
| `failed` / `waiting` | `session` returned an error (118) / the `select` with the backoff (132) |
| `returned` | `Run` is over |

`posts` is the history of all events, `buffer` the `EventChannel` (positions in
`posts`), `intact` whether the connection still delivers into it. `hung` says that
the REST call under way is one that the server has accepted and does not answer:
the client has no time limit (186) and the daemon's context no deadline (294), so
that only an answer (`Relent`) or the end of the context goes on from there.
`open` counts WebSockets that were opened and not closed. The backoff is doubled after every
session, whatever its length, up to 60 s. A reply is published like any other
event, so that it comes back to the listener.

### Bot

A *job* is one firing of a consumer schedule, or one chat scan; its scan is a
single step (Scanner has the detail) that errs, finds nothing, or finds one of
`Findings`.

| `job` | in the code |
| --- | --- |
| `idle` / `scanning` | not fired yet / in `runScan` (`serve.go:485`), or the chat's `scan` |
| `storing` / `writing` | before `Put` (530) / holding `f.mu`, the file truncated (`file.go:68-71`) |
| `announcing` | stored, the link not posted yet (`serve.go:534-536`) |
| `applying` | in `autoDelete` (541) |
| `done` / `failed` | returned without / with an error, or killed with the process |

`id` is the manifest ID: the schedule's (or chat context's) name and the second;
`file` is the content of each ID's file, which survives `Exit`, as `audit` and the
posted `links` do. `Approve` is `doApproval` up to its call of `Apply`, `Record`
the rest of it, error or not, and for a job the rest of `autoDelete`; `LoseRecord`
is the same with an audit write that fails, which the code ignores. `origin` says on whose behalf a call
runs, `outcome` how it ended for them. `Stop` is the shutdown signal: nothing new starts and
everything under way goes on; `Exit` ends the process then, or at any earlier
moment (a crash, a kill): jobs and calls end where they are, while deletes that
were sent may still be executed. A file cut short is taken to be unparsable (the
YAML of a manifest is written by a single `write`). Link signatures, previews and
notifications that fail are left out; a link may be followed by anybody who has it.

### Protect

Names, globs, metadata keys and values are atoms; which values are falsey once
trimmed and lower-cased, and which globs `path.Match` accepts, are parameters. `New`
is modelled with its validation: the guards that the runs use are those `New`
accepts.

## Runs

| Run | Instance | Distinct states | Shows |
| --- | --- | --- | --- |
| `apply_races` | two calls, one consumer, two changes by its application, clock 1..2 | 289,512 | `DeletionJustified`, `ReportsMatchDeletions`, `NoDeletionClaimedTwice`, `ImplementsSafeDelete` |
| `apply_wide` | one call, two clusters, two names, metadata with two keys, five kinds of call, no changes | 242,640 | `TypeOK`, `EventsFollowManifest`, `TallyComplete`, `DeletionJustified`, `EveryApplyReturns` |
| `scan_walk` | five requests: a scan by the built-in defaults, one from the chat, one of a single stream by the thresholds of file and environment with three consumers of one filter, one with flags and a peer cluster, and a search for the owner of a subject over three contexts that reach two clusters; one change, clock 3..4 | 661,811 | `ScanTypeOK`, `NothingOverlooked`, `OnlyIdleProposed`, `DefaultIdleHonoured`, `ManagedKeptOut`, `RenamesNameSuccessors`, `PeerStatusHonest`, `OwnerIsTheLatest`, `ScanEnds` |
| `scan_delete` | one consumer, one call, the CLI's builder and the daemon's, two changes, clock 3..5 | 159,541 | `OnlyStaleRequested`, `RemovedWasIdle`, `PipelineEnds` |
| `bot_approvals` | two jobs of one schedule, one of an auto_delete schedule, one call, two possible findings | 135,331 | `BotTypeOK`, `LinksResolve`, `RemovalsTraceable`, `RemovalsRecorded`, `ApplyAnswered`, `JobsEnd` |
| `listener` | six configurations, two events of users of four kinds, replies that look like commands, REST calls that hang | 103,920 | `ListenerTypeOK`, `OneSocket`, `CommandsOnceInOrder`, `NothingOverheard`, `StopsWhenTold`, `AlwaysReconnects`, `HeardIsAnswered` |
| `reports` | two streams, three Raft groups on three servers, three faults; twenty blocks of configuration; three findings and whatever `Apply` may do with each entry | 168,864 | `NoticesTypeOK`, `PeersJudged`, `StreamsAccountedFor`, `EveryoneTold`, `OwnersOnlyWatch`, `ReportEnds` |
| `apply_protected_literal`, `scan_not_stale`, `scan_bare_schedule`, `scan_woken`, `bot_collision` | | | disagreements between documentation and code, below |

**Bounds.** `MaxChanges` bounds what the applications do: two changes are enough
for the sequences that matter (bind and unbind, drop and recreate, become
protected and then acknowledge); with two calls and one consumer every order of
two inspections, two deletes and two changes is explored. Two clusters and three
entries give `apply_wide` a partial connection failure, a cancellation between
clusters, a skipped entry, an entry listed twice and an empty manifest; two metadata
keys are what an opt-out needs to stand in front of a key that vetoes. The scan's
clock starts at 3 with a day of 2 (and `MinIdle` 2 where it is given), so that acks
exist on both sides of, and exactly at, the idleness threshold; `MinPending` is 0
and 1, and flags, file, environment and what is built in differ where they meet.
The search for an owner has a context that reaches the cluster of another, which is
also what a context given twice looks like, and starts with the last to acknowledge
in the other cluster. Three
consumers of one filter are the fewest for a tie among successors and a stale
heir. Each request of `scan_walk` meets the consumers it is about (`WalkedBy`),
at addresses where the others are unused; as consumers are queried in any order,
one arrangement of each pair (of distinct consumers) and trio is enough; the last
of a trio acknowledged at 3, so that there is an heir to find.
`bot_approvals` has a single second, the one in which IDs can collide, two jobs to
contend for the store's mutex and to overwrite each other, and applications at
rest; one call, because calls of `Apply` that race (a link followed twice) are
what `apply_races` explores. `listener` has two events of users (`MaxPosts`), which
is what it takes to repeat, to reorder, and to miss one behind another; replies
are bounded by the commands. `reports` has `MaxFaults` 3, enough for a server to
fail, recover and catch up, or for a leader to fail and be replaced twice, during
one walk; the cluster keeps still outside the walk, since nothing looks at it
then. `ListLimit` is 2 with findings of none, one and three entries.

**Fairness.** `FairSpec` of `Cleanup` assumes weak fairness of each call's own
steps, `FairReadSpec` of a scan's or a search's, `FairPipelineSpec` of scan, call
and hand-over, `FairBotSpec` of each job's steps, each call's steps and its record,
`FairSpec` of `Notices` of the job's, `FairSpec` of `Listener` of the listener's.
The code justifies it: every request to NATS carries a timeout (`jsAPITimeout` in
`cleanup.go:44`, jsm's own in the scanner and the surveys), as do the posts to
sinks (that of the HTTP client) and the queries of a chat command (its own
context), so that no step waits for something that need not happen: `FetchFails`,
`DeleteFails`, `ClassifyFails`, `PassOver` are always open; a job
waits for the store's mutex, whose holder only writes a file. The chat's REST
calls are the exception. They have no limit, so a call that is `hung` enables no
step of the listener before it is answered or the context ends, and what depends
on that has it as a premise: `AlwaysReconnects` that calls stop hanging,
`HeardIsAnswered` that none hangs for ever; `StopsWhenTold` needs neither. `Listener` also
assumes strong fairness of `StopPumping`: the `select` in `session` (166) picks at
random among the cases that are ready, so it cannot pass over a cancelled context
for ever although events keep coming. Nothing is assumed of the servers, the
applications, the users, the connections or the cancellation; `AlwaysReconnects`
has the return of the chat server as a premise too. Safety runs use no fairness.

**Deadlock** is checked in every run. A finished system stutters in `Terminated`,
`ScanOver`, `SearchOver`, `Rest` and `Over`, which are enabled only when nothing is
under way; a listener that has returned still has its server and its users.

### What the properties say

- `DeletionJustified`: when a server executes a delete and the consumer is still
  as natsie inspected it, it was listed, not skipped, neither in use nor vetoed,
  and the call was no dry run. The proviso is the window the code leaves open: the
  request names a consumer, not what was inspected. `InUse` and `Vetoed` are
  written apart from the code's tests.
- `ReportsMatchDeletions`: whatever was removed belongs to an entry that reads
  `DELETED` or `FAIL`, or is still awaited, so a consumer reported as preserved,
  skipped, gone or protected was not removed by that entry; and every `DELETED` stands for a removal by that
  entry's own request. `FAIL` may hide a removal (a lost or late answer).
- `NoDeletionClaimedTwice`: an address has no more `DELETED` events, over all
  calls, than incarnations that died.
- `EventsFollowManifest`, `TallyComplete`: at every moment, including after a
  cancellation, the trail covers exactly the clusters worked on, in order; and on
  a normal return the six counters add up to the manifest.
- `ImplementsSafeDelete`: each step of `Apply`, however it times out, is cancelled
  or races, is one that `SafeDelete` allows.
- `NothingOverlooked`, `OnlyIdleProposed`, `RenamesNameSuccessors`,
  `PeerStatusHonest`: what a row may say about a consumer that was there all along.
  `NothingOverlooked` asks for whoever is above `MinPending`, as the documentation
  does, and leaves open what becomes of a backlog of exactly that size.
  `DefaultIdleHonoured`: whoever gives no threshold gets the one to be expected
  (`IdleExpected`): of the environment, else of the file, else a day.
- `OwnerIsTheLatest`: whoever worked on the subject lately and could be looked at
  is the owner named, or outdone by a later ack; whoever could be looked at is
  shown once for each context that reaches it.
- `RemovedWasIdle`, `OnlyStaleRequested`: scan and re-verification composed.
- `LinksResolve`: an announced link leads to a whole manifest, whatever crashes
  and failed writes come between, unless another scan has begun to write under
  the same ID. `RemovalsTraceable`: each removal goes back to a scan that listed
  the consumer and, but for auto_delete, to a link somebody followed.
- `RemovalsRecorded`: once an `Apply` is answered and its record written, the
  tally in the record has room for everything the call ever removes, also by
  requests that the servers execute after the answer.
- `PeersJudged`: a server that was down during the whole walk and is referred to is
  a ghost, one that was up and current is not even lagging, whatever could not be
  read or changed in between; nobody is counted twice in a group.
  `StreamsAccountedFor`: the lists and sums of the stream reports agree with what
  could be read.
- `EveryoneTold`: what a run found is offered to every sink of the global list and,
  entry by entry, to the sinks of the first owner to claim it, once, whoever
  refuses. An unattended deletion that removed anything, failed to, or met an
  unreachable cluster (`Tellable`, written over what `Apply` did, not over what was
  posted) is told to every global sink, and its notice shows removals and failures
  only, all of them unless it says that there are more (`TellsOf`). The audit record
  counts what was found; the gauge of an error-free run what was found or,
  unattended, what was removed. `OwnersOnlyWatch`: only operators get links.
- `OneSocket`, `CommandsOnceInOrder`, `NothingOverheard`: across reconnections.
  `StopsWhenTold`, `AlwaysReconnects`, `HeardIsAnswered`, `ReportEnds`: liveness.
- `ApplyAnswered`, `JobsEnd`: a call is answered, recorded or not, unless the
  process ends; a scan job ends, so no job waits for the store for ever.

## Disagreements between documentation and code

Each of these has a run whose counterexample shows it.

1. `apply_protected_literal`: "never deleted, whatever the manifest says"
   (`cleanup.go:18-20`) is not true of a consumer that becomes protected between
   its inspection and its delete. `DeletionJustified` is what does hold.
2. `scan_not_stale`: stale "exists but is past `Options.MinIdle` and exceeds
   `Options.MinPending`" (`scanner.go:7`; the help of the flags,
   `cmd/consumer/scan.go:46, 50`, and `README.md:70`, "with > 10k pending", agree).
   Neither is tested. A consumer that was never acknowledged has its idleness counted
   from its creation (236-238), but only a last ack is compared with `MinIdle` (244),
   so that with a backlog it is stale as soon as it exists; and a row is dropped
   only if it has fewer than `MinPending` messages (286), so that one with exactly
   as many is proposed. `OnlyIdleProposed`, of consumers that have acknowledged
   something, and `NothingOverlooked`, which leaves the edge open, do hold.
3. `scan_bare_schedule`: on-demand chat scans "use the same default thresholds as
   the scheduled cron path" (`chatops/scan.go:18-21`); a schedule that leaves
   `min_idle` out scans with zero (`serve.go:504-509`), so that a consumer
   acknowledged a moment ago is stale to it and not to the chat. With `auto_delete`
   it is removed unless it acknowledges again before it is inspected.
4. `scan_woken`: "a consumer that woke up since the scan is preserved"
   (`README.md:42`); the comparison is with `generated_at`, stamped when the scan
   is over, so an ack during the scan is missed. `RemovedWasIdle` states the gap:
   `now <= lastAck <= generatedAt`.
5. `bot_collision`: a link "can only approve the one manifest it was issued for"
   (`README.md:286-288`); two scans of one schedule, or two chat scans of one
   context, that end in the same second share an ID (`serve.go:529`,
   `chatops/scan.go:73`), and the first link then applies the second manifest.
   `RemovalsTraceable` is what does hold: it is a manifest of the same schedule.

Three more are in the models' definitions without a run of their own:

- Callers "must keep [managed rows] out of any cleanup manifest"
  (`scanner.go:45-48`); the daemon's builder does not (`BotProposes`,
  `serve.go:669`), nor does the chat's, whose scan is given no protector to mark
  rows with. `Apply` refuses the entries later, so nothing is lost but the
  operator's time. `ManagedKeptOut` is therefore about scans that mark rows and
  whose caller is the CLI.
- `Run` reconnects "on every REST or WebSocket failure" (`listener.go:106-107`); a
  reply that the server accepts and never answers (294) holds the event loop, and
  the session does not end when its connection dies (`hung`). `AlwaysReconnects`
  and `HeardIsAnswered` have premises for that reason.
- `natsie_scan_candidates` is the number of "candidates found by the most recent
  scan" (`metrics.go:47`); after an unattended deletion it is the number removed
  (`serve.go:576`), as `EveryoneTold` says of it, and the audit record of the run
  (`serve.go:560`) has the number found.

## Proofs

Proved for any sets of calls, clusters, streams, consumers, manifests, protectors,
events and any bounds:

| Module | Theorem | Statement |
| --- | --- | --- |
| `CleanupProofs` | `TypeCorrect` | `Spec => []TypeOK` |
| `CleanupProofs` | `JustifiedDeletions` | `Spec => DeletionJustified` |
| `CleanupProofs` | `TruthfulReports` | `Spec => []ReportsMatchDeletions` |
| `CleanupProofs` | `AppliesSafely` | `Spec => ImplementsSafeDelete` |
| `CleanupProofs` | `TrailsFollow` | `Spec => []EventsFollowManifest` |
| `CleanupProofs` | `NothingClaimedTwice` | `Spec => []NoDeletionClaimedTwice` |
| `CleanupProofs` | `CountersComplete` | `Spec => []TallyComplete` |
| `ListenerProofs` | `ListenerTypeCorrect` | `Spec => []ListenerTypeOK` |
| `ListenerProofs` | `NeverTwoSockets` | `Spec => []OneSocket` |
| `ListenerProofs` | `RunsOnceInOrder` | `Spec => []CommandsOnceInOrder` |
| `ListenerProofs` | `HearsEverything` | `Spec => []NothingOverheard` |
| `ScannerProofs` | `ScanTypeCorrect` | `ScanSpec => []ScanTypeOK` |
| `ScannerProofs` | `IdleProposed` | `ScanSpec => []OnlyIdleProposed` |
| `ScannerProofs` | `PeersHonest` | `ScanSpec => []PeerStatusHonest` |
| `ScannerProofs` | `EveryoneLookedAt` | `ScanSpec => []NothingOverlooked` |
| `ScannerProofs` | `CliKeepsManagedOut` | `ScanSpec => [](request.caller = "cli" => ManagedKeptOut)` |
| `ScannerProofs` | `RenamesFollowed` | `ScanSpec => []RenamesNameSuccessors` |
| `ScannerProofs` | `DefaultsLayered` | `ScanSpec => [](request.caller # "bot" => DefaultIdleHonoured)` |
| `ScannerProofs` | `OwnerAlwaysTheLatest` | `ReadSpec => []OwnerIsTheLatest` |
| `PipelineProofs` | `StaleRequested` | `PipelineSpec => []OnlyStaleRequested` |
| `PipelineProofs` | `IdleRemoved` | `PipelineSpec => RemovedWasIdle` |
| `BotProofs` | `BotTypeCorrect` | `BotSpec => []BotTypeOK` |
| `BotProofs` | `LinksAlwaysResolve` | `BotSpec => []LinksResolve` |
| `BotProofs` | `RemovalsAlwaysTraceable` | `BotSpec => []RemovalsTraceable` |
| `BotProofs` | `RemovalsAlwaysRecorded` | `BotSpec => []RemovalsRecorded` |
| `NoticesProofs` | `NoticesTyped` | `Spec => []NoticesTypeOK` |
| `NoticesProofs` | `PeersAreJudged` | `Spec => []PeersJudged` |
| `NoticesProofs` | `StreamsAreAccountedFor` | `Spec => []StreamsAccountedFor` |
| `NoticesProofs` | `EveryoneIsTold` | `Spec => [](DistinctOwners => EveryoneTold)` |
| `NoticesProofs` | `OwnersOnlyEverWatch` | `Spec => []OwnersOnlyWatch` |

The assumptions are those the modules declare: bounds are natural numbers, the
initial consumers and the calls have their types, incarnations are counted from 1,
`NoInfo` is no answer, users are not the bot. `Scanner` adds that thresholds are
natural numbers or not given, that `Home` is a cluster, and that `NoName` is no
consumer's name; `Pipeline` that what the scan is given to mark rows with is one of
the guards or none; `Bot` that its guard is, that findings are lists of entries,
that the process starts within the time modelled, and that an absent or truncated
file is no manifest. `OwnerSearch` adds that each context reaches a cluster, that the
subject is one, and that no two sights have one rank (`RankAssumption`: the
order of names that `sortOwnerMatches` falls back on, then, its sort being stable,
the order found);
`Survey` that servers are finitely many, with names of their own, that a group is
placed on servers, and that limits are numbers; `Notices` that configurations and
findings have their types. Some settings that the code accepts are outside these
types: negative thresholds, and owners' rules for streams that do not exist, which
claim nothing. A schedule is taken to have one context, as its configuration does.
`EveryoneIsTold` has a hypothesis of its own (`DistinctOwners`): no two owners have one name. It is
needed, for `buildDispatcher` keeps the sinks in a map by name (`serve.go:308`) and
nothing refuses a second block of the same name: entries that the first one claims
go to the sinks of the second.

- *Types.* `TypeOK` is not inductive: the entry under way is `Min(left)`, which is
  an entry only if `left` is a non-empty set of positions. `AtHand` adds that, with
  what each control point has in hand; `TypeInv == TypeOK /\ AtHand` is inductive.
  `MinInSet` (well-foundedness of `<` on the naturals) says the least position
  exists.
- *Justified deletions.* `Cleared` says of every pending request that its call has
  started and that what it saw was removable. Only `SendDelete` adds a request,
  after both tests (`SendCleared`); a started call never changes its arguments.
  `ProtectedIsVetoed` and `ActiveIsInUse` show the code's tests equal to the
  independent `Vetoed` and `InUse`.
- *Truthful reports.* `ReportsMatchDeletions` needs two more facts:
  `RequestsTraced` (a request names the consumer of its entry, and that entry is
  accounted for although its caller may have given up) and `RepliesHonest` (an
  "ok" in hand stands for a removal already made). `SettleReport` is the step in
  which an event is written, `ExecReport` the one in which a server acts.
- *Refinement.* Each step maps to a step of `SafeDelete` or to a stutter:
  `FetchIsInspect`, `SendIsOrder` (with `Cleared`), `ExecIsCarryOut`,
  `ApplicationIsUse`, `SettleIsSafe` (a claim, by `RepliesHonest`, or a consumer
  spared), and `QuietIsStutter` for the rest. `HandInv` says that an answer is in
  hand only while it is judged or its delete awaited.
- *The trail.* `TrailInv` joins, for each call, `Between` (nothing is left between
  clusters, nothing to visit at the end), `Visited` (an entry of a visited cluster
  is settled or left, one of another cluster neither), `SettledFirst` (no entry is
  both, and what is settled of a cluster precedes what is left of it) and `InOrder`.
- *Claims.* `DeathInv`: the incarnations recorded in `deletions` are among those
  that died, and no two removals are of the same. `ClaimsAreDeaths` then maps the
  `DELETED` events of an address one to one to deaths: an event has a removal of
  its own entry (`ReportsMatchDeletions`), and no entry has two events.
- *Counters.* `CountersPartition`: the six counters count disjoint sets of events
  that make up all of them; `WholeTrail`: at the end, events and entries are in
  bijection.
- *Sockets.* `SocketInv` adds to `OneSocket` that a connection delivers, and events
  wait, only within a session.
- *Commands.* `HeardInv` joins `Waiting` (what is in the channel ascends and is
  newer than all that was run), `Run` (what was run ascends and was addressed to
  the bot), `Replied` (a command under way is newer than all that was replied to)
  and `NothingOverheard`. `ForUsIsAddressed` shows `handleEvent`'s early returns to
  be what `Addressed` promises; `PublishHeard` and `HandleHeard` are the two steps
  that matter.
- *What a scan says.* `ScanInv` is inductive and has four parts. `ScanTyped` is
  `ScanTypeOK` with what it takes for granted of the servers. `JudgedInv` says of
  each row, as it stands, what `OnlyIdleProposed` and `PeerStatusHonest` say of
  the outcome. It survives the applications by `AcksGoOn` (`Moves`): whoever is
  still there from before the scan has acknowledged nothing since, or just now, so
  that what was idle stays idle or acknowledged after `now`. `WalkInv` says that
  each stream gone through has an error row or a row for each consumer that was
  there all along, and no consumer has two; `RowsInv` that the rows returned are
  those of the walk that pass the thresholds, each once, from which
  `EveryoneLookedAt` counts (`AtMostOne`). `RenameInv` adds that names are given in
  the one step after the walk. `DefaultsLayered` follows from `OnlyIdleProposed`: the
  threshold that the options come to is the one to be expected, whatever file and
  environment give; its premise excludes schedules, of which `scan_bare_schedule`
  refutes it.
- *Recursive functions.* `ProposedRows` and `Successors` are loops of the code,
  written as functions on an index or a length. The induction theorems of the library
  take an operator, which no prover here can instantiate; instead `ProposedAreRows`
  and `SuccessorsFound` argue by the least counterexample, which `LeastNat` (well-foundedness of `<`) provides.
- *Scan and Apply in a row.* `PipeInv` joins the invariants of both components with
  `Handed`: a call that was started works on the manifest of a scan that is over,
  which nothing changes any more. `RequestFacts` then puts `Cleared` and `FromRows`
  together: a request is for an entry of the manifest, hence of a row, and for a
  consumer seen not to be in use.
- *The daemon.* `BotTyped` adds to the types that a job about to store or announce
  has a manifest and its ID (`Holding`). `LinkInv` strengthens `LinksResolve` to
  the jobs that are about to announce: what was stored stays readable until another
  job of the same ID starts to write. `TraceInv` says of each call that its manifest is one
  that a job found, which ordered it itself or through a link (`Traced`), of each
  readable file that its content was found by a job of its ID, and of each request
  and removal that its call's manifest lists it (`Listed`).
- *The daemon's records.* `OnceInv`: a call asks for an entry at most once, since
  what it has settled, what is left and the clusters still to visit have no entry
  in common (`Apart`), and what it asked for is in its events unless it was killed
  (`InEvents`). `Answered`: once a call has returned, a record of its result
  exists. `RemovalsCounted` maps the removals of a call one to one to its `DELETED`
  and `FAIL` events, and those the record counts.

- *The owner of a subject.* `OwnerIsTheLatest` says nothing before the search is
  over, so it is far from inductive. `SearchInv` says at every point of the search who has
  been gone through (all but what is `Ahead`), that each of those who was there all
  along, filters the subject and is not in `unread` has exactly one match, and what
  a match says of its consumer as it stands (`Judged`): its last ack is
  still the consumer's unless that acknowledged since the search began, and whatever
  acknowledged recently is `ACTIVE`. It survives the applications by `AcksGoOn`, as a scan's rows
  do. `SortedMatches` adds, for the last step, that sorting loses and repeats
  nothing and puts active matches first and later acks before earlier ones; `Better`
  is total because of the final tie-break on names (`RankAssumption`).
- *Walks over a changing cluster.* `SurveyInv` joins `ClusterOK` (who was down, or
  current, all along still is; a leader is up), `SeenOK` (a group read answered
  with its placement, once) and `ListedOK` (a stream has one row, which holds its
  limits and what was read of its placement), for any number of failures and
  elections. `JudgesPeers` evaluates `aggregatePeers` on such answers;
  `AccountsForStreams` exchanges the sum over servers and the sum over streams, in
  which each replica and each leader occurs once.
- *Notices.* The messages a run has posted and those it still has to post, put one
  behind the other (`Planned`), never change once the run has decided what to
  say: posting moves the border between the two, refused or not. `RunInv` says of
  that list that it is in two parts, owners first, that every owner due gets its
  listing at each of its sinks, and what each message accounts for
  (`InTwoParts`, `Reaches`, `Says`): lines that make up what was found, or, of an
  unattended deletion, the removals and failures of its trail (`DeletionTold`). The order of the owners is the map's,
  hence arbitrary: `Flattened` and `SumOfSizes` count whatever order it is.
  `MatchIsFirst` shows the name that `Router.Match` returns to stand for the first
  owner to claim the entry, and there the names must be distinct.
- *Lists.* `SortBy` places an element by the number of those before it; that this is
  a sorted rearrangement for any strict total order is `Ordered` and `ListsEach`, by the pigeonhole
  facts of the library. `Keep` and sums are recursive functions, reasoned about by
  their equations and least counterexamples.

Only model-checked: liveness (`EveryApplyReturns`, `ScanEnds`, `PipelineEnds`,
`ApplyAnswered`, `JobsEnd`, `StopsWhenTold`, `AlwaysReconnects`, `HeardIsAnswered`,
`ReportEnds`), which the prover does not reach. Every
invariant and every safety action property that a passing run checks is stated by a
theorem. Three theorems have hypotheses that the property as checked does not:
`CliKeepsManagedOut`, `DefaultsLayered` and `EveryoneIsTold`; without them the first
is not true of the daemon's builder, the second is refuted by `scan_bare_schedule`,
the third by the map of sinks. The properties of the five violation runs are what
documentation says and the code does not do.

## Plan

1. *Done.* `JetStream`, `Manifest`, `Protect`, `Cleanup`, `Scanner`, `Pipeline`,
   `Bot`; types, justification and truthfulness proved.
2. *Done.* `SafeDelete` and the refinement; the layers of the scan's options;
   `OwnerSearch`; `Survey` and `Notices`; `Listener`; the trail, the counters, the
   claims, the sockets and the commands proved.
3. *Done.* `Scanner`, `Pipeline` and `Bot` proved: what a scan says of consumers
   that go on changing, scan and Apply in a row, links and removals for any number
   of jobs.
4. *Done.* `Survey`, `Notices` and `OwnerSearch` proved, with the lemmas on lists,
   sorts and sums that they need; every invariant the runs check is a theorem.
5. `Bot` further: previews and tokens, slash commands with their time limits; an
   abstract specification of the scan, which `Scanner` implements.

## Not modelled

- Chat rendering and the read-only chat commands, pretty printing, flags, the
  wording of messages, charts and CI: formatting or I/O without state.
- Reading NATS contexts, YAML, the environment and token files: their outcomes (a
  connection, an error, a value that is or is not given) are choices in the models.
  Wire formats are abstracted to what the code branches on; an undecodable or error
  answer is one case of `FetchFails` or `DeleteFails`.
- Approval tokens and previews, rate limits and slash commands: they decide who may
  ask and show what would be done, and change nothing; in `Bot` a link may be
  followed by anybody who has it.
- A skew between natsie's clock and the servers', which `isActive` does not allow
  for: its size is a property of the deployment, and any skew breaks
  `RemovedWasIdle` in the obvious way.
- Groups that a peer check could not read: the code skips them, as documented
  (`peers.go:55-58`, 79), and a server that only such groups mention has no row.
- Two owners of one name: the map keeps the second list of sinks, which `PerOwner`
  has; the instances, and the theorem `EveryoneIsTold`, give owners distinct names.
- What a store loses when the machine, not the process, dies.
- The bounded `EventChannel` of the chat library and what its server drops: the
  channel is an unbounded buffer.
- Two hazards are in the models without a property, as nothing is promised of them:
  the backoff that is never reset (`WaitOver`; sessions follow each other all the
  same) and the records lost when the process ends under a running call (`Exit`,
  `LoseRecord`).

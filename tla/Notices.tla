------------------------------- MODULE Notices -------------------------------
(***************************************************************************)
(* internal/cmd/bot, internal/owners, internal/infra/notify: what a firing *)
(* schedule of the daemon tells whom.  A schedule of a reporting kind runs *)
(* a walk of Survey; one of kind consumer-stale has a manifest to announce *)
(* (what leads to it is in Scanner and Bot), or has applied it already.    *)
(* Messages go out one after another, to sinks that may refuse them.       *)
(***************************************************************************)
EXTENDS Survey

CONSTANTS
  Configs,     \* the bot blocks the daemon may be started with
  Findings,    \* the entries a scan may come back with
  Prefixed,    \* <<consumer, prefix>>: the name begins with the prefix
  ListLimit    \* how many lines a message lists

Entry == Streams \X Consumers

\* An owner's rules; a stream that does not exist could be left out of them.
OwnerBlock == [name : STRING, streams : SUBSET Streams, prefixes : SUBSET STRING,
               notify : Seq(STRING)]

ASSUME ConfigsAssumption ==
  \A c \in Configs : /\ {c.autoDelete, c.baseURL, c.signingKey} \subseteq BOOLEAN
                     /\ c.notify \in Seq(STRING) /\ c.owners \in Seq(OwnerBlock)
ASSUME FindingsAssumption == Findings \subseteq Seq(Entry) /\ ListLimit \in Nat

VARIABLES
  config, job,
  found,       \* what the run found
  trail,       \* history: what an unattended Apply did with each entry of it
  candidates,  \* what the run returns as their number
  outbox,      \* messages still to be posted, in order
  offered,     \* history: the messages posted or refused in this run
  audit,       \* the records written by the run
  gauge        \* natsie_scan_candidates of the schedule

noticeVars == <<config, job, found, trail, candidates, outbox, offered, audit, gauge>>

-----------------------------------------------------------------------------
(* Boot.                                                                   *)
ReportKinds == {"stream-unlimited", "peer-check", "stream-report"}
Kinds == ReportKinds \cup {"", "consumer-stale"}

\* validateBotConfig, of one schedule.
ValidSchedule(c) ==
  /\ c.named
  /\ c.kind \in Kinds
  /\ c.autoDelete => c.kind \notin ReportKinds

\* A URL that names no sink stops the boot.
Dialled(urls) == "bad" \notin ToSet(urls)

\* NewRouter: an owner that can claim nothing is refused.
ValidOwner(o) == o.name # "" /\ (o.streams # {} \/ o.prefixes # {})

Valid(c) ==
  /\ ValidSchedule(c)
  /\ c.notify # << >> /\ Dialled(c.notify)
  /\ \A i \in DOMAIN c.owners : ValidOwner(c.owners[i]) /\ Dialled(c.owners[i].notify)

-----------------------------------------------------------------------------
(* Routing.                                                                *)
Owners == config.owners

Claims(o, e) == e[1] \in o.streams \/ \E p \in o.prefixes : p # "" /\ <<e[2], p>> \in Prefixed

Match(e) ==
  LET able == {i \in DOMAIN Owners : Claims(Owners[i], e)}
  IN  IF able = {} THEN "" ELSE Owners[Min(able)].name

Group(es, name) == Keep(es, {i \in DOMAIN es : Match(es[i]) = name})

\* buildDispatcher's map: of two owners of one name the second is kept.
PerOwner(name) ==
  LET called == {i \in DOMAIN Owners : Owners[i].name = name}
  IN  IF called = {} THEN << >> ELSE Owners[Max(called)].notify

OwnerNames == {Owners[i].name : i \in DOMAIN Owners}

-----------------------------------------------------------------------------
(* Messages: the head of a list, how many lines are left out, and the two  *)
(* ways to get at the manifest.                                            *)

\* Mutant: however short the list is.
ListingByLimit(about, es) ==
  [about |-> about, shown |-> SubSeq(es, 1, Min({Len(es), ListLimit})),
   more |-> Len(es) - ListLimit, link |-> FALSE, approve |-> FALSE]

Listing(about, es) ==
  [about |-> about, shown |-> SubSeq(es, 1, Min({Len(es), ListLimit})),
   more |-> Len(es) - Min({Len(es), ListLimit}), link |-> FALSE, approve |-> FALSE]

\* Only whoever is asked to approve gets links, and only if they can work.
ManifestMessage(es) ==
  [Listing("manifest", es) EXCEPT
     !.link = config.baseURL, !.approve = config.baseURL /\ config.signingKey]

\* Mutant: one message for everybody.
OwnerMessageForAll(es) == ManifestMessage(es)

OwnerMessage(es) == Listing("owner", es)

\* One message to each of some sinks, in their order.
ToEach(sinks, message) ==
  [i \in DOMAIN sinks |-> [sink |-> sinks[i], message |-> message]]

\* dispatcher.post: the owners in the order of the map, then the global list.
Announce(es, order) ==
  LET told == Keep(order, {i \in DOMAIN order : Group(es, order[i]) # << >>})
  IN  FlattenSeq([i \in DOMAIN told |->
                    ToEach(PerOwner(told[i]), OwnerMessage(Group(es, told[i])))])
        \o ToEach(config.notify, ManifestMessage(es))

-----------------------------------------------------------------------------
NoticesInit ==
  /\ config \in Configs
  /\ kind = config.kind
  /\ only = config.stream
  /\ SurveyInit
  /\ job = "boot"
  /\ found = << >> /\ trail = << >> /\ candidates = 0
  /\ outbox = << >> /\ offered = << >> /\ audit = << >>
  /\ gauge = 0

Boot ==
  /\ job = "boot"
  /\ job' = IF Valid(config) THEN "waiting" ELSE "refused"
  /\ UNCHANGED <<surveyVars, config, found, trail, candidates, outbox, offered, audit, gauge>>

\* cron fires; the job connects, or ends there.
Fire ==
  /\ job = "waiting"
  /\ job' \in {IF kind \in ReportKinds THEN "walking" ELSE "scanning", "error"}
  /\ UNCHANGED <<surveyVars, config, found, trail, candidates, outbox, offered, audit, gauge>>

Walk ==
  /\ job = "walking" /\ WalkStep
  /\ UNCHANGED noticeVars

WalkFailed ==
  /\ job = "walking" /\ walk = "failed"
  /\ job' = "error"
  /\ UNCHANGED <<surveyVars, config, found, trail, candidates, outbox, offered, audit, gauge>>

\* What a walk has to report, in some order.
Reported ==
  CASE kind = "stream-unlimited" -> SetToSeq({r.stream : r \in UnlimitedStreams})
    [] kind = "stream-report"    -> SetToSeq({r.stream : r \in UnderReplicated})
    [] kind = "peer-check"       ->
         [i \in DOMAIN GhostPeers(AggregatePeers(seen)) |-> GhostPeers(AggregatePeers(seen))[i].peer]

\* runStreamCheck, runPeerCheck, runStreamReport: nothing found, nothing said.
Report ==
  /\ job = "walking" /\ walk = "done"
  /\ job' = "posting"
  /\ found' = Reported /\ candidates' = Len(found')
  /\ audit' = Append(audit, [kind |-> kind, entries |-> Len(found')])
  /\ outbox' = IF found' = << >> THEN << >> ELSE ToEach(config.notify, Listing(kind, found'))
  /\ UNCHANGED <<surveyVars, config, trail, offered, gauge>>

ScanFailed ==
  /\ job = "scanning"
  /\ job' = "error"
  /\ UNCHANGED <<surveyVars, config, found, trail, candidates, outbox, offered, audit, gauge>>

\* runScan: the manifest is stored and announced.
Propose(es) ==
  /\ job = "scanning" /\ (config.autoDelete => es = << >>)
  /\ job' = "posting"
  /\ found' = es /\ candidates' = Len(es)
  /\ audit' = Append(audit, [kind |-> "scan", entries |-> Len(es)])
  /\ IF es = << >> THEN outbox' = << >>
     ELSE \E order \in SetToSeqs(OwnerNames) : outbox' = Announce(es, order)
  /\ UNCHANGED <<surveyVars, config, trail, offered, gauge>>

\* Mutant: what could not be removed is no news.
TouchedIfDeleted(t) == {i \in DOMAIN t : t[i] = "DELETED"}

\* Deleted > 0 || Failed > 0; an unreachable cluster counts as a failure.
Touched(t) == {i \in DOMAIN t : t[i] # "OTHER"}

\* buildAutoDeleteMessage lists these events and says whether there are more.
Listed(t) == {i \in DOMAIN t : t[i] \in {"DELETED", "FAIL"}}

DeletedMessage(es, t) ==
  [Listing("deleted", Keep(es, Listed(t))) EXCEPT !.more = Min({@, 1})]

\* The manifest has one cluster: it is gone through, or not reached, or never
\* begun because the context had ended.
Trails(n) ==
  [1 .. n -> {"DELETED", "FAIL", "OTHER"}] \cup {[i \in 1 .. n |-> "CONN"], << >>}

\* autoDelete: what was removed, or could not be, is announced afterwards.
AutoDelete(es, t) ==
  /\ job = "scanning" /\ config.autoDelete /\ es # << >>
  /\ job' = IF t = << >> THEN "erring" ELSE "posting"
  /\ found' = es /\ trail' = t
  /\ candidates' = Cardinality({i \in DOMAIN t : t[i] = "DELETED"})
  /\ audit' = Append(audit, [kind |-> "auto-delete", entries |-> Len(es)])
  /\ outbox' = IF Touched(t) = {} THEN << >>
               ELSE ToEach(config.notify, DeletedMessage(es, t))
  /\ UNCHANGED <<surveyVars, config, offered, gauge>>

Offer(o, taken) == [sink |-> o.sink, message |-> o.message, taken |-> taken]

\* Mutant: the sinks behind one that refuses are left out.
PostOneAndGiveUp ==
  /\ job \in {"posting", "erring"} /\ outbox # << >>
  /\ \E taken \in BOOLEAN :
       /\ offered' = Append(offered, Offer(Head(outbox), taken))
       /\ outbox' = IF taken THEN Tail(outbox) ELSE << >>
  /\ UNCHANGED <<surveyVars, config, job, found, trail, candidates, audit, gauge>>

\* A sink that refuses is logged, no more.
PostOne ==
  /\ job \in {"posting", "erring"} /\ outbox # << >>
  /\ \E taken \in BOOLEAN : offered' = Append(offered, Offer(Head(outbox), taken))
  /\ outbox' = Tail(outbox)
  /\ UNCHANGED <<surveyVars, config, job, found, trail, candidates, audit, gauge>>

\* Mutant: a run is not over before every sink has accepted.
FinishWhenTaken ==
  /\ job \in {"posting", "erring"} /\ outbox = << >>
  /\ \A i \in DOMAIN offered : offered[i].taken
  /\ job' = IF job = "erring" THEN "error" ELSE "over"
  /\ gauge' = IF job = "erring" THEN gauge ELSE candidates
  /\ UNCHANGED <<surveyVars, config, found, trail, candidates, outbox, offered, audit>>

\* ObserveScan: the gauge keeps its value when the run ended in an error.
Finish ==
  /\ job \in {"posting", "erring"} /\ outbox = << >>
  /\ job' = IF job = "erring" THEN "error" ELSE "over"
  /\ gauge' = IF job = "erring" THEN gauge ELSE candidates
  /\ UNCHANGED <<surveyVars, config, found, trail, candidates, outbox, offered, audit>>

JobStep ==
  \/ Fire \/ Walk \/ WalkFailed \/ Report \/ ScanFailed
  \/ (\E es \in Findings : Propose(es) \/ \E t \in Trails(Len(es)) : AutoDelete(es, t))
  \/ PostOne \/ Finish

Over ==
  /\ job \in {"over", "error", "refused"}
  /\ UNCHANGED <<surveyVars, noticeVars>>

Next == Boot \/ JobStep \/ (ClusterStep /\ UNCHANGED noticeVars) \/ Over

Spec == NoticesInit /\ [][Next]_<<surveyVars, noticeVars>>

\* Requests and posts have time limits, and nothing waits for another job.
FairSpec == Spec /\ WF_<<surveyVars, noticeVars>>(JobStep)

-----------------------------------------------------------------------------
(* Properties.                                                             *)
Message == [about : ReportKinds \cup {"manifest", "owner", "deleted"},
            shown : Seq(Streams \cup Servers \cup Entry), more : Nat,
            link : BOOLEAN, approve : BOOLEAN]

NoticesTypeOK ==
  /\ job \in {"boot", "refused", "waiting", "walking", "scanning", "posting", "erring",
              "over", "error"}
  /\ walk \in {"idle", "streams", "consumers", "done", "failed"}
  /\ down \subseteq Servers /\ leader \in [Groups -> Servers \cup {NoServer}]
  /\ behind \in [Groups -> SUBSET Servers]
  /\ {candidates, gauge, faults} \subseteq Nat
  /\ trail \in Seq({"DELETED", "FAIL", "OTHER", "CONN"})
  /\ \A i \in DOMAIN outbox : outbox[i].message \in Message
  /\ \A i \in DOMAIN offered : offered[i].message \in Message

\* The entries that fall to an owner: those it is the first to claim.
Share(i) ==
  Keep(found, {k \in DOMAIN found : /\ Claims(Owners[i], found[k])
                                    /\ \A j \in 1 .. i - 1 : ~Claims(Owners[j], found[k])})

Routed == kind \notin ReportKinds /\ ~config.autoDelete
Unattended == kind \notin ReportKinds /\ config.autoDelete
Sharing == {i \in DOMAIN Owners : Routed /\ Share(i) # << >>}

\* Something to tell the operators: anything found, and of an unattended
\* deletion any entry that was removed, failed or was out of reach.
Tellable ==
  IF Unattended THEN {"DELETED", "FAIL", "CONN"} \cap ToSet(trail) # {} ELSE found # << >>

\* A notice of an unattended deletion shows removals and failures only, and
\* all of them unless it says that there are more.
TellsOf(m, es, t) ==
  LET done == {es[i] : i \in {j \in DOMAIN t : t[j] \in {"DELETED", "FAIL"}}}
  IN  /\ ToSet(m.shown) \subseteq done
      /\ done \subseteq ToSet(m.shown) \/ (m.more > 0 /\ Len(m.shown) = ListLimit)

(* A run that found something offers it to every sink of the global list and *)
(* each entry to every sink of the first owner to claim it, once, whoever    *)
(* refuses (serve.go:629-653); the lines shown and those left out make up    *)
(* what was found.  An unattended deletion that removed anything, failed to, *)
(* or met an unreachable cluster is told to every sink of the global list    *)
(* (serve.go:567-574).  One audit record counts what was found; the gauge of *)
(* a run without error counts what was found or, unattended, was removed.    *)
EveryoneTold ==
  job = "over" \/ (job = "error" /\ audit # << >>) =>
    LET own  == {i \in DOMAIN offered : offered[i].message.about = "owner"}
        main == Keep(offered, DOMAIN offered \ own)
    IN  /\ [i \in DOMAIN main |-> main[i].sink] = IF Tellable THEN config.notify ELSE << >>
        /\ Cardinality(own) = SumFunction([i \in Sharing |-> Len(Owners[i].notify)])
        /\ \A i \in Sharing : \A sink \in ToSet(Owners[i].notify) :
             \E j \in own : /\ offered[j].sink = sink
                           /\ offered[j].message = Listing("owner", Share(i))
        /\ Len(audit) = 1 /\ audit[1].entries = Len(found)
        /\ \A i \in DOMAIN main :
             IF Unattended THEN TellsOf(main[i].message, found, trail)
             ELSE Len(main[i].message.shown) + main[i].message.more = Len(found)
        /\ gauge = IF job = "error" THEN 0
                   ELSE IF Unattended THEN Cardinality({i \in DOMAIN trail : trail[i] = "DELETED"})
                   ELSE Len(found)

(* Owners see, operators approve (serve.go:844-847): whatever leads to a     *)
(* manifest goes to the global list only, and a link to approve it only      *)
(* where the daemon can check it.                                            *)
OwnersOnlyWatch ==
  \A i \in DOMAIN offered :
    LET m == offered[i].message IN
      /\ m.link \/ m.approve => offered[i].sink \in ToSet(config.notify)
      /\ m.approve => config.baseURL /\ config.signingKey

(* A schedule that fires is done, in a notice, in silence or in an error.    *)
ReportEnds == job \in {"walking", "scanning"} ~> job \in {"over", "error"}
=============================================================================

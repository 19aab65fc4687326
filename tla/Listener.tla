------------------------------- MODULE Listener -------------------------------
(***************************************************************************)
(* internal/infra/mattermost: the pull-mode chat transport.  Run opens one *)
(* session after another (three REST look-ups, a WebSocket, a loop over    *)
(* its events) with a growing wait between them, and hands every command   *)
(* posted in its channel to the chat dispatcher, one at a time.  The chat  *)
(* server comes and goes, connections break, users go on posting, and the  *)
(* process is told to stop at any moment.                                  *)
(***************************************************************************)
EXTENDS Naturals, Sequences, FiniteSetsExt, SequencesExt

CONSTANTS
  Configs,    \* the bot.mattermost blocks the daemon may be started with
  Events,     \* what users may cause on the event stream
  Replies,    \* what the bot's own replies may look like on it
  MaxPosts    \* bound on what users post during a behaviour

ASSUME MaxPostsAssumption == MaxPosts \in Nat

VARIABLES
  pc,         \* where the daemon's listener is
  config,
  cancelled,  \* the daemon's context
  backoff,    \* seconds
  up,         \* the server answers, and knows the bot, its team and channel
  open,       \* WebSockets that have been opened and not closed
  intact,     \* the session's connection is alive
  hung,       \* the REST call under way is one that nobody answers
  posts,      \* history: all events so far, also those nobody listened to
  buffer,     \* EventChannel: the events received and not yet looked at
  since,      \* history: how many events there were when the session began
  dispatched, \* history: the events given to the dispatcher
  replies     \* history: the events replied to

vars == <<pc, config, cancelled, backoff, up, open, intact, hung, posts, buffer, since,
          dispatched, replies>>
chat == <<up, posts>>
session == <<open, intact, buffer, since>>

-----------------------------------------------------------------------------
(* Configuration: which fields are filled in; the token may be in a file.  *)
Required == {"server", "token", "team", "channel", "trigger"}

Config == [enabled : BOOLEAN, given : SUBSET Required,
           tokenFile : {"none", "unreadable", "blank", "token"}]

ASSUME ConfigsAssumption == Configs \subseteq Config

\* The file has priority over the inline token.
Filled(c) ==
  IF c.tokenFile = "none" THEN c.given
  ELSE IF c.tokenFile = "token" THEN c.given \cup {"token"}
  ELSE c.given \ {"token"}

Valid(c) == c.tokenFile # "unreadable" /\ Filled(c) = Required

-----------------------------------------------------------------------------
(* Events.  A text begins with the trigger, perhaps after white space, or  *)
(* it does not; what follows the trigger need not be set apart from it.    *)
Event == [posted : BOOLEAN, author : {"user", "bot"}, channel : {"ours", "other"},
          text : {"command", "padded", "glued", "chatter"}]

ASSUME EventsAssumption ==
  /\ Events \subseteq {e \in Event : e.author = "user"}
  /\ Replies \subseteq {e \in Event : e.posted /\ e.author = "bot" /\ e.channel = "ours"}

\* Mutant: the message is not trimmed before the prefix is looked for.
MatchesUntrimmed(text) == text \in {"command", "glued"}

MatchesTrigger(text) == text \in {"command", "padded", "glued"}

\* Mutant: the bot listens to itself.
ForUsAndByUs(e) == e.posted /\ e.channel = "ours" /\ MatchesTrigger(e.text)

\* handleEvent's early returns.
ForUs(e) ==
  /\ e.posted
  /\ e.channel = "ours"
  /\ e.author # "bot"
  /\ MatchesTrigger(e.text)

-----------------------------------------------------------------------------
Init ==
  /\ pc = "boot"
  /\ config \in Configs
  /\ cancelled = FALSE
  /\ backoff = 2
  /\ up \in BOOLEAN
  /\ open = 0
  /\ intact = FALSE
  /\ hung = FALSE
  /\ posts = << >> /\ buffer = << >> /\ since = 0
  /\ dispatched = << >> /\ replies = << >>

(* The chat server and its users.                                          *)

Publish(e) ==
  /\ posts' = Append(posts, e)
  /\ buffer' = IF intact THEN Append(buffer, Len(posts) + 1) ELSE buffer

Post(e) ==
  /\ Len(SelectSeq(posts, LAMBDA p : p.author = "user")) < MaxPosts
  /\ Publish(e)
  /\ UNCHANGED <<pc, config, cancelled, backoff, up, open, intact, hung, since,
                 dispatched, replies>>

ServerChanges ==
  /\ up' = ~up
  /\ UNCHANGED <<pc, config, cancelled, backoff, hung, session, posts, dispatched, replies>>

\* The reader's goroutine closes the channel behind what it has received.
Break ==
  /\ intact
  /\ intact' = FALSE
  /\ UNCHANGED <<pc, config, cancelled, backoff, chat, open, hung, buffer, since,
                 dispatched, replies>>

\* A call that hung is answered, or refused, after all.
Relent ==
  /\ hung
  /\ hung' = FALSE
  /\ UNCHANGED <<pc, config, cancelled, backoff, chat, session, dispatched, replies>>

Cancel ==
  /\ ~cancelled
  /\ cancelled' = TRUE
  /\ UNCHANGED <<pc, config, backoff, hung, chat, session, dispatched, replies>>

-----------------------------------------------------------------------------
(* serve and Run.                                                          *)

Go(next) ==
  /\ pc' = next
  /\ hung' = FALSE
  /\ UNCHANGED <<config, cancelled, backoff, chat, session, dispatched, replies>>

\* A block that is not enabled is left alone, an unusable one stops the boot.
Boot ==
  /\ pc = "boot"
  /\ Go(IF ~config.enabled THEN "off" ELSE IF Valid(config) THEN "head" ELSE "fatal")

StopAtHead == pc = "head" /\ cancelled /\ Go("returned")

\* The REST client has no time limit: a call may hang until its context ends.
HeadStep ==
  /\ pc = "head" /\ ~cancelled
  /\ pc' = "handshake"
  /\ hung' \in BOOLEAN
  /\ UNCHANGED <<config, cancelled, backoff, chat, session, dispatched, replies>>

\* GetMe, GetTeamByName and GetChannelByName, in a row and under the context.
Handshake      == pc = "handshake" /\ up /\ ~hung /\ ~cancelled /\ Go("dial")
HandshakeFails == pc = "handshake" /\ (cancelled \/ (~up /\ ~hung)) /\ Go("failed")

\* The WebSocket is dialled without the context, within the library's limit.
Dial ==
  /\ pc = "dial" /\ up
  /\ pc' = "pump"
  /\ open' = open + 1
  /\ intact' = TRUE
  /\ buffer' = << >>
  /\ since' = Len(posts)
  /\ UNCHANGED <<config, cancelled, backoff, hung, chat, dispatched, replies>>

DialFails == pc = "dial" /\ ~up /\ Go("failed")

\* Mutant: an error of the first session is taken for a clean shutdown.
GivesUp == pc = "failed" /\ Go(IF cancelled \/ backoff = 2 THEN "returned" ELSE "waiting")

Failed == pc = "failed" /\ Go(IF cancelled THEN "returned" ELSE "waiting")

\* Mutant: no upper bound.
WaitOverUncapped ==
  /\ pc = "waiting"
  /\ pc' = "head"
  /\ backoff' = 2 * backoff
  /\ UNCHANGED <<config, cancelled, hung, chat, session, dispatched, replies>>

\* Nothing ever makes the wait shorter again.
WaitOver ==
  /\ pc = "waiting"
  /\ pc' = "head"
  /\ backoff' = Min({2 * backoff, 60})
  /\ UNCHANGED <<config, cancelled, hung, chat, session, dispatched, replies>>

StopWaiting == pc = "waiting" /\ cancelled /\ Go("returned")

-----------------------------------------------------------------------------
(* The event loop: a select among the cases that are ready.                *)

\* Mutant: the socket is only closed on the way out of Run.
EndSessionLeaking(next) ==
  /\ pc' = next
  /\ open' = IF next = "returned" THEN open - 1 ELSE open
  /\ intact' = FALSE
  /\ buffer' = << >>
  /\ UNCHANGED <<config, cancelled, backoff, hung, chat, since, dispatched, replies>>

\* session returns; the deferred Close drops what is still in the channel.
EndSession(next) ==
  /\ pc' = next
  /\ open' = open - 1
  /\ intact' = FALSE
  /\ buffer' = << >>
  /\ UNCHANGED <<config, cancelled, backoff, hung, chat, since, dispatched, replies>>

\* Mutant: the context is no case of the select.
StopPumpingWhenCut == pc = "pump" /\ cancelled /\ ~intact /\ EndSession("returned")

StopPumping == pc = "pump" /\ cancelled /\ EndSession("returned")
PingTimeout == pc = "pump" /\ EndSession("failed")
EventsEnd   == pc = "pump" /\ ~intact /\ buffer = << >> /\ EndSession("failed")

\* Events are handled one at a time, a command until its reply is posted.
HandleEvent ==
  /\ pc = "pump" /\ buffer # << >>
  /\ buffer' = Tail(buffer)
  /\ IF ForUs(posts[Head(buffer)])
     THEN /\ pc' = "handling"
          /\ dispatched' = Append(dispatched, Head(buffer))
          /\ hung' \in BOOLEAN
     ELSE UNCHANGED <<pc, dispatched, hung>>
  /\ UNCHANGED <<config, cancelled, backoff, chat, open, intact, since, replies>>

\* The reply goes out over REST, under the context, as an event like others.
Reply(e) ==
  /\ pc = "handling" /\ up /\ ~hung /\ ~cancelled
  /\ pc' = "pump"
  /\ replies' = Append(replies, Last(dispatched))
  /\ Publish(e)
  /\ UNCHANGED <<config, cancelled, backoff, up, open, intact, hung, since, dispatched>>

\* Mutant: the reply is tried again for as long as the server is away.
ReplyFailsForGood == pc = "handling" /\ cancelled /\ Go("pump")

\* A failed reply is logged, no more.
ReplyFails == pc = "handling" /\ (~hung \/ cancelled) /\ Go("pump")

ListenerStep ==
  \/ Boot \/ StopAtHead \/ HeadStep \/ Handshake \/ HandshakeFails \/ Dial \/ DialFails
  \/ Failed \/ WaitOver \/ StopWaiting
  \/ StopPumping \/ EventsEnd \/ HandleEvent
  \/ (\E e \in Replies : Reply(e)) \/ ReplyFails

Next ==
  \/ ListenerStep \/ PingTimeout
  \/ \E e \in Events : Post(e)
  \/ ServerChanges \/ Break \/ Relent \/ Cancel

Spec == Init /\ [][Next]_vars

\* Run is plain code, the dial and the queries of a command have time limits; a
\* REST call has none and may hang for ever, or until the context ends.  A select
\* that is offered the end of the context again and again, beside other cases,
\* picks at random and so picks it in the end.
FairSpec == Spec /\ WF_vars(ListenerStep) /\ SF_vars(StopPumping)
-----------------------------------------------------------------------------
(* Properties.                                                             *)

Positions == Seq(1 .. Len(posts))

ListenerTypeOK ==
  /\ pc \in {"boot", "off", "fatal", "head", "handshake", "dial", "pump", "handling",
             "failed", "waiting", "returned"}
  /\ config \in Configs
  /\ {cancelled, up, intact, hung} \subseteq BOOLEAN
  /\ hung => pc \in {"handshake", "handling"}
  /\ backoff \in {2, 4, 8, 16, 32, 60}
  /\ open \in Nat
  /\ posts \in Seq(Event)
  /\ buffer \in Positions /\ dispatched \in Positions /\ replies \in Positions
  /\ since \in 0 .. Len(posts)

(* However sessions end (listener.go:162, 166-179), the next one begins, the  *)
(* listener waits, and Run returns, with no socket left open, and a session   *)
(* that pumps has one.                                                        *)
OneSocket == open = IF pc \in {"pump", "handling"} THEN 1 ELSE 0

Ascending(s) == \A i, j \in DOMAIN s : i < j => s[i] < s[j]

\* What the README promises to listen to: commands of users in the channel.
Addressed(e) ==
  e.posted /\ e.author = "user" /\ e.channel = "ours" /\ e.text # "chatter"

(* No command is run twice or out of order, across reconnections, nothing     *)
(* runs that a user has not addressed to the bot, least of all its own        *)
(* replies (listener.go:247-261), and each reply answers one of them once.    *)
CommandsOnceInOrder ==
  /\ Ascending(dispatched)
  /\ \A i \in DOMAIN dispatched : Addressed(posts[dispatched[i]])
  /\ Ascending(replies)
  /\ ToSet(replies) \subseteq ToSet(dispatched)

(* While a session lasts, no command posted in it is overlooked: it has been  *)
(* run or waits its turn (listener.go:166-179), however slow the one before.  *)
NothingOverheard ==
  pc \in {"pump", "handling"} /\ intact =>
    \A i \in since + 1 .. Len(posts) :
      Addressed(posts[i]) => i \in ToSet(dispatched) \cup ToSet(buffer)

(* Told to stop, the listener returns (listener.go:110-112), whatever it was  *)
(* doing and however many events are waiting.                                 *)
StopsWhenTold == cancelled /\ pc \notin {"off", "fatal"} ~> pc \in {"off", "fatal", "returned"}

(* Once the chat server is there for good and leaves no call hanging, there   *)
(* is always another session (listener.go:106-108): no failure, not even of   *)
(* the first look-up, is final.                                               *)
AlwaysReconnects ==
  <>[](up /\ ~hung /\ ~cancelled) => [](pc = "head" => <>(pc = "pump"))

(* A command that was received is run, unless its session ends first or a     *)
(* reply before it hangs for ever (listener.go:177, 294).                     *)
HeardIsAnswered ==
  []<>~hung => \A i \in 1 .. MaxPosts : i \in ToSet(buffer) ~> i \notin ToSet(buffer)
=============================================================================

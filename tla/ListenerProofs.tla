---------------------------- MODULE ListenerProofs ----------------------------
(***************************************************************************)
(* Proofs about the chat listener, for any events, replies and             *)
(* configurations, and however many of them.                               *)
(***************************************************************************)
EXTENDS Listener, TLAPS

Pumping == pc \in {"pump", "handling"}

(* A session's connection, and what it has received, are the session's.     *)
SocketInv ==
  /\ OneSocket
  /\ intact => Pumping
  /\ ~Pumping => buffer = << >>

LEMMA InitSocket == Init => SocketInv
  BY DEF Init, SocketInv, OneSocket, Pumping

LEMMA NextSocket == SocketInv /\ [Next]_vars => SocketInv'
<1> SUFFICES ASSUME SocketInv, [Next]_vars PROVE SocketInv'
  OBVIOUS
<1> USE DEF SocketInv, OneSocket, Pumping
<1>1. ASSUME NEW next, Go(next), (pc \in {"pump", "handling"}) = (next \in {"pump", "handling"})
      PROVE  SocketInv'
  BY <1>1 DEF Go, session
<1>13. CASE HeadStep
  BY <1>13 DEF HeadStep, session
<1>2. CASE Boot \/ StopAtHead \/ Handshake \/ HandshakeFails \/ DialFails \/ Failed \/ StopWaiting
  BY <1>1, <1>2 DEF Boot, StopAtHead, Handshake, HandshakeFails, DialFails, Failed, StopWaiting
<1>3. CASE Dial
  BY <1>3 DEF Dial
<1>4. CASE WaitOver
  BY <1>4 DEF WaitOver, session
<1>5. ASSUME NEW next \in {"failed", "returned"}, pc = "pump", EndSession(next)
      PROVE  SocketInv'
  BY <1>5 DEF EndSession
<1>6. CASE StopPumping \/ PingTimeout \/ EventsEnd
  BY <1>5, <1>6 DEF StopPumping, PingTimeout, EventsEnd
<1>7. CASE HandleEvent
  BY <1>7 DEF HandleEvent
<1>8. CASE \E e \in Replies : Reply(e)
  BY <1>8 DEF Reply, Publish
<1>9. CASE ReplyFails
  BY <1>1, <1>9 DEF ReplyFails
<1>10. CASE \E e \in Events : Post(e)
  BY <1>10 DEF Post, Publish
<1>11. CASE ServerChanges \/ Break \/ Relent \/ Cancel
  BY <1>11 DEF ServerChanges, Break, Relent, Cancel, session
<1>12. CASE UNCHANGED vars
  BY <1>12 DEF vars
<1> QED BY <1>2, <1>3, <1>4, <1>6, <1>7, <1>8, <1>9, <1>10, <1>11, <1>12, <1>13
        DEF Next, ListenerStep

(* However sessions begin and end, at most one socket is open, and none      *)
(* while the listener waits, looks the server up or has returned             *)
(* (listener.go:162, 166-179).                                               *)
THEOREM NeverTwoSockets == Spec => []OneSocket
<1>1. SocketInv => OneSocket
  BY DEF SocketInv
<1> QED BY <1>1, InitSocket, NextSocket, PTL DEF Spec

-----------------------------------------------------------------------------
(* Sequences of positions that ascend.                                     *)

LEMMA Appended ==
  ASSUME NEW s \in Seq(Nat), NEW n \in Nat
  PROVE  /\ Append(s, n) \in Seq(Nat)
         /\ ToSet(Append(s, n)) = ToSet(s) \cup {n}
         /\ Last(Append(s, n)) = n /\ Append(s, n) # << >>
         /\ Ascending(s) /\ (\A m \in ToSet(s) : m < n) => Ascending(Append(s, n))
<1> DEFINE t == Append(s, n)
<1>1. /\ t \in Seq(Nat) /\ Len(t) = Len(s) + 1 /\ t[Len(t)] = n
      /\ DOMAIN t = 1 .. Len(t) /\ DOMAIN s = 1 .. Len(s) /\ Len(s) \in Nat
      /\ \A i \in DOMAIN s : t[i] = s[i]
  OBVIOUS
<1> HIDE DEF t
<1>2. DOMAIN t = DOMAIN s \cup {Len(t)}
  BY <1>1
<1>3. ToSet(t) = ToSet(s) \cup {n}
  BY <1>1, <1>2 DEF ToSet
<1>4. ASSUME Ascending(s), \A m \in ToSet(s) : m < n PROVE Ascending(t)
  <2> SUFFICES ASSUME NEW i \in DOMAIN t, NEW j \in DOMAIN t, i < j PROVE t[i] < t[j]
    BY DEF Ascending
  <2>1. i \in DOMAIN s /\ s[i] \in ToSet(s)
    BY <1>1 DEF ToSet
  <2>2. CASE j \in DOMAIN s
    BY <1>1, <1>4, <2>1, <2>2 DEF Ascending
  <2>3. CASE j = Len(t)
    BY <1>1, <1>4, <2>1, <2>3
  <2> QED BY <1>2, <2>2, <2>3
<1>5. Last(t) = n /\ t # << >>
  BY <1>1 DEF Last
<1> QED BY <1>1, <1>3, <1>4, <1>5 DEF t

LEMMA Split ==
  ASSUME NEW s \in Seq(Nat), s # << >>
  PROVE  /\ Head(s) \in Nat /\ Tail(s) \in Seq(Nat)
         /\ ToSet(s) = ToSet(Tail(s)) \cup {Head(s)}
         /\ Ascending(s) => Ascending(Tail(s)) /\ \A m \in ToSet(Tail(s)) : Head(s) < m
<1> DEFINE t == Tail(s)
<1>1. /\ t \in Seq(Nat) /\ Len(t) = Len(s) - 1 /\ Len(s) \in Nat \ {0}
      /\ DOMAIN t = 1 .. Len(t) /\ DOMAIN s = 1 .. Len(s)
      /\ Head(s) = s[1] /\ s[1] \in Nat
      /\ \A i \in 1 .. Len(t) : t[i] = s[i + 1]
  OBVIOUS
<1> HIDE DEF t
<1>2. PICK n \in Nat : n = Len(t)
  BY <1>1
<1>3. /\ DOMAIN t = 1 .. n /\ DOMAIN s = 1 .. n + 1
      /\ \A i \in 1 .. n : t[i] = s[i + 1]
  BY <1>1, <1>2
<1>4. ToSet(s) = ToSet(t) \cup {s[1]}
  <2>1. ASSUME NEW m \in ToSet(s) PROVE m \in ToSet(t) \cup {s[1]}
    <3>1. PICK i \in 1 .. n + 1 : s[i] = m
      BY <1>3 DEF ToSet
    <3>2. CASE i # 1
      <4>1. i - 1 \in 1 .. n /\ t[i - 1] = s[(i - 1) + 1] /\ (i - 1) + 1 = i
        BY <1>3, <3>2
      <4> QED BY <1>3, <3>1, <4>1 DEF ToSet
    <3> QED BY <3>1, <3>2
  <2>2. ASSUME NEW m \in ToSet(t) PROVE m \in ToSet(s)
    <3>1. PICK i \in 1 .. n : t[i] = m
      BY <1>3 DEF ToSet
    <3>2. i + 1 \in 1 .. n + 1 /\ s[i + 1] = m
      BY <1>3, <3>1
    <3> QED BY <1>3, <3>2 DEF ToSet
  <2>3. s[1] \in ToSet(s)
    <3>1. 1 \in 1 .. n + 1
      OBVIOUS
    <3> QED BY <1>3, <3>1 DEF ToSet
  <2> QED BY <2>1, <2>2, <2>3
<1>5. ASSUME Ascending(s) PROVE Ascending(t)
  <2> SUFFICES ASSUME NEW i \in 1 .. n, NEW j \in 1 .. n, i < j PROVE t[i] < t[j]
    BY <1>3 DEF Ascending
  <2>1. i + 1 \in 1 .. n + 1 /\ j + 1 \in 1 .. n + 1 /\ i + 1 < j + 1
    OBVIOUS
  <2>2. s[i + 1] < s[j + 1]
    BY <1>3, <1>5, <2>1 DEF Ascending
  <2> QED BY <1>3, <2>2
<1>6. ASSUME Ascending(s), NEW m \in ToSet(t) PROVE s[1] < m
  <2>1. PICK i \in 1 .. n : t[i] = m
    BY <1>3 DEF ToSet
  <2>2. 1 \in 1 .. n + 1 /\ i + 1 \in 1 .. n + 1 /\ 1 < i + 1
    OBVIOUS
  <2>3. s[1] < s[i + 1]
    BY <1>3, <1>6, <2>2 DEF Ascending
  <2> QED BY <1>3, <2>1, <2>3
<1> QED BY <1>1, <1>4, <1>5, <1>6 DEF t

LEMMA LastIsOne ==
  ASSUME NEW s \in Seq(Nat), s # << >>
  PROVE  Last(s) \in ToSet(s) /\ Last(s) \in Nat
  BY DEF Last, ToSet

-----------------------------------------------------------------------------
(* What waits is new, what was run is old, and what was replied to was run. *)

Typed ==
  /\ posts \in Seq(Event)
  /\ buffer \in Seq(Nat) /\ dispatched \in Seq(Nat) /\ replies \in Seq(Nat)
  /\ since \in Nat

Waiting ==
  /\ Ascending(buffer)
  /\ \A b \in ToSet(buffer) :
       b \in 1 .. Len(posts) /\ \A d \in ToSet(dispatched) : d < b

Run ==
  /\ Ascending(dispatched)
  /\ \A d \in ToSet(dispatched) : d \in 1 .. Len(posts) /\ Addressed(posts[d])

Replied ==
  /\ Ascending(replies)
  /\ ToSet(replies) \subseteq ToSet(dispatched)
  /\ pc = "handling" =>
       dispatched # << >> /\ \A x \in ToSet(replies) : x < Last(dispatched)

HeardInv == Typed /\ Waiting /\ Run /\ Replied /\ NothingOverheard

LEMMA NothingIn ==
  ASSUME NEW s \in Seq(Nat), Len(s) = 0
  PROVE  /\ ToSet(s) = {}
         /\ Ascending(s)
<1>1. DOMAIN s = {}
  OBVIOUS
<1> QED BY <1>1 DEF ToSet, Ascending

LEMMA InitHeard == Init => HeardInv
<1> SUFFICES ASSUME Init PROVE HeardInv
  OBVIOUS
<1>1. /\ posts = << >> /\ buffer = << >> /\ dispatched = << >> /\ replies = << >>
      /\ since = 0 /\ pc = "boot"
  BY DEF Init
<1>2. posts \in Seq(Event) /\ Len(posts) = 0
  BY <1>1
<1>3. buffer \in Seq(Nat) /\ Len(buffer) = 0
  BY <1>1
<1>4. dispatched \in Seq(Nat) /\ Len(dispatched) = 0
  BY <1>1
<1>5. replies \in Seq(Nat) /\ Len(replies) = 0
  BY <1>1
<1>6. /\ ToSet(buffer) = {} /\ Ascending(buffer)
      /\ ToSet(dispatched) = {} /\ Ascending(dispatched)
      /\ ToSet(replies) = {} /\ Ascending(replies)
  BY <1>3, <1>4, <1>5, NothingIn
<1>7. Typed
  BY <1>1, <1>2, <1>3, <1>4, <1>5 DEF Typed
<1>8. Waiting /\ Run
  BY <1>6 DEF Waiting, Run
<1>9. Replied
  <2>1. pc # "handling"
    BY <1>1
  <2> QED BY <1>6, <2>1 DEF Replied
<1>10. NothingOverheard
  BY <1>1 DEF NothingOverheard
<1> QED BY <1>7, <1>8, <1>9, <1>10 DEF HeardInv

(* The code's early returns are the README's promise.                       *)
LEMMA ForUsIsAddressed ==
  ASSUME NEW e \in Event
  PROVE  ForUs(e) <=> Addressed(e)
  BY DEF Event, ForUs, Addressed, MatchesTrigger

(* An event is published: it waits if a session listens.                    *)
LEMMA PublishHeard ==
  ASSUME HeardInv, NEW e \in Event, Publish(e),
         UNCHANGED <<intact, since, dispatched>>, pc' = pc \/ pc = "handling"
  PROVE  /\ posts' \in Seq(Event) /\ buffer' \in Seq(Nat)
         /\ Waiting' /\ Run' /\ NothingOverheard'
<1> DEFINE n == Len(posts) + 1
<1> USE DEF HeardInv, Typed
<1>1. /\ posts' \in Seq(Event) /\ Len(posts') = n /\ n \in Nat /\ Len(posts) \in Nat
      /\ \A i \in 1 .. Len(posts) : posts'[i] = posts[i]
  BY DEF Publish
<1>2. buffer' = IF intact THEN Append(buffer, n) ELSE buffer
  BY DEF Publish
<1> HIDE DEF n
<1>3. n = Len(posts) + 1
  BY DEF n
<1>4. /\ buffer' \in Seq(Nat)
      /\ ToSet(buffer') = IF intact THEN ToSet(buffer) \cup {n} ELSE ToSet(buffer)
      /\ Ascending(buffer')
  <2>1. \A m \in ToSet(buffer) : m < n
    BY <1>1, <1>3 DEF Waiting
  <2> QED BY <1>1, <1>2, <2>1, Appended DEF Waiting
<1>5. Waiting'
  <2>1. \A d \in ToSet(dispatched) : d < n
    BY <1>1, <1>3 DEF Run
  <2> QED BY <1>1, <1>3, <1>4, <2>1 DEF Waiting
<1>6. Run'
  <2>1. ASSUME NEW d \in ToSet(dispatched)
        PROVE  d \in 1 .. Len(posts') /\ Addressed(posts'[d])
    <3>1. d \in 1 .. Len(posts) /\ Addressed(posts[d])
      BY DEF Run
    <3>2. d \in 1 .. n /\ posts'[d] = posts[d]
      BY <1>1, <1>3, <3>1
    <3> QED BY <1>1, <3>1, <3>2
  <2>2. dispatched' = dispatched /\ Ascending(dispatched)
    BY DEF Run
  <2> QED BY <2>1, <2>2 DEF Run
<1>7. NothingOverheard'
  <2> SUFFICES ASSUME pc' \in {"pump", "handling"}, intact,
                      NEW i \in since + 1 .. n, Addressed(posts'[i])
               PROVE  i \in ToSet(dispatched) \cup ToSet(buffer')
    BY <1>1 DEF NothingOverheard
  <2>1. CASE i = n
    BY <1>4, <2>1
  <2>2. CASE i # n
    <3>1. i \in since + 1 .. Len(posts) /\ i \in 1 .. Len(posts)
      BY <1>1, <1>3, <2>2
    <3>2. i \in ToSet(dispatched) \cup ToSet(buffer)
      BY <1>1, <3>1 DEF NothingOverheard
    <3> QED BY <1>4, <3>2
  <2> QED BY <2>1, <2>2
<1> QED BY <1>1, <1>4, <1>5, <1>6, <1>7

(* The oldest event leaves the channel, and is run if it is for the bot.    *)
LEMMA HandleHeard ==
  ASSUME HeardInv, HandleEvent
  PROVE  HeardInv'
<1> DEFINE h == Head(buffer)
<1> USE DEF HeardInv, Typed
<1>1. /\ buffer # << >> /\ buffer' = Tail(buffer) /\ pc = "pump"
      /\ UNCHANGED <<posts, intact, since, replies>>
  BY DEF HandleEvent, chat
<1>2. /\ h \in Nat /\ buffer' \in Seq(Nat) /\ ToSet(buffer) = ToSet(buffer') \cup {h}
      /\ Ascending(buffer') /\ \A m \in ToSet(buffer') : h < m
  BY <1>1, Split DEF Waiting
<1>3. h \in 1 .. Len(posts) /\ \A d \in ToSet(dispatched) : d < h
  BY <1>2 DEF Waiting
<1>4. posts[h] \in Event
  BY <1>3
<1>5. CASE ForUs(posts[h])
  <2>1. dispatched' = Append(dispatched, h) /\ pc' = "handling"
    BY <1>5 DEF HandleEvent
  <2>2. Addressed(posts[h])
    BY <1>4, <1>5, ForUsIsAddressed
  <2> HIDE DEF h
  <2>3. /\ dispatched' \in Seq(Nat) /\ ToSet(dispatched') = ToSet(dispatched) \cup {h}
        /\ Last(dispatched') = h /\ dispatched' # << >> /\ Ascending(dispatched')
    BY <1>2, <1>3, <2>1, Appended DEF Run
  <2>4. Waiting'
    BY <1>1, <1>2, <1>3, <2>3 DEF Waiting
  <2>5. Run'
    BY <1>1, <1>3, <2>2, <2>3 DEF Run
  <2>6. Replied'
    BY <1>1, <1>3, <2>3 DEF Replied
  <2>7. NothingOverheard'
    BY <1>1, <1>2, <2>3 DEF NothingOverheard
  <2> QED BY <1>1, <1>2, <2>3, <2>4, <2>5, <2>6, <2>7
<1>6. CASE ~ForUs(posts[h])
  <2>1. UNCHANGED <<dispatched, pc>>
    BY <1>6 DEF HandleEvent
  <2>2. ~Addressed(posts[h])
    BY <1>4, <1>6, ForUsIsAddressed
  <2> HIDE DEF h
  <2>3. NothingOverheard'
    BY <1>1, <1>2, <2>1, <2>2 DEF NothingOverheard
  <2> QED BY <1>1, <1>2, <2>1, <2>3 DEF Waiting, Run, Replied
<1> QED BY <1>5, <1>6

LEMMA NextHeard == HeardInv /\ [Next]_vars => HeardInv'
<1> SUFFICES ASSUME HeardInv, [Next]_vars PROVE HeardInv'
  OBVIOUS
<1> USE DEF HeardInv, Typed
<1>1. ASSUME UNCHANGED <<posts, buffer, since, dispatched, replies>>, pc' # "handling",
             pc' = "pump" /\ intact' => pc \in {"pump", "handling"} /\ intact
      PROVE  HeardInv'
  BY <1>1 DEF Waiting, Run, Replied, NothingOverheard
<1>2. ASSUME NEW next, Go(next), pc' = "pump" => pc \in {"pump", "handling"},
             next # "handling"
      PROVE  HeardInv'
  BY <1>1, <1>2 DEF Go, session, chat
<1>15. CASE HeadStep
  BY <1>1, <1>15 DEF HeadStep, session, chat
<1>3. CASE Boot \/ StopAtHead \/ Handshake \/ HandshakeFails \/ DialFails \/ Failed \/ StopWaiting
  BY <1>2, <1>3 DEF Boot, StopAtHead, Handshake, HandshakeFails, DialFails, Failed, StopWaiting, Go
<1>4. CASE ReplyFails
  BY <1>2, <1>4 DEF ReplyFails
<1>5. CASE WaitOver
  BY <1>1, <1>5 DEF WaitOver, session, chat
<1>6. ASSUME buffer' = << >>, UNCHANGED <<posts, dispatched, replies>>, pc' # "handling",
             since' \in Nat, intact' => since' = Len(posts)
      PROVE  HeardInv'
  <2>1. buffer' \in Seq(Nat) /\ ToSet(buffer') = {} /\ Ascending(buffer')
    <3>1. buffer' \in Seq(Nat) /\ Len(buffer') = 0
      BY <1>6
    <3> QED BY <3>1, NothingIn
  <2>2. Waiting'
    BY <2>1 DEF Waiting
  <2>4. Run' /\ Replied'
    BY <1>6 DEF Run, Replied
  <2>3. NothingOverheard'
    <3> SUFFICES ASSUME intact', NEW i \in since' + 1 .. Len(posts) PROVE FALSE
      BY <1>6 DEF NothingOverheard
    <3>1. Len(posts) \in Nat /\ since' = Len(posts)
      BY <1>6
    <3> QED BY <3>1
  <2> QED BY <1>6, <2>1, <2>2, <2>3, <2>4
<1>7. CASE Dial
  BY <1>6, <1>7 DEF Dial, chat
<1>8. ASSUME NEW next \in {"failed", "returned"}, EndSession(next) PROVE HeardInv'
  BY <1>6, <1>8 DEF EndSession, chat
<1>9. CASE StopPumping \/ PingTimeout \/ EventsEnd
  BY <1>8, <1>9 DEF StopPumping, PingTimeout, EventsEnd
<1>10. CASE HandleEvent
  BY <1>10, HandleHeard
<1>11. CASE \E e \in Replies : Reply(e)
  <2>1. PICK e \in Replies : Reply(e)
    BY <1>11
  <2>2. e \in Event
    BY <2>1, EventsAssumption
  <2>3. /\ pc = "handling" /\ pc' = "pump" /\ Publish(e)
        /\ replies' = Append(replies, Last(dispatched))
        /\ UNCHANGED <<intact, since, dispatched>>
    BY <2>1 DEF Reply
  <2>4. posts' \in Seq(Event) /\ buffer' \in Seq(Nat) /\ Waiting' /\ Run' /\ NothingOverheard'
    BY <2>2, <2>3, PublishHeard
  <2>5. Last(dispatched) \in ToSet(dispatched) /\ Last(dispatched) \in Nat
    BY <2>3, LastIsOne DEF Replied
  <2>6. /\ replies' \in Seq(Nat) /\ Ascending(replies')
        /\ ToSet(replies') = ToSet(replies) \cup {Last(dispatched)}
    BY <2>3, <2>5, Appended DEF Replied
  <2>7. Replied'
    BY <2>3, <2>5, <2>6 DEF Replied
  <2> QED BY <2>3, <2>4, <2>6, <2>7
<1>12. CASE \E e \in Events : Post(e)
  <2>1. PICK e \in Events : Post(e)
    BY <1>12
  <2>2. e \in Event
    BY <2>1, EventsAssumption
  <2>3. Publish(e) /\ UNCHANGED <<pc, intact, since, dispatched, replies>>
    BY <2>1 DEF Post
  <2>4. posts' \in Seq(Event) /\ buffer' \in Seq(Nat) /\ Waiting' /\ Run' /\ NothingOverheard'
    BY <2>2, <2>3, PublishHeard
  <2>5. Replied'
    BY <2>3 DEF Replied
  <2> QED BY <2>3, <2>4, <2>5
<1>13. ASSUME UNCHANGED <<pc, posts, buffer, since, dispatched, replies>>, intact' => intact
       PROVE  HeardInv'
  BY <1>13 DEF Waiting, Run, Replied, NothingOverheard
<1>14. CASE ServerChanges \/ Break \/ Relent \/ Cancel \/ UNCHANGED vars
  BY <1>13, <1>14 DEF ServerChanges, Break, Relent, Cancel, vars, session, chat
<1> QED BY <1>3, <1>4, <1>5, <1>7, <1>9, <1>10, <1>11, <1>12, <1>14, <1>15
        DEF Next, ListenerStep

LEMMA AlwaysHeard == Spec => []HeardInv
<1> QED BY InitHeard, NextHeard, PTL DEF Spec

(* Across any number of sessions and reconnections, each command that runs   *)
(* runs once, in the order of posting, was addressed to the bot by a user,   *)
(* and is replied to at most once (listener.go:232-269, 287-297).            *)
THEOREM RunsOnceInOrder == Spec => []CommandsOnceInOrder
<1>1. HeardInv => CommandsOnceInOrder
  <2> SUFFICES ASSUME HeardInv PROVE CommandsOnceInOrder
    OBVIOUS
  <2>1. \A i \in DOMAIN dispatched : dispatched[i] \in ToSet(dispatched)
    BY DEF ToSet
  <2> QED BY <2>1 DEF HeardInv, Run, Replied, CommandsOnceInOrder
<1> QED BY <1>1, AlwaysHeard, PTL

(* Whatever the number of events, a command posted during a session has been *)
(* run or is in the channel, for as long as the connection is alive          *)
(* (listener.go:166-179).                                                    *)
THEOREM HearsEverything == Spec => []NothingOverheard
<1>1. HeardInv => NothingOverheard
  BY DEF HeardInv
<1> QED BY <1>1, AlwaysHeard, PTL

-----------------------------------------------------------------------------
(* Types: those of what is heard and of the socket are above.              *)

Controls ==
  /\ pc \in {"boot", "off", "fatal", "head", "handshake", "dial", "pump", "handling",
             "failed", "waiting", "returned"}
  /\ config \in Configs
  /\ {cancelled, up, intact} \subseteq BOOLEAN
  /\ backoff \in {2, 4, 8, 16, 32, 60}
  /\ since <= Len(posts)

LEMMA InitControls == Init => Controls
<1> SUFFICES ASSUME Init PROVE Controls
  OBVIOUS
<1>1. Len(posts) = 0 /\ since = 0
  BY DEF Init
<1>2. pc = "boot" /\ config \in Configs /\ backoff = 2
  BY DEF Init
<1>3. cancelled \in BOOLEAN /\ up \in BOOLEAN /\ intact \in BOOLEAN
  BY DEF Init
<1> QED BY <1>1, <1>2, <1>3 DEF Controls

(* The wait is doubled up to a minute.                                      *)
LEMMA NextBackoff ==
  ASSUME NEW b \in {2, 4, 8, 16, 32, 60}
  PROVE  Min({2 * b, 60}) \in {2, 4, 8, 16, 32, 60}
<1>1. \E x \in {2 * b, 60} : \A y \in {2 * b, 60} : x <= y
  OBVIOUS
<1>2. Min({2 * b, 60}) \in {2 * b, 60} /\ \A y \in {2 * b, 60} : Min({2 * b, 60}) <= y
  <2> DEFINE S == {2 * b, 60}
  <2> HIDE DEF S
  <2> SUFFICES Min(S) \in S /\ \A y \in S : Min(S) <= y
    BY DEF S
  <2>1. \E x \in S : \A y \in S : x <= y
    BY <1>1 DEF S
  <2> QED BY <2>1 DEF Min
<1> QED BY <1>2

LEMMA NextControls == Typed /\ Controls /\ [Next]_vars => Controls'
<1> SUFFICES ASSUME Typed, Controls, [Next]_vars PROVE Controls'
  OBVIOUS
<1> USE DEF Controls, Typed, chat, session
<1>10. CASE HeadStep
  BY <1>10 DEF HeadStep
<1>1. CASE \/ Boot \/ StopAtHead \/ Handshake \/ HandshakeFails \/ DialFails \/ Failed
           \/ StopWaiting \/ ReplyFails
  BY <1>1 DEF Boot, StopAtHead, Handshake, HandshakeFails, DialFails, Failed, StopWaiting,
     ReplyFails, Go
<1>2. CASE Dial
  <2>1. since' = Len(posts) /\ posts' = posts /\ pc' = "pump" /\ intact' = TRUE
    BY <1>2 DEF Dial
  <2>2. UNCHANGED <<config, cancelled, backoff, up>>
    BY <1>2 DEF Dial
  <2>3. Len(posts) \in Nat
    OBVIOUS
  <2> QED BY <2>1, <2>2, <2>3
<1>9. CASE HandleEvent
  <2>1. pc' \in {"handling", pc}
    BY <1>9 DEF HandleEvent
  <2>2. UNCHANGED <<config, cancelled, backoff, up, intact, since, posts>>
    BY <1>9 DEF HandleEvent
  <2> QED BY <2>1, <2>2
<1>3. CASE WaitOver
  BY <1>3, NextBackoff DEF WaitOver
<1>4. CASE StopPumping \/ PingTimeout \/ EventsEnd
  BY <1>4 DEF StopPumping, PingTimeout, EventsEnd, EndSession
<1>5. ASSUME NEW e, Publish(e) PROVE Len(posts) <= Len(posts')
  BY <1>5 DEF Publish
<1>6. CASE \E e \in Replies : Reply(e)
  <2>1. Len(posts) <= Len(posts')
    BY <1>5, <1>6 DEF Reply
  <2>2. UNCHANGED <<config, cancelled, backoff, up, intact, since>> /\ pc' = "pump"
    BY <1>6 DEF Reply
  <2>3. Len(posts) \in Nat /\ Len(posts') \in Nat
    BY <1>6 DEF Reply, Publish
  <2> QED BY <2>1, <2>2, <2>3
<1>7. CASE \E e \in Events : Post(e)
  <2>1. Len(posts) <= Len(posts')
    BY <1>5, <1>7 DEF Post
  <2>2. UNCHANGED <<pc, config, cancelled, backoff, up, intact, since>>
    BY <1>7 DEF Post
  <2>3. Len(posts) \in Nat /\ Len(posts') \in Nat
    BY <1>7 DEF Post, Publish
  <2> QED BY <2>1, <2>2, <2>3
<1>8. CASE ServerChanges \/ Break \/ Relent \/ Cancel \/ UNCHANGED vars
  BY <1>8 DEF ServerChanges, Break, Relent, Cancel, vars
<1> QED BY <1>1, <1>2, <1>3, <1>4, <1>6, <1>7, <1>8, <1>9, <1>10 DEF Next, ListenerStep

(* Only a REST call under way can hang.                                     *)
Hanging == hung \in BOOLEAN /\ (hung => pc \in {"handshake", "handling"})

LEMMA InitHanging == Init => Hanging
  BY Zenon DEF Init, Hanging

LEMMA NextHanging == Hanging /\ [Next]_vars => Hanging'
<1> SUFFICES ASSUME Hanging, [Next]_vars PROVE Hanging'
  OBVIOUS
<1>1. ASSUME hung' = FALSE PROVE Hanging'
  BY <1>1, Zenon DEF Hanging
<1>2. ASSUME UNCHANGED <<pc, hung>> PROVE Hanging'
  BY <1>2, Zenon DEF Hanging
<1>3. ASSUME pc' \in {"handshake", "handling"}, hung' \in BOOLEAN PROVE Hanging'
  BY <1>3, Zenon DEF Hanging
<1>4. ASSUME pc \notin {"handshake", "handling"}, UNCHANGED hung PROVE Hanging'
  <2>1. hung = FALSE
    BY <1>4, Zenon DEF Hanging
  <2> QED BY <1>1, <1>4, <2>1
<1>5. CASE \/ Boot \/ StopAtHead \/ Handshake \/ HandshakeFails \/ DialFails \/ Failed
           \/ StopWaiting \/ ReplyFails \/ Relent
  BY <1>1, <1>5 DEF Boot, StopAtHead, Handshake, HandshakeFails, DialFails, Failed, StopWaiting,
     ReplyFails, Relent, Go
<1>6. CASE HeadStep \/ HandleEvent
  BY <1>2, <1>3, <1>6 DEF HeadStep, HandleEvent
<1>7. CASE Dial \/ WaitOver \/ StopPumping \/ PingTimeout \/ EventsEnd
  BY <1>4, <1>7 DEF Dial, WaitOver, StopPumping, PingTimeout, EventsEnd, EndSession
<1>8. CASE \E e \in Replies : Reply(e)
  <2>1. UNCHANGED hung /\ ~hung
    BY <1>8 DEF Reply
  <2>2. hung = FALSE
    BY <2>1, Zenon DEF Hanging
  <2> QED BY <1>1, <2>1, <2>2
<1>9. CASE (\E e \in Events : Post(e)) \/ ServerChanges \/ Break \/ Cancel \/ UNCHANGED vars
  BY <1>2, <1>9 DEF Post, ServerChanges, Break, Cancel, vars
<1> QED BY <1>5, <1>6, <1>7, <1>8, <1>9 DEF Next, ListenerStep

(* Sequences whose elements are positions.                                  *)
LEMMA PositionsTyped ==
  ASSUME NEW s \in Seq(Nat), ToSet(s) \subseteq 1 .. Len(posts)
  PROVE  s \in Positions
<1>1. \A i \in DOMAIN s : s[i] \in 1 .. Len(posts)
  BY DEF ToSet
<1> QED BY <1>1 DEF Positions

(* Every reachable state of the listener is well typed: the wait is one of   *)
(* six lengths, and whatever is handled or answered is an event there was    *)
(* (listener.go:106-140).                                                    *)
THEOREM ListenerTypeCorrect == Spec => []ListenerTypeOK
<1>1. SocketInv /\ HeardInv /\ Controls /\ Hanging => ListenerTypeOK
  <2> SUFFICES ASSUME SocketInv, HeardInv, Controls, Hanging PROVE ListenerTypeOK
    OBVIOUS
  <2>1. /\ ToSet(buffer) \subseteq 1 .. Len(posts)
        /\ ToSet(dispatched) \subseteq 1 .. Len(posts)
        /\ ToSet(replies) \subseteq 1 .. Len(posts)
    BY DEF HeardInv, Waiting, Run, Replied
  <2>2. buffer \in Positions /\ dispatched \in Positions /\ replies \in Positions
    BY <2>1, PositionsTyped DEF HeardInv, Typed
  <2>3. since \in 0 .. Len(posts)
    BY DEF HeardInv, Typed, Controls
  <2>4. {cancelled, up, intact, hung} \subseteq BOOLEAN
    BY DEF Controls, Hanging
  <2>5. hung => pc \in {"handshake", "handling"}
    BY Zenon DEF Hanging
  <2>6. open \in Nat
    BY DEF SocketInv, OneSocket
  <2>7. posts \in Seq(Event)
    BY DEF HeardInv, Typed
  <2>8. /\ pc \in {"boot", "off", "fatal", "head", "handshake", "dial", "pump", "handling",
                  "failed", "waiting", "returned"}
        /\ config \in Configs
        /\ backoff \in {2, 4, 8, 16, 32, 60}
    BY DEF Controls
  <2> QED BY <2>2, <2>3, <2>4, <2>5, <2>6, <2>7, <2>8, Zenon DEF ListenerTypeOK
<1>2. Spec => []Controls
  BY AlwaysHeard, InitControls, NextControls, PTL DEF Spec, HeardInv
<1> QED BY <1>1, <1>2, AlwaysHeard, InitSocket, NextSocket, InitHanging, NextHanging, PTL DEF Spec
=============================================================================

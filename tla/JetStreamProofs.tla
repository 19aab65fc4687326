---------------------------- MODULE JetStreamProofs ----------------------------
(***************************************************************************)
(* Facts that the proofs about natsie's components share about the servers *)
(* and the applications.                                                   *)
(***************************************************************************)
EXTENDS JetStream, ListProofs

(* What the applications do to a consumer leaves it a consumer.             *)
LEMMA ApplicationType ==
  ASSUME ServerTypeOK, NEW a \in Addresses, ApplicationStep(a)
  PROVE  ServerTypeOK'
<1> USE DEF Change
<1>1. live[a] \in ConsumerState
  BY DEF ServerTypeOK
<1>2. \A c \in ConsumerState : Change(a, c) => ServerTypeOK'
  BY DEF ServerTypeOK
<1>3. ASSUME NEW b \in BOOLEAN PROVE [live[a] EXCEPT !.bound = b] \in ConsumerState
  BY <1>1 DEF ConsumerState
<1>4. ASSUME NEW n \in Nat
      PROVE  /\ [live[a] EXCEPT !.waiting = n] \in ConsumerState
             /\ [live[a] EXCEPT !.pending = @ + 1] \in ConsumerState
  BY <1>1 DEF ConsumerState
<1>5. ASSUME NEW m \in Metas PROVE [live[a] EXCEPT !.meta = m] \in ConsumerState
  BY <1>1 DEF ConsumerState
<1>6. Gone(live[a]) \in ConsumerState
  BY <1>1 DEF ConsumerState, Gone
<1>7. clock \in Nat
  BY DEF ServerTypeOK
<1>8. ASSUME NEW m \in Metas PROVE Fresh(live[a].inc + 1, clock, m) \in ConsumerState
  BY <1>1, <1>7 DEF ConsumerState, Fresh
<1>9. CASE BindPush(a)
  BY <1>2, <1>3, <1>9 DEF BindPush
<1>10. CASE UnbindPush(a)
  BY <1>2, <1>3, <1>10 DEF UnbindPush
<1>11. CASE Poll(a)
  BY <1>2, <1>4, <1>11 DEF Poll
<1>12. CASE PollEnds(a)
  BY <1>2, <1>4, <1>12 DEF PollEnds
<1>13. CASE Ack(a)
  <2>1. \A p \in 0 .. live[a].pending : p \in Nat
    BY <1>1 DEF ConsumerState
  <2>2. \A p \in Nat : [live[a] EXCEPT !.lastAck = clock, !.pending = p] \in ConsumerState
    BY <1>1, <1>7 DEF ConsumerState
  <2> QED BY <1>2, <1>13, <2>1, <2>2 DEF Ack
<1>14. CASE Annotate(a)
  BY <1>2, <1>5, <1>14 DEF Annotate
<1>15. CASE Drop(a)
  BY <1>2, <1>6, <1>15 DEF Drop
<1>16. CASE Create(a)
  BY <1>2, <1>8, <1>16 DEF Create
<1>17. CASE Publish(a)
  BY <1>2, <1>4, <1>17 DEF Publish
<1> QED BY <1>17, <1>9, <1>10, <1>11, <1>12, <1>13, <1>14, <1>15, <1>16 DEF ApplicationStep
=============================================================================

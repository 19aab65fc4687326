------------------------------ MODULE JetStream ------------------------------
(***************************************************************************)
(* The NATS clusters natsie operates on, as internal/cleanup and           *)
(* internal/scanner see them: durable consumers that applications bind,    *)
(* poll, acknowledge, annotate, remove and recreate whenever they like.    *)
(* Nothing here is natsie's code; each operation is the least the          *)
(* CONSUMER.INFO fields natsie reads assume about the server.              *)
(***************************************************************************)
EXTENDS Naturals

CONSTANTS
  Clusters, Streams, Consumers,
  Metas,       \* the metadata maps a consumer may carry
  Initial,     \* what the addresses may hold at the start
  StartTime,   \* the server time a behaviour starts at
  MaxTime,     \* bound on the server clock
  MaxPending,  \* bound on a consumer's backlog
  MaxChanges   \* bound on what the applications do during a behaviour

ASSUME BoundsAssumption ==
  {StartTime, MaxTime, MaxPending, MaxChanges} \subseteq Nat

VARIABLES
  clock,    \* server time; 0 is "never"
  live,     \* the consumer at each address
  changes   \* how many operations the applications have performed

serverVars == <<clock, live, changes>>

\* A consumer is addressed by cluster, stream and name; deleting one and
\* creating another under the same name starts a new incarnation.
Addresses == Clusters \X Streams \X Consumers

ConsumerState ==
  [exists  : BOOLEAN,
   inc     : Nat,        \* which incarnation of this address
   created : Nat,        \* created
   pending : Nat,        \* num_pending
   bound   : BOOLEAN,    \* push_bound
   waiting : Nat,        \* num_waiting
   lastAck : Nat,        \* ack_floor.last_active, 0 when absent
   meta    : Metas]      \* config.metadata

\* Incarnations are counted from 1: 0 is a name nobody has used.
ASSUME InitialAssumption ==
  /\ Initial \subseteq [Addresses -> ConsumerState]
  /\ \A f \in Initial : \A a \in Addresses : f[a].exists => f[a].inc # 0

Fresh(n, t, m) ==
  [exists |-> TRUE, inc |-> n, created |-> t, pending |-> 0,
   bound |-> FALSE, waiting |-> 0, lastAck |-> 0, meta |-> m]

Unused(m) ==
  [exists |-> FALSE, inc |-> 0, created |-> 0, pending |-> 0,
   bound |-> FALSE, waiting |-> 0, lastAck |-> 0, meta |-> m]

Gone(c) ==
  [c EXCEPT !.exists = FALSE, !.pending = 0, !.bound = FALSE, !.waiting = 0, !.lastAck = 0]

ServerTypeOK ==
  /\ clock \in Nat
  /\ live \in [Addresses -> ConsumerState]
  /\ changes \in Nat

ServerInit ==
  /\ clock = StartTime
  /\ live \in Initial
  /\ changes = 0

\* One change by an application, within the bound.
Change(a, c) ==
  /\ changes < MaxChanges
  /\ changes' = changes + 1
  /\ live' = [live EXCEPT ![a] = c]
  /\ UNCHANGED clock

BindPush(a)  == live[a].exists /\ ~live[a].bound /\ Change(a, [live[a] EXCEPT !.bound = TRUE])
UnbindPush(a) == live[a].exists /\ live[a].bound /\ Change(a, [live[a] EXCEPT !.bound = FALSE])

Poll(a)      == live[a].exists /\ live[a].waiting = 0 /\ Change(a, [live[a] EXCEPT !.waiting = 1])
PollEnds(a)  == live[a].exists /\ live[a].waiting > 0 /\ Change(a, [live[a] EXCEPT !.waiting = 0])

\* Messages arrive; some of the backlog is delivered and acknowledged.
Publish(a) ==
  /\ live[a].exists /\ live[a].pending < MaxPending
  /\ Change(a, [live[a] EXCEPT !.pending = @ + 1])

Ack(a) ==
  /\ live[a].exists /\ live[a].lastAck # clock
  /\ \E p \in 0 .. live[a].pending :
       Change(a, [live[a] EXCEPT !.lastAck = clock, !.pending = p])

\* A controller starts, or stops, managing the consumer.
Annotate(a) ==
  /\ live[a].exists
  /\ \E m \in Metas \ {live[a].meta} : Change(a, [live[a] EXCEPT !.meta = m])

Drop(a)   == live[a].exists /\ Change(a, Gone(live[a]))
\* No application uses a name whose incarnation is 0.
Create(a) ==
  /\ ~live[a].exists /\ live[a].inc > 0
  /\ \E m \in Metas : Change(a, Fresh(live[a].inc + 1, clock, m))

Tick == /\ clock < MaxTime
        /\ clock' = clock + 1
        /\ UNCHANGED <<live, changes>>

ApplicationStep(a) ==
  \/ BindPush(a) \/ UnbindPush(a)
  \/ Poll(a) \/ PollEnds(a)
  \/ Publish(a) \/ Ack(a) \/ Annotate(a)
  \/ Drop(a) \/ Create(a)
=============================================================================

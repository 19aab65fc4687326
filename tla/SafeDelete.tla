------------------------------ MODULE SafeDelete ------------------------------
(***************************************************************************)
(* What the package comment of internal/cleanup promises (cleanup.go:1-25), *)
(* apart from how Apply goes about it: callers look at consumers, order     *)
(* the removal of those they may remove, and claim removals that were made. *)
(* No manifest is walked here, no context is cancelled, no request times    *)
(* out: an order may be carried out at any time, or never.                  *)
(***************************************************************************)
EXTENDS Naturals

CONSTANTS
  Runs,                \* the callers
  Addresses,           \* where consumers live
  ConsumerState,       \* the states a consumer may be in
  Gone(_),             \* a consumer's state after its removal
  Justified(_, _, _)   \* a call may remove the consumer at an address, seen in a state

VARIABLES
  live,       \* the consumer at each address
  inspected,  \* what each caller holds in its hand: [run, at, seen]
  orders,     \* removals ordered and not carried out: [run, entry, by, at, seen]
  removed,    \* removals carried out: [run, entry, at, inc]
  claims      \* removals reported as made: [run, entry, at]

vars == <<live, inspected, orders, removed, claims>>

Init ==
  /\ live \in [Addresses -> ConsumerState]
  /\ inspected = {} /\ orders = {} /\ removed = {} /\ claims = {}

\* A consumer goes on, ends, or is followed by another of its name.
Follows(c, d) ==
  /\ c.inc <= d.inc
  /\ d.exists /\ ~c.exists => c.inc < d.inc

\* The applications do what they like.
Use ==
  /\ live' \in [Addresses -> ConsumerState]
  /\ \A a \in Addresses : Follows(live[a], live'[a])
  /\ UNCHANGED <<inspected, orders, removed, claims>>

\* A caller looks at a consumer as it is now.
Inspect(r, a) ==
  /\ live[a].exists
  /\ inspected' = inspected \cup {[run |-> r, at |-> a, seen |-> live[a]]}
  /\ UNCHANGED <<live, orders, removed, claims>>

Forgotten(r) == {x \in inspected : x.run # r}

\* It lets the consumer be, or gives the removal up.
Spare(r) ==
  /\ inspected' = Forgotten(r)
  /\ UNCHANGED <<live, orders, removed, claims>>

\* It orders the removal of what it holds, if the call allows that.
Order(x, k, n) ==
  /\ Justified(k, x.at, x.seen)
  /\ orders' = orders \cup
       {[run |-> x.run, entry |-> n, by |-> k, at |-> x.at, seen |-> x.seen]}
  /\ UNCHANGED <<live, inspected, removed, claims>>

\* An order removes whatever consumer it finds, and is spent.
CarryOut(o) ==
  /\ orders' = orders \ {o}
  /\ IF live[o.at].exists
     THEN /\ live' = [live EXCEPT ![o.at] = Gone(@)]
          /\ removed' = removed \cup
               {[run |-> o.run, entry |-> o.entry, at |-> o.at, inc |-> live[o.at].inc]}
     ELSE UNCHANGED <<live, removed>>
  /\ UNCHANGED <<inspected, claims>>

\* A caller reports a removal that its own order made.
Claim(d) ==
  /\ claims' = claims \cup {[run |-> d.run, entry |-> d.entry, at |-> d.at]}
  /\ inspected' = Forgotten(d.run)
  /\ UNCHANGED <<live, orders, removed>>

\* The order a new element of orders is.
OrderPlaced ==
  \E o \in orders' : \E x \in inspected :
    x.run = o.run /\ Order(x, o.by, o.entry)

Next ==
  \/ Use
  \/ \E r \in Runs, a \in Addresses : Inspect(r, a)
  \/ \E r \in Runs : Spare(r)
  \/ OrderPlaced
  \/ \E o \in orders : CarryOut(o)
  \/ \E d \in removed : Claim(d)

Spec == Init /\ [][Next]_vars
=============================================================================

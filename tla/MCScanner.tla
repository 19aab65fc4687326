------------------------------ MODULE MCScanner ------------------------------
(* Small instances of Scanner and OwnerSearch for TLC.                     *)
EXTENDS OwnerSearch

CONSTANTS k1, k2, s1, s2, c1, c2, c3, x1, x2, x3

NoMeta  == [k \in {} |-> "none"]
Managed == [k \in {DefaultMetadataKey} |-> "true"]
AllMetas == {NoMeta, Managed}
FalseyWords == {"false"}
DefaultGuard == [keys |-> {}, patterns |-> {}]

\* The consumers of the first stream filter one subject, the others nothing.
Filters == [s \in Streams, n \in Consumers |-> IF s = s1 THEN "orders" ELSE NoFilter]

\* The first and the third context reach one cluster.
Routes == [x \in Contexts |-> IF x = x2 THEN k2 ELSE k1]

\* Names in the order of their letters.
Letters == [a \in Sights |->
             (CASE a[1] = x1 -> 0 [] a[1] = x2 -> 6 [] OTHER -> 12)
             + (CASE a[2] = s1 -> 0 [] OTHER -> 3)
             + (CASE a[3] = c1 -> 0 [] a[3] = c2 -> 1 [] OTHER -> 2)]

Created(m) == Fresh(1, 1, m)
Acked(c, t) == [c EXCEPT !.lastAck = t]
Backlogged(c) == [c EXCEPT !.pending = 1]

\* Idle, backlogged, once active and recently active consumers.
SomeConsumers ==
  {Created(NoMeta), Backlogged(Created(Managed)), Backlogged(Acked(Created(NoMeta), 1)),
   Acked(Created(NoMeta), 2)}
PeerConsumers == {Backlogged(Created(NoMeta)), Acked(Created(NoMeta), 2)}
RenameConsumers ==
  {Backlogged(Created(NoMeta)), Acked(Created(NoMeta), 2), Acked(Created(NoMeta), 3)}

\* Consumers at some addresses, nothing at the others.
Populated(at, states) ==
  {f @@ [a \in Addresses \ at |-> Unused(NoMeta)] : f \in [at -> states]}

Pair     == {k1} \X {s1} \X {c1, c2}
Trio     == {k1} \X {s1} \X {c1, c2, c3}
TwoSides == {<<k1, s1, c1>>, <<k1, s2, c1>>, <<k2, s1, c1>>}

\* Consumers are queried in any order, so one arrangement of each is enough.
\* The last of three is a possible heir, until the applications drop it.
Weight(c) == c.pending + 2 * c.lastAck
Arranged(f, a, b) == Weight(f[a]) <= Weight(f[b])
PairOnly ==
  {f \in Populated(Pair, SomeConsumers) :
     /\ Arranged(f, <<k1, s1, c1>>, <<k1, s1, c2>>)
     /\ f[<<k1, s1, c1>>] # f[<<k1, s1, c2>>]}
TrioOnly ==
  {f \in Populated(Trio, RenameConsumers) :
     /\ Arranged(f, <<k1, s1, c1>>, <<k1, s1, c2>>)
     /\ Arranged(f, <<k1, s1, c2>>, <<k1, s1, c3>>)
     /\ f[<<k1, s1, c3>>].lastAck = 3}
BothSides == Populated(TwoSides, PeerConsumers)
\* A subject whose work may move between two clusters.
Movable == {<<k1, s1, c1>>, <<k2, s1, c1>>}
Moving ==
  {f \in Populated(Movable, RenameConsumers) :
     f[<<k1, s1, c1>>].lastAck < 3 /\ f[<<k2, s1, c1>>].lastAck = 3}
Walks == PairOnly \cup TrioOnly \cup BothSides \cup Moving

NotGiven == [minPending |-> Unset, minIdle |-> Unset]
Ask(caller, stream, flags, peer, file, env) ==
  [caller |-> caller, stream |-> stream, minPending |-> flags.minPending,
   minIdle |-> flags.minIdle, peer |-> peer, file |-> file, env |-> env]
Least(minPending, minIdle) == [minPending |-> minPending, minIdle |-> minIdle]

\* A scan by the defaults, one by those of file and environment, one from the
\* chat, which has its own, and one with flags and a peer.
ByDefault == Ask("cli", AnyName, NotGiven, Unset, NotGiven, NotGiven)
OneStream == Ask("cli", s1, NotGiven, Unset, Least(1, 1), Least(Unset, 2))
FromChat  == Ask("chat", s1, NotGiven, Unset, Least(0, 1), NotGiven)
WithPeer  == Ask("cli", AnyName, Least(0, 2), k2, Least(1, Unset), NotGiven)
\* A search for the owner of a subject.
WhoOwns   == Ask("owner", AnyName, NotGiven, Unset, NotGiven, NotGiven)
WalkRequests == {ByDefault, FromChat, OneStream, WithPeer, WhoOwns}
WalkedBy(q) ==
  CASE q = WithPeer -> BothSides [] q = OneStream -> TrioOnly
    [] q = WhoOwns -> Moving [] OTHER -> PairOnly

\* A schedule that leaves min_idle out.
BareRequests == {Ask("bot", AnyName, Least(1, Unset), Unset, NotGiven, NotGiven)}
\* One that asks for a longer silence than any consumer is old.
PatientRequests == {Ask("cli", s1, Least(1, 3), Unset, NotGiven, NotGiven)}

\* Each scan has the consumers that it is about.
WalkInit == ReadInit /\ live \in WalkedBy(request)
WalkSpec == WalkInit /\ [][ReadNext]_readVars /\ WF_readVars(ReadStep)
=============================================================================

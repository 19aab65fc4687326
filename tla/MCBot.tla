--------------------------------- MODULE MCBot ---------------------------------
(* Small instances of Bot for TLC.                                         *)
EXTENDS Bot

CONSTANTS k1, s1, c1, c2, j1, j2, j3, hourly, nightly

NoMeta == [k \in {} |-> "none"]
OneMeta == {NoMeta}
OneConsumer == {[a \in Addresses |-> Fresh(1, 0, NoMeta)]}
FalseyWords == {"false"}
DefaultGuard == [keys |-> {}, patterns |-> {}]
AllGuards == {DefaultGuard}

ListOf(c) == [cluster |-> k1, stream |-> s1, consumer |-> c, skip |-> FALSE]
EitherOne == {<<ListOf(c1)>>, <<ListOf(c2)>>}
JustOne == {<<ListOf(c1)>>}

\* j1 and j2 are two firings of one schedule; j3 belongs to another.
Names == [j \in Jobs |-> IF j = j3 THEN nightly ELSE hourly]
=============================================================================

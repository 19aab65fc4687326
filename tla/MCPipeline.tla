------------------------------ MODULE MCPipeline ------------------------------
(* A small instance of Pipeline for TLC.                                   *)
EXTENDS Pipeline

CONSTANTS k1, s1, c1, c2

NoMeta  == [k \in {} |-> "none"]
Managed == [k \in {DefaultMetadataKey} |-> "true"]
AllMetas == {NoMeta, Managed}
FalseyWords == {"false"}
DefaultGuard == [keys |-> {}, patterns |-> {}]
AllGuards == {DefaultGuard}
NoFilters == [s \in Streams, n \in Consumers |-> NoFilter]

Created == Fresh(1, 1, NoMeta)
Backlogged(c) == [c EXCEPT !.pending = 1]
Acked(c, t) == [c EXCEPT !.lastAck = t]
Candidates ==
  [Addresses -> {Backlogged(Created), Backlogged(Acked(Created, 1)),
                 Backlogged(Acked(Created, 2)), Created, Acked(Created, 1)}]

\* `scan --delete` by the defaults, and an auto_delete schedule.
NotGiven == [minPending |-> Unset, minIdle |-> Unset]
SomeBacklog == [minPending |-> 1, minIdle |-> Unset]
DeletingScans ==
  {[caller |-> "cli", stream |-> AnyName, minPending |-> Unset, minIdle |-> Unset,
    peer |-> Unset, file |-> SomeBacklog, env |-> NotGiven],
   [caller |-> "bot", stream |-> s1, minPending |-> 1, minIdle |-> 2,
    peer |-> Unset, file |-> SomeBacklog, env |-> NotGiven]}
=============================================================================

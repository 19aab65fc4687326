------------------------------ MODULE MCNotices ------------------------------
(* A small instance of Notices for TLC.                                    *)
EXTENDS Notices

CONSTANTS s1, s2, c1, c2, p1, p2, p3, ops, log, rides, late

SomeGroups == {<<s1, Itself>>, <<s1, c1>>, <<s2, Itself>>}
\* The first stream is replicated, the second is not.
SomePlaces ==
  [g \in SomeGroups |-> IF g[1] = s2 THEN {p1} ELSE IF g[2] = Itself THEN {p1, p2, p3} ELSE {p1, p3}]
Names == [p \in Servers |-> CASE p = p1 -> 1 [] p = p2 -> 2 [] p = p3 -> 3]
\* One server was removed long ago, or none was.
Removed == {{}, {p3}}

Cap(n) == [retention |-> "limits", replicas |-> n, maxAge |-> 0, maxBytes |-> -1, maxMsgs |-> 0]
SomeLimits == [s \in Streams |-> IF s = s1 THEN [Cap(3) EXCEPT !.maxBytes = 1] ELSE Cap(1)]

SomeFindings == {<< >>, <<<<s1, c1>>>>, <<<<s1, c1>>, <<s2, c1>>, <<s2, c2>>>>}
NamesBeginning == {<<c1, "c">>}

OwnerOf(name, ss, ps, sinks) == [name |-> name, streams |-> ss, prefixes |-> ps, notify |-> sinks]
ByStream == OwnerOf("rides", {s1}, {""}, <<rides>>)
ByPrefix == OwnerOf("rest", {}, {"c"}, <<late, ops>>)

Block(k, auto, only_, sinks, os, base, key) ==
  [named |-> TRUE, kind |-> k, autoDelete |-> auto, stream |-> only_, notify |-> sinks,
   owners |-> os, baseURL |-> base, signingKey |-> key]

SomeConfigs ==
  {Block(k, FALSE, AnyStream, <<ops, log>>, << >>, TRUE, TRUE) : k \in ReportKinds}
  \cup {Block("stream-report", FALSE, s2, <<ops>>, << >>, TRUE, TRUE),
        Block("peer-check", TRUE, AnyStream, <<ops>>, << >>, TRUE, TRUE),
        Block("", FALSE, AnyStream, <<ops, "bad">>, << >>, TRUE, TRUE),
        Block("", FALSE, AnyStream, <<ops>>, <<OwnerOf("idle", {}, {}, <<ops>>)>>, TRUE, TRUE),
        Block("consumer-stale", TRUE, AnyStream, <<ops, log>>, <<ByStream>>, TRUE, TRUE)}
  \cup {Block("", FALSE, AnyStream, <<ops, log>>, os, base, key) :
           os \in {<< >>, <<ByStream, ByPrefix>>, <<ByPrefix, ByStream>>}, base, key \in BOOLEAN}
=============================================================================

------------------------------ MODULE MCCleanup ------------------------------
(* Small instances of Cleanup for TLC.  Records are written with their      *)
(* fields in the order in which TLC keeps them, as its workers share them.  *)
EXTENDS Cleanup

CONSTANTS k1, k2, s1, s2, c1, c2

Entries(cluster, skip, consumer) ==
  [cluster |-> cluster, skip |-> skip, consumer |-> consumer, stream |-> s1]

NoMeta  == [k \in {} |-> "none"]
Managed == [k \in {DefaultMetadataKey} |-> "true"]
OptedOut == [k \in {DefaultMetadataKey} |-> "false"]
\* Opted out under one key, and claimed under another.
OneOfTwo == [k \in {DefaultMetadataKey, "owner"} |->
              IF k = DefaultMetadataKey THEN "false" ELSE "true"]

\* The configurations that New accepts become Protectors.
NoRules == [keys |-> {}, patterns |-> {}]
PatternRule == [keys |-> {"owner"}, patterns |-> {[consumer |-> "glob", stream |-> AnyName]}]
EmptyRule == [keys |-> {}, patterns |-> {[consumer |-> AnyName, stream |-> AnyName]}]
BrokenRule == [keys |-> {}, patterns |-> {[consumer |-> AnyName, stream |-> "["]}]
Protectors == {New(cfg) : cfg \in {c \in {NoRules, PatternRule, EmptyRule, BrokenRule} : Accepts(c)}}
DefaultGuard == New(NoRules)
PatternGuard == New(PatternRule)
BrokenGlobs == {"["}
FalseyWords == {"false"}

Run(manifest, dry, guard) == [manifest |-> manifest, guard |-> guard, dryRun |-> dry]
Of(entries) == [entries |-> entries, generatedAt |-> 1]

\* Two calls race over one consumer.
RaceMetas == {NoMeta, Managed}
RaceInitial == [Addresses -> {Fresh(1, 1, m) : m \in RaceMetas}]
RaceCalls == {Run(Of(<<Entries(k1, FALSE, c1)>>), FALSE, DefaultGuard)}

\* One call over two clusters, with skipped entries, a consumer listed twice,
\* a pattern, a dry run.
WideMetas == {OptedOut, Managed, OneOfTwo}
WideInitial == [Addresses -> {Fresh(1, 1, m) : m \in WideMetas}]
WideManifest ==
  Of(<<Entries(k1, FALSE, c1), Entries(k2, FALSE, c1), Entries(k1, FALSE, c2)>>)
WideCalls ==
  {Run(WideManifest, FALSE, PatternGuard),
   Run(WideManifest, TRUE, PatternGuard),
   Run(WideManifest, FALSE, NoProtector),
   Run(Of(<<Entries(k1, TRUE, c1), Entries(k1, FALSE, c2), Entries(k1, FALSE, c2)>>),
       FALSE, DefaultGuard),
   Run(Of(<< >>), FALSE, DefaultGuard)}
WideMatches == {<<"glob", c2>>}
=============================================================================

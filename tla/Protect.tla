------------------------------- MODULE Protect -------------------------------
(***************************************************************************)
(* internal/protect: the veto natsie consults before every deletion.  A    *)
(* consumer whose JetStream metadata, or whose name, marks it as belonging *)
(* to an external controller is never natsie's to delete.                  *)
(*                                                                         *)
(* Names, globs, metadata keys and metadata values are atoms.  Two things  *)
(* about them matter and are parameters: which values read as "not         *)
(* managed" once trimmed and lower-cased, and which globs path.Match       *)
(* accepts, and for which names.                                           *)
(***************************************************************************)
CONSTANTS
  DefaultMetadataKey,  \* the key every Protector honours
  Falsey,              \* metadata values that opt out of protection
  AnyName,             \* the empty glob: a wildcard
  GlobMatches,         \* the pairs <<glob, name>> path.Match accepts
  BadGlobs,            \* the globs path.Match reports as malformed
  NoProtector          \* the nil *Protector, which protects nothing

\* A Pattern is [stream, consumer]; a Protector is [keys, patterns]; the
\* metadata of a consumer is a function from the keys it carries to values.
Matches(glob, name) == glob = AnyName \/ <<glob, name>> \in GlobMatches

\* The zero value of Protector has no keys and still honours the default one.
KeysOf(p) == IF p.keys = {} THEN {DefaultMetadataKey} ELSE p.keys

ByMetadata(p, meta) ==
  \E k \in KeysOf(p) \cap DOMAIN meta : meta[k] \notin Falsey

ByPattern(p, stream, consumer) ==
  \E pat \in p.patterns :
     Matches(pat.stream, stream) /\ Matches(pat.consumer, consumer)

\* Mutant: an opt-out ends the search instead of moving on to the next rule.
ReasonStoppingAtOptOut(p, stream, consumer, meta) ==
  IF p = NoProtector \/ \E k \in KeysOf(p) \cap DOMAIN meta : meta[k] \in Falsey THEN ""
  ELSE IF ByMetadata(p, meta)            THEN "metadata"
  ELSE IF ByPattern(p, stream, consumer) THEN "pattern"
  ELSE ""

\* Why the consumer is protected, "" when natsie may delete it.
Reason(p, stream, consumer, meta) ==
  IF p = NoProtector                     THEN ""
  ELSE IF ByMetadata(p, meta)            THEN "metadata"
  ELSE IF ByPattern(p, stream, consumer) THEN "pattern"
  ELSE ""

Protected(p, stream, consumer, meta) == Reason(p, stream, consumer, meta) # ""

\* New: every usable pattern constrains something and has well-formed globs.
ValidPattern(pat) ==
  /\ ~(pat.stream = AnyName /\ pat.consumer = AnyName)
  /\ {pat.stream, pat.consumer} \cap BadGlobs = {}

Accepts(cfg) == \A pat \in cfg.patterns : ValidPattern(pat)

New(cfg) == [keys     |-> {DefaultMetadataKey} \cup cfg.keys,
             patterns |-> cfg.patterns]
=============================================================================

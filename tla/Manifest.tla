------------------------------- MODULE Manifest -------------------------------
(***************************************************************************)
(* internal/manifest: the document a scan writes, an operator edits and    *)
(* approves, and Apply reads.  Only what decides a deletion is kept: when  *)
(* it was generated, which consumers it lists, and the operator's Skip.    *)
(***************************************************************************)
EXTENDS JetStream, Sequences

Entry == [cluster : Clusters, stream : Streams, consumer : Consumers, skip : BOOLEAN]
Manifest == [generatedAt : Nat, entries : Seq(Entry)]

\* The consumer an entry names.
At(e) == <<e.cluster, e.stream, e.consumer>>
=============================================================================

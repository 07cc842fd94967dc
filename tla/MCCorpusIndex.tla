---------------------------- MODULE MCCorpusIndex ----------------------------
(* Small instances of CorpusIndex.                                           *)
EXTENDS CorpusIndex
=============================================================================

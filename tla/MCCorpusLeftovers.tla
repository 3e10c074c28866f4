-------------------------- MODULE MCCorpusLeftovers --------------------------
(* Small instances of the corpus store with its leftovers.                 *)
EXTENDS CorpusLeftovers, MCCorpus

=============================================================================

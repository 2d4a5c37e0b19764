---------------------------- MODULE MCBlockCache ----------------------------
(* A small instance of BlockCache for TLC.  Blocks are interchangeable, as *)
(* are readers.                                                            *)
EXTENDS BlockCache, TLC

Symmetry == Permutations(Blocks) \cup Permutations(Readers)
=============================================================================

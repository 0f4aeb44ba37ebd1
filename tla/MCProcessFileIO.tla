-------------------------- MODULE MCProcessFileIO ---------------------------
(* Instances of ProcessFileIO.  Neither the specification nor a property   *)
(* tells one open file, or one thread, from another.                       *)
EXTENDS ProcessFileIO, TLC

Symmetry == Permutations(Descriptors) \union Permutations(Threads)
=============================================================================

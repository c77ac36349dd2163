--------------------------- MODULE MCIdiomLibrary ---------------------------
(* Small instances of IdiomLibrary.                                         *)
EXTENDS IdiomLibrary, TLC

Symmetry == 
    Permutations(Idioms) \cup Permutations(Scanners) \cup Permutations(Admins)
=============================================================================

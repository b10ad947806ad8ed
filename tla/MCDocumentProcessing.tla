------------------------ MODULE MCDocumentProcessing ------------------------
(***************************************************************************)
(* Instances of DocumentProcessing for TLC.                                *)
(***************************************************************************)
EXTENDS DocumentProcessingProps, TLC

CONSTANTS t1, t2, r1, r2, i1, i2, i3

Symmetry == Permutations({t1, t2}) \cup Permutations({r1, r2}) \cup Permutations({i1, i2, i3})
=============================================================================

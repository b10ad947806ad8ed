---------------------------- MODULE MCPdfStorage ----------------------------
(* PdfStorage for TLC: keys, and the corrections of a file, are interchangeable. *)
EXTENDS PdfStorage, TLC

CONSTANTS k1, k2, k3, v1, v2, f

Symmetry == Permutations(Keys) \cup Permutations(Turned)
=============================================================================

----------------------------- MODULE MCOrgAdmin -----------------------------
(* OrgAdmin for TLC: the clients are interchangeable.                        *)
EXTENDS OrgAdmin, TLC

Symmetry == Permutations(Clients)
=============================================================================

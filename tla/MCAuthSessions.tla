--------------------------- MODULE MCAuthSessions ---------------------------
(* AuthSessions for TLC: calls, and tabs, are interchangeable.               *)
EXTENDS AuthSessions, TLC

Symmetry == Permutations(Calls) \cup Permutations(Tabs)
=============================================================================

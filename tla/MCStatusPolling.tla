-------------------------- MODULE MCStatusPolling --------------------------
(* StatusPolling for TLC: the tab has the document parsed again while a fetch  *)
(* fails and the page changes; both the tab and another user do; or another   *)
(* user does while the user goes to another page and comes back.              *)
EXTENDS StatusPolling

Instance(r, o, f, m) == [reparses |-> r, others |-> o, failures |-> f, moves |-> m]
MCBounds == {Instance(1, 0, 1, 1), Instance(1, 1, 0, 0), Instance(0, 1, 0, 2)}
=============================================================================

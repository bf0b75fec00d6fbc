------------------------ MODULE MCSessionLifecycle -------------------------
(* Small instances of SessionLifecycle for TLC.                            *)
EXTENDS SessionInvariant
=============================================================================

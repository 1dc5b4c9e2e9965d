-------------------------- MODULE MCAcquireSession --------------------------
(* Model-checking instances of AcquireSession.  The threads of a client    *)
(* run the same code.                                                      *)
EXTENDS AcquireSession, TLC

Threads == Permutations(Writers)

=============================================================================

-------------------------- MODULE MCRequestTracing --------------------------
(***************************************************************************)
(* RequestTracing, for TLC.  Nothing tells one address from another but    *)
(* whether two are the same.                                               *)
(***************************************************************************)
EXTENDS RequestTracing, TLC

Symmetry == Permutations(Addresses)

=============================================================================

-------------------------- MODULE MCControlRequests --------------------------
(* ControlRequests for TLC: requests, and windows, are interchangeable. *)
EXTENDS ControlRequests, TLC

Symmetry == Permutations(Requests) \cup Permutations(Windows)
=============================================================================

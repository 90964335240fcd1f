----------------------------- MODULE MCSessions -----------------------------
(* TLC instance of Sessions. *)
EXTENDS Sessions, TLC

\* Every moment a Google token of this instance may expire at.
GoogleMoments == 0..MaxTime + GoogleTTL

Symmetry == Permutations(Request)
=============================================================================

-------------------------- MODULE MCStatusListing --------------------------
(* A small instance of StatusListing for TLC. *)
EXTENDS StatusListing

FourSNs == 1 .. 4
\* Below, at and above the limits, for a default of 2 and a maximum of 3.
SmallAsked == {-1, 0, 1, 3, 4}
=============================================================================

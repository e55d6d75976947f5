---------------------------- MODULE MCServicePool ----------------------------
(* A small instance of ServicePool for TLC. *)
EXTENDS ServicePool

CONSTANTS a1, w1, r1, r2, r3

ApiAndWriter  == {a1, w1}
OneWriter     == {w1}
ThreeRequests == {r1, r2, r3}
\* Unset or unparsable, which gives the positive default, and zero.
SomeIntervals == {None, 0}
SomeBatches   == {0}
=============================================================================

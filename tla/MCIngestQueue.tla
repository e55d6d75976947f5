--------------------------- MODULE MCIngestQueue ---------------------------
(* Small instances of IngestQueue for TLC. *)
EXTENDS IngestQueue, TLC

CONSTANTS d1, d2, d3, s1, s2, w1, w2

TwoDeliveries   == {d1, d2}
ThreeDeliveries == {d1, d2, d3}
OneSN  == {s1}
TwoSNs == {s1, s2}
OneWriter  == {w1}
TwoWriters == {w1, w2}
OneTime == {1}
NoTimes == {}

NoFaults == {}
\* Everything that can go wrong without leaving a row in 'processing'.
Recoverable == {"enqueue", "enqueueLost", "lock", "doneLost"}
Crashes == {"crash"}

\* Deliveries and writers are interchangeable: no definition names one.
Symmetry == Permutations(Deliveries) \cup Permutations(Writers)
=============================================================================

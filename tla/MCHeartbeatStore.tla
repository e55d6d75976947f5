-------------------------- MODULE MCHeartbeatStore --------------------------
(* Small instances of HeartbeatStore for TLC. *)
EXTENDS HeartbeatStore, TLC

CONSTANTS b1, b2, b3, s1, s2, p1, p2

TwoBeats   == {b1, b2}
ThreeBeats == {b1, b2, b3}
OneSN   == {s1}
TwoSNs  == {s1, s2}
OnePod  == {p1}
TwoPods == {p1, p2}

NoFaults == {}

FullBeats == {[given |-> "all", fits |-> TRUE]}
PartialBeats == {[given |-> "metrics", fits |-> TRUE]}
\* Complete, without the optional fields, and with a value that does not fit.
MixedBeats == {[given |-> "all", fits |-> TRUE], [given |-> "none", fits |-> TRUE],
               [given |-> "metrics", fits |-> FALSE]}

\* Beats and pods are interchangeable: no definition names one.
Symmetry == Permutations(Beats) \cup Permutations(Pods)
====

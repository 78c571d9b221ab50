------------------------------ MODULE MCRecorder ------------------------------
(* Instances of Recorder for TLC. *)
EXTENDS Recorder, TLC

CONSTANTS a, b, n1, n2

\* Two events in one namespace; a is a Warning, b is not.
OneNs       == {n1}
NsOfOne     == [u \in Uids |-> n1]
\* One event in each of two namespaces.
TwoNs       == {n1, n2}
NsOfTwo     == (a :> n1) @@ (b :> n2)
WarningsA   == {a}
AllWarnings == Uids

\* A behaviour with faults and one with a plan started again, explored apart: the
\* states after both are checked and not followed further.
OneKindOfTrouble == faults = 0 \/ replans = 0
===============================================================================

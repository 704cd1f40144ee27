----------------------------- MODULE MCSessions -----------------------------
(* Instances of Sessions for TLC.                                          *)
EXTENDS Sessions, TLC

CONSTANTS a1, a2, ann, bob

TwoUsers == {ann, bob}
TwoClients == {a1, a2}
PatientClient == {a1}
HastyClient == {a2}

\* The users are interchangeable; the run of this module is not temporal.
UserSymmetry == Permutations(TwoUsers)
=============================================================================

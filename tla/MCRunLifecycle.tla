---------------------------- MODULE MCRunLifecycle ----------------------------
(* Small instances of RunLifecycle.                                         *)
EXTENDS RunLifecycle, TLC

CONSTANTS r1, r2, t1, s1, s2

MCOwner == [r \in Runs |-> t1]
MCSymmetry == Permutations({r1, r2} \cap Runs) \cup Permutations({s1, s2} \cap Slots)
NoFaults == {}
LateSend == {"late_send"}
=============================================================================

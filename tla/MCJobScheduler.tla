--------------------------- MODULE MCJobScheduler ---------------------------
(***************************************************************************)
(* Instances of JobScheduler for TLC: one job on one or two replicas, whose*)
(* older version does not know it.                                         *)
(***************************************************************************)
EXTENDS JobScheduler, TLC

CONSTANTS j1, p1, p2

OneJob == {j1}
OneReplica == {p1}
TwoReplicas == {p1, p2}

RollingDeployment == {{j1}, {}}

Symmetry == Permutations(Replica)

=============================================================================

------------------------- MODULE MCContainerDriver -------------------------
(* Instances of ContainerDriver for TLC.                                   *)
EXTENDS ContainerDriver

AllKinds    == {"rollout", "recreate", "apply"}
RolloutOnly == {"rollout"}
=============================================================================

------------------------- MODULE MCContainerProject -------------------------
(* Documents and configurations for model-checking ContainerProject. *)
EXTENDS ContainerProject

Plain == [doc |-> "a", version |-> 0, running |-> TRUE]
WriteOnce == [doc |-> "oneshot", version |-> 1, running |-> TRUE]
\* The same version: an edit that is not to be deployed, of a project to be stopped.
Unversioned == [doc |-> "c", version |-> 1, running |-> FALSE]
Stopped == [doc |-> "oneshot", version |-> 0, running |-> FALSE]

AllConfigs == {Plain, WriteOnce, Unversioned, Stopped}
OneShotDocs == {"oneshot"}
AllFaults == FaultKinds
=============================================================================

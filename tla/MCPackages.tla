----------------------------- MODULE MCPackages -----------------------------
(***************************************************************************)
(* Instances of Packages for TLC.                                          *)
(***************************************************************************)
EXTENDS Packages, TLC

Running(uninstall) == [running |-> TRUE, uninstall |-> uninstall, there |-> TRUE]
Stopped(uninstall) == [running |-> FALSE, uninstall |-> uninstall, there |-> TRUE]

\* docker needs runtime, which has a resource of its own that wants it stopped.
TwoPackages == {"docker", "runtime"}
TwoNeeds == "docker" :> {"runtime"} @@ "runtime" :> {}

\* docker is installed, then stopped and given up to uninstalling, then destroyed.
TwoPlans == "docker" :> <<Running(FALSE), Stopped(TRUE), Gone>> @@
            "runtime" :> <<Stopped(FALSE)>>
=============================================================================

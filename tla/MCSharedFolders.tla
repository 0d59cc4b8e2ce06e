--------------------------- MODULE MCSharedFolders ---------------------------
(***************************************************************************)
(* Instances of SharedFolders for TLC.                                     *)
(***************************************************************************)
EXTENDS SharedFolders, TLC

Share(vol, desc, cow) == [vol |-> vol, desc |-> desc, cow |-> cow, origin |-> "hand"]

Want(vol, desc, cow, adopt) == [vol |-> vol, desc |-> desc, cow |-> cow, adopt |-> adopt]

Nothing == [n \in {} |-> n]

\* docker is there already and may be adopted; media is there on another volume;
\* home is there and may not be adopted; backup is Terraform's own and its flag is to
\* be turned on.
MixedConfig ==
    "docker" :> Want("volume1", "containers", FALSE, TRUE) @@
    "media"  :> Want("volume1", "films", FALSE, TRUE) @@
    "home"   :> Want("volume1", "homes", FALSE, FALSE) @@
    "backup" :> Want("volume1", "", TRUE, TRUE)
MixedShares ==
    "docker" :> Share("volume1", "", TRUE) @@ "media" :> Share("volume2", "", FALSE) @@
    "home" :> Share("volume1", "", FALSE) @@
    "backup" :> [Share("volume1", "", FALSE) EXCEPT !.origin = "terraform"]
MixedKnown == "backup" :> [vol |-> "volume1", desc |-> "", cow |-> FALSE]
=============================================================================

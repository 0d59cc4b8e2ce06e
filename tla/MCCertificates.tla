--------------------------- MODULE MCCertificates ---------------------------
(***************************************************************************)
(* Instances of Certificates for TLC.                                      *)
(***************************************************************************)
EXTENDS Certificates, TLC

ThreeResources == {"own", "le", "web"}
ThreeKinds == "own" :> "imported" @@ "le" :> "issued" @@ "web" :> "binding"
Subjects == "own" :> "shop" @@ "le" :> "cloud"
Web == "web" :> "web"
WebTarget == "web" :> "own"
Binding == Setting("none", 0, FALSE, FALSE)

\* A certificate is imported and serves the web interface; it is rotated and becomes
\* the default; then all of it is destroyed.
Rotation == <<
    "own" :> Setting("own", 1, FALSE, FALSE) @@ "web" :> Binding @@ "le" :> Gone(FALSE),
    "own" :> Setting("own", 2, TRUE, FALSE) @@ "web" :> Binding @@ "le" :> Gone(FALSE),
    "own" :> Gone(FALSE) @@ "web" :> Gone(FALSE) @@ "le" :> Gone(FALSE) >>

\* One is imported and one obtained by DSM, which has the common name of DSM's own; it is
\* the default and is then destroyed by force.
Issuance == <<
    "own" :> Setting("own", 1, FALSE, FALSE) @@ "le" :> Setting("le", 0, TRUE, TRUE)
        @@ "web" :> Gone(FALSE),
    "own" :> Setting("own", 1, TRUE, FALSE) @@ "le" :> Gone(TRUE) @@ "web" :> Gone(FALSE) >>

BothScenarios == {Rotation, Issuance}
=============================================================================

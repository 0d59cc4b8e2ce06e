--------------------------- MODULE MCReverseProxy ---------------------------
(***************************************************************************)
(* Instances of ReverseProxy for TLC.                                      *)
(***************************************************************************)
EXTENDS ReverseProxy, TLC

Settings(dest, http2) == [dest |-> dest, http2 |-> http2]

\* cloud is configured, moved to another destination with HTTP/2 and then without;
\* wiki is destroyed.
TwoResources == {"cloud", "wiki"}
TwoConfigs ==
    "cloud" :> [desc |-> "cloud", front |-> "cloud:443"] @@
    "wiki"  :> [desc |-> "wiki", front |-> "wiki:443"]
TwoPlans ==
    "cloud" :> <<Settings("one", FALSE), Settings("two", TRUE), Settings("two", FALSE)>> @@
    "wiki"  :> <<Settings("one", FALSE), Gone>>

\* Somebody may make the entry cloud by hand, with its listener or another one, or
\* another entry with its listener.
HandEntries ==
    {[desc |-> "cloud", front |-> "cloud:443", dest |-> "by hand"],
     [desc |-> "cloud", front |-> "other:443", dest |-> "by hand"],
     [desc |-> "other", front |-> "cloud:443", dest |-> "by hand"]}
=============================================================================

---------------------------- MODULE MCGovernance ----------------------------
(****************************************************************************)
(* Governance for TLC: what common.yaml declares of two branches, and three *)
(* generators, one of each way of checking.                                 *)
(****************************************************************************)
EXTENDS Governance, TLC

MCBranches == <<"master", "release">>

MCChecks == [master |-> [strict |-> FALSE, contexts |-> {"Tests"}], release |-> [strict |-> FALSE, contexts |-> {}]]

MCNone == [strict |-> FALSE, contexts |-> {"none"}, rest |-> {}]

MCLabels == <<"homepage", "oidc", "platform-json">>

MCRevisions == 1..3

\* Version 2 has a page more, and 3 a file less than 2; the manifest refuses the one,
\* homepage crashes on the other, where the client of a hash is missing, too.
MCOutputs ==
    "homepage" :> <<{"services"}, {"services", "page"}, {"page"}>> @@
    "oidc" :> <<{"authelia"}, {"authelia"}, {"authelia"}>> @@
    "platform-json" :> <<{"platform"}, {"platform"}, {"platform"}>>

MCListing == "homepage" :> {} @@ "oidc" :> {"authelia"} @@ "platform-json" :> {"platform"}

MCDirectory == "homepage" :> {"services", "page"} @@ "oidc" :> {"authelia"} @@ "platform-json" :> {"platform"}

MCRefused  == {<<"platform-json", 2>>, <<"oidc", 3>>}
MCCrashing == {<<"homepage", 3>>}
=============================================================================

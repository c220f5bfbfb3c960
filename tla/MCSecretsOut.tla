---------------------------- MODULE MCSecretsOut ----------------------------
(****************************************************************************)
(* SecretsOut for TLC: one source for each way of delivering one.  The      *)
(* bouncer's key is in two Secrets, and one route falls back to another.    *)
(****************************************************************************)
EXTENDS SecretsOut, TLC

CONSTANTS alice, bob

MCSources == {"bouncer", "token", "admin", "user", "page", "log"}

MCKindOf ==
    "bouncer" :> "required" @@ "token" :> "optional" @@ "admin" :> "superadmin" @@
    "user" :> "users" @@ "page" :> "routes" @@ "log" :> "routes"

MCFileOf == [s \in MCSources |-> CASE s = "admin" -> "declared" [] s = "token" -> "common" [] OTHER -> "env"]

MCTakes ==
    "crowdsec" :> {"bouncer", "admin"} @@ "traefik" :> {"bouncer", "token"} @@
    "rendered" :> {"user", "page", "log"}

MCFallback == [s \in MCSources |-> IF s = "log" THEN "page" ELSE s]
=============================================================================

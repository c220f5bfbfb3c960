--------------------------- MODULE MCSecretsVault ---------------------------
(****************************************************************************)
(* SecretsVault for TLC, with one key for each way a secret is treated.     *)
(****************************************************************************)
EXTENDS SecretsVault, TLC

CONSTANTS alice, bob

MCKeys == {"storage", "client", "digest", "password", "n8n", "argo"}

MCKindOf ==
    "storage" :> "token" @@ "client" :> "client" @@ "digest" :> "digest" @@
    "password" :> "password" @@ "n8n" :> "token" @@ "argo" :> "hub"

MCSourceOf == [k \in MCKeys |-> IF k = "digest" THEN "client" ELSE k]

MCSeeded == {"storage", "client", "digest", "password", "argo"}
=============================================================================

--------------------------- MODULE SecretsPromise ---------------------------
(****************************************************************************)
(* What the commands promise of the credentials in force, whatever files    *)
(* they are kept in: filling the gaps changes nothing that has a value,     *)
(* renewing leaves what is immutable, moving a credential from one file to  *)
(* another changes nothing, and only a person removes one.  Nothing is      *)
(* promised once a rewrite was interrupted with the file in clear text, nor *)
(* while a command works from a file that it could not read.                *)
(****************************************************************************)
EXTENDS Integers

CONSTANTS Keys, Immutable

VARIABLES value,   \* the credentials in force, 0 for one that is absent
          job,     \* what the command at work is for
          broken   \* whether a file was left in clear text or could not be read

vars == <<value, job, broken>>

Gaps == {k \in Keys : value[k] \in {-1, 0}}

Init ==
    /\ value \in [Keys -> Int]
    /\ job = "none"
    /\ broken = FALSE

Changed == {k \in Keys : value'[k] # value[k]}

Fill  == job' = "fill"  /\ Changed \subseteq Gaps
Renew == job' = "renew" /\ Changed \cap Immutable \subseteq Gaps /\ \A k \in Changed : value'[k] # 0
Rest  == job' \in {"none", "move"} /\ Changed = {}
Hand  == job' = "hand"

Next == broken \/ Fill \/ Renew \/ Rest \/ Hand

Spec == Init /\ [][Next]_vars
=============================================================================

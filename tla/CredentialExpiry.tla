-------------------------- MODULE CredentialExpiry --------------------------
(****************************************************************************)
(* When the credentials that others issue stop working, asked of those who  *)
(* issued them: `secrets check-expiry`, the same as a part of `secrets      *)
(* audit`, and `secrets preauth-keys`, which reports the tickets to the     *)
(* tailnet and expires those that are named.  The tokens are read once, out *)
(* of every SOPS file, and a file that sops does not decrypt counts as      *)
(* empty.  Meanwhile time passes, keys are minted anew and machines         *)
(* register.                                                                *)
(****************************************************************************)
EXTENDS Integers, Sequences

CONSTANTS Tokens,     \* the provider-issued secrets with a check, in their order
          Envs,       \* the SOPS files, in the order in which they are searched
          Distinct,   \* whether two files may hold different tokens under one path
          ApiKeys,    \* the API keys of Headscale,
          Tickets,    \* and its pre-auth keys, in their order
          MaxEdits, MaxFaults

VARIABLES stored,     \* of each file and token: its serial number, or 0
          left,       \* what is left of each issued token: "long", "short", "none"
          keys,       \* and of each API key, or "gone"
          tickets,    \* of each ticket: whether it lives, is reusable and was used
          named,      \* the tickets that someone named to be expired
          job,        \* the command that runs
          report,     \* what the last one reported
          edits, faults

issued == <<stored, left, keys, tickets, named>>
vars   == <<issued, job, report, edits, faults>>

TokenSet  == {Tokens[i] : i \in DOMAIN Tokens}
EnvSet    == {Envs[i] : i \in DOMAIN Envs}
TicketSet == {Tickets[i] : i \in DOMAIN Tickets}
Lives     == {"long", "short", "none"}
Serials   == 1..2

Idle == [pc |-> "idle", what |-> "none", at |-> 1, blind |-> {}, soon |-> {}, doomed |-> {}, missed |-> {},
         read |-> [c \in TokenSet |-> 0], seen |-> {}, want |-> {}]

\* A mutant: the file of the first environment and no other.
DigFirst(c, files) == IF Envs[1] \in files THEN stored[Envs[1]][c] ELSE 0

\* The first value that the files have under a path.
Dig(c, files) ==
    LET has == {i \in DOMAIN Envs : Envs[i] \in files /\ stored[Envs[i]][c] # 0} IN
    IF has = {} THEN 0 ELSE stored[Envs[CHOOSE i \in has : \A j \in has : i <= j]][c]

Soon(l) == l # "long"
Live    == {k \in TicketSet : tickets[k].live}

\* What is in some of the files and expires soon, a token by its serial number; and the
\* API keys that do.
DyingIn(files) == {t \in TokenSet \X Serials : Soon(left[t[1]][t[2]]) /\ \E e \in files : stored[e][t[1]] = t[2]}
DyingKeys      == {<<"headscale", k>> : k \in {x \in ApiKeys : keys[x] \in {"short", "none"}}}

Init ==
    /\ stored \in [EnvSet -> [TokenSet -> 0..1]]
    /\ left \in {[c \in TokenSet |-> [n \in Serials |-> IF n = 1 THEN l ELSE "long"]] : l \in {"long", "short"}}
    /\ keys \in [ApiKeys -> {"long", "gone"}]
    /\ tickets = [k \in TicketSet |-> [live |-> TRUE, reusable |-> k = Tickets[1], used |-> FALSE]]
    /\ named = {}
    /\ job = Idle /\ report = "nothing"
    /\ edits = 0 /\ faults = 0

-----------------------------------------------------------------------------
Hand   == edits < MaxEdits /\ edits' = edits + 1
Fault  == faults < MaxFaults /\ faults' = faults + 1
End(r) == job' = Idle /\ report' = r

Begin(j) ==
    /\ job.pc = "idle"
    /\ Hand
    /\ job' = j
    /\ report' = "nothing"

\* A file that sops fails on, or that is in clear text, is read as empty each time.  The
\* fields "doomed" and "missed" are auxiliary: what was to expire soon when the command
\* began, and what of it was in no file that it could read.
AskOf(what) ==
    /\ \E files \in SUBSET EnvSet :
        /\ IF files = EnvSet THEN UNCHANGED faults ELSE Fault
        /\ Begin([Idle EXCEPT !.pc = "ask", !.what = what, !.read = [c \in TokenSet |-> Dig(c, files)],
                              !.doomed = DyingIn(EnvSet) \cup DyingKeys,
                              !.missed = DyingIn(EnvSet) \ DyingIn(files)])
    /\ UNCHANGED issued

CheckExpiry == AskOf("check")
Audit       == AskOf("audit")

\* What an issuer says of a token; one that is dead it refuses, and so cannot be asked.
GithubPat(l) == CASE l = "none" -> "cannot-ask" [] l = "short" -> "soon" [] OTHER -> "fine"

\* A mutant: an issuer that cannot be asked is passed over.
AskLeniently ==
    /\ job.pc = "ask" /\ job.at <= Len(Tokens)
    /\ LET c == Tokens[job.at]
           v == job.read[c] IN
       job' = [job EXCEPT !.at = @ + 1,
                          !.soon = IF v # 0 /\ GithubPat(left[c][v]) = "soon" THEN @ \cup {c} ELSE @]
    /\ UNCHANGED <<issued, report, edits, faults>>

\* A token that was in no file that could be read is warned of and no more; the audit
\* says so of all else, too.
Ask ==
    /\ job.pc = "ask" /\ job.at <= Len(Tokens)
    /\ LET c == Tokens[job.at]
           v == job.read[c]
           answer == IF v = 0 THEN "absent" ELSE GithubPat(left[c][v]) IN
       \/ /\ job' = [job EXCEPT !.at = @ + 1,
                                !.soon = IF answer = "soon" THEN @ \cup {c} ELSE @,
                                !.blind = IF answer = "cannot-ask" THEN @ \cup {c} ELSE @]
          /\ UNCHANGED faults
       \/ v # 0 /\ Fault /\ job' = [job EXCEPT !.at = @ + 1, !.blind = @ \cup {c}]
    /\ UNCHANGED <<issued, report, edits>>

\* An empty list is a failed query: every hub reads an API key when it boots.
AskHeadscale ==
    /\ job.pc = "ask" /\ job.what = "check" /\ job.at > Len(Tokens)
    /\ LET there == {k \in ApiKeys : keys[k] # "gone"}
           soon  == job.soon \cup {k \in there : Soon(keys[k])} IN
       \/ /\ End(IF there = {} \/ job.blind # {} THEN "cannot-check" ELSE IF soon # {} THEN "expiring" ELSE "fine")
          /\ UNCHANGED faults
       \/ Fault /\ End("cannot-check")
    /\ UNCHANGED <<issued, edits>>

\* The report in an audit asks of the tokens alone and never fails it.
ReportExpiry ==
    /\ job.pc = "ask" /\ job.what = "audit" /\ job.at > Len(Tokens)
    /\ End("audited")
    /\ UNCHANGED <<issued, edits, faults>>

-----------------------------------------------------------------------------
\* The tickets are listed once, and those named are expired one by one.
PreauthKeys ==
    /\ \E S \in SUBSET (TicketSet \cup {"unknown"}) :
        /\ Begin([Idle EXCEPT !.pc = "list", !.what = "preauth", !.want = S])
        /\ named' = named \cup S
    /\ UNCHANGED <<stored, left, keys, tickets, faults>>

ListTickets ==
    /\ job.pc = "list"
    /\ \/ job' = [job EXCEPT !.pc = "expire", !.seen = Live] /\ UNCHANGED <<report, faults>>
       \/ Fault /\ End("cannot-check")
    /\ UNCHANGED <<issued, edits>>

\* A mutant: the first ticket of the list, whatever its number.
ExpireFirst ==
    /\ job.pc = "expire" /\ job.want # {}
    /\ \E k \in Live : tickets' = [tickets EXCEPT ![k].live = FALSE]
    /\ \E k \in job.want : job' = [job EXCEPT !.want = @ \ {k}]
    /\ UNCHANGED <<stored, left, keys, named, report, edits, faults>>

\* By number, never by what is displayed of the key; an unknown number stops it.
Expire ==
    /\ job.pc = "expire"
    /\ \E k \in job.want :
        \/ /\ k \in TicketSet
           /\ tickets' = IF k \in job.seen THEN [tickets EXCEPT ![k].live = FALSE] ELSE tickets
           /\ job' = [job EXCEPT !.want = @ \ {k}] /\ UNCHANGED <<report, faults>>
        \/ k \notin TicketSet /\ End("refused") /\ UNCHANGED <<tickets, faults>>
        \/ /\ k \in job.seen /\ Fault /\ End("cannot-check")
           /\ tickets' \in {tickets, [tickets EXCEPT ![k].live = FALSE]}
    /\ UNCHANGED <<stored, left, keys, named, edits>>

Reported ==
    /\ job.pc = "expire" /\ job.want = {}
    /\ End("listed")
    /\ UNCHANGED <<issued, edits, faults>>

-----------------------------------------------------------------------------
\* Time passes for one credential.
Shorter(l) == CASE l = "long" -> "short" [] l = "short" -> "none" [] OTHER -> l

TimePasses ==
    /\ Hand
    /\ \/ \E c \in TokenSet, n \in Serials :
            left' = [left EXCEPT ![c][n] = Shorter(@)] /\ UNCHANGED <<keys, tickets>>
       \/ \E k \in ApiKeys : keys[k] # "gone" /\ keys' = [keys EXCEPT ![k] = Shorter(@)] /\ UNCHANGED <<left, tickets>>
    /\ UNCHANGED <<stored, named, job, report, faults>>

\* A token is minted anew and put into the files that have one, or into one of them.
Remint ==
    /\ Hand
    /\ \E c \in TokenSet :
        \E E \in SUBSET EnvSet :
            /\ E # {} /\ (Distinct \/ \A e \in EnvSet \ E : stored[e][c] = 0)
            /\ stored' = [e \in EnvSet |-> IF e \in E THEN [stored[e] EXCEPT ![c] = 2] ELSE stored[e]]
    /\ UNCHANGED <<left, keys, tickets, named, job, report, faults>>

\* A machine registers; what is not reusable is spent.
Register ==
    /\ \E k \in Live : ~tickets[k].used /\ tickets' = [tickets EXCEPT ![k].used = TRUE, ![k].live = tickets[k].reusable]
    /\ Hand
    /\ UNCHANGED <<stored, left, keys, named, job, report, faults>>

Next ==
    \/ CheckExpiry \/ Audit \/ Ask \/ AskHeadscale \/ ReportExpiry
    \/ PreauthKeys \/ ListTickets \/ Expire \/ Reported
    \/ TimePasses \/ Remint \/ Register

Spec == Init /\ [][Next]_vars

-----------------------------------------------------------------------------
TypeOK ==
    /\ stored \in [EnvSet -> [TokenSet -> 0..2]] /\ left \in [TokenSet -> [Serials -> Lives]]
    /\ keys \in [ApiKeys -> Lives \cup {"gone"}]
    /\ tickets \in [TicketSet -> [live : BOOLEAN, reusable : BOOLEAN, used : BOOLEAN]]
    /\ named \subseteq TicketSet \cup {"unknown"}
    /\ job.pc \in {"idle", "ask", "list", "expire"}
    /\ report \in {"nothing", "fine", "expiring", "cannot-check", "audited", "refused", "listed"}

\* A check that finds nothing was told so by every issuer: what was to expire soon when
\* it began is never passed over, unless it is in no file that it could read.  Tickets
\* that a command says it expired admit nobody.
FineIsSo ==
    /\ job.pc # "idle" /\ report' = "fine" => job.doomed \subseteq job.missed
    /\ job.pc = "expire" /\ job.want # {} /\ report' = report
        => \A k \in job.want \ job'.want : ~tickets'[k].live

\* A ticket stops admitting only by being used or by being named.
TicketsStay == \A k \in TicketSet : tickets[k].live \/ tickets[k].used \/ k \in named
=============================================================================

# Specifications of kubelab's toolkit

TLA+ models of the parts of this repository that act on shared, remote state:
what they promise, how they keep it when calls fail, answers are lost and other
people are at work, and proofs that hold for every size of the system. The
modules are translated from the source under `src/`; line numbers are in
`PROJECT.json` ("map").

    tlc -workers 2 -config gitea_solo.cfg MCGiteaReconcile.tla
    tlapm GiteaReconcileProofs.tla

| section | what is modelled | runs | proofs |
|---|---|---|---|
| 3 | the Gitea reconciler | `gitea_solo`, `gitea_duo` | `GiteaReconcileProofs` |
| 4 | the rotation of the forge's machine tokens | `tokens_alone` | `GiteaTokensProofs` |
| 5 | the handover of a spoke between two Argo CD hubs | `hub_handover` | `HubHandoverProofs` |
| 6 | the credential files and the two ways out of them | `vault_alone`, `secrets_out`, `secrets_render` | `SecretsVaultProofs`, `SecretsOutProofs` |
| 7 | thirteen operator's commands: the cluster, its machine, monitoring, imports, the board, backups, sign-on | `operations`, `reclaim_runners`, `backup_password` | `OperationsProofs` |
| 8 | what reaches master and production: promotion, pruning, gates, branch protection, generated files | `governance`, `review_declared` | `GovernanceProofs` |

## 1. The system

kubelab is a home platform: k3s clusters, a VPS, a Gitea forge, Argo CD hubs, and
the `toolkit` command line that keeps them as a declaration says. Almost all of
its logic is Python under `toolkit/features/`; `toolkit/cli/` wires it to
commands, `infra/` holds the declarations, Ansible roles and n8n flows, and
`apps/api` a small Go server. No process of the toolkit runs all the time: a
command reads remote state, decides, and makes remote calls one after another.
What is hard is the same everywhere: the state it decided on is old by the time
it acts, any call may fail or succeed without an answer, two operators or an
operator and a scheduled job run at once, and the recovery from all of it is to
run the command again.

| component | state it keeps or changes | operations | what is hard | what makes it correct |
|---|---|---|---|---|
| Gitea reconciler (`gitea_repos.py`, `cli/services.py`) | organizations, teams, repositories, settings, webhooks of the forge | `gitea reconcile`, six passes of `execute`, `ensure_*`, `drop-empty` | stale plan, partial failure, lost answers, 200 without effect, two operators | adds only what is declared and missing, removes only declared shells, reports everything once, converges |
| Gitea tokens (`gitea_tokens.py`, role `beelink_services`) | two tokens on the forge, their values in SOPS, the admin password in both | revoke, clear, mint, record, probe, reassert | crash between two steps, lost answers, a mint gated on the key being absent | never a second live token, a dead key is never silent nor for good |
| Hub pause and resume, spoke unregistration | two Argo CD hubs, Applications, finalizers, credentials, a spoke | pause, resume, unregister, install, register, deploy | a pod that terminates and writes, a deletion that cascades, a command that stops half-way | at most one hub writes to a spoke, no cascade, a re-run completes |
| Secrets manager, credentials (`secrets_manager.py`, `credentials.py`) | two SOPS files per environment, the password of Uptime Kuma | generate, init, hash, jwks, rotate, set, unset, edit, extract | a rewrite that is interrupted with the file in clear text, a digest derived from another secret, a read that fails and counts as empty | what is immutable and could be read is never regenerated, digests belong to their sources |
| Kubernetes secrets (`k8s_secrets.py`) | Secrets in a cluster | apply | values read one by one while another command rewrites them | never a partial Secret, one value is the same everywhere, converges |
| Secret Manager sync (`gcp_secret_sync.py`) | versions in Google Secret Manager | collect, add, destroy | a failure between add and destroy, two syncs | the newest enabled version is never destroyed |
| Cluster tunnel, kubeconfig (`k8s_connect.py`, `k8s_kubeconfig.py`) | a state file, ssh processes, known_hosts, a kubeconfig | connect, disconnect, status, fetch | orphans, reused pids, a node rebuilt between two fetches | no bridge without an owner, a fetch recovers |
| Cluster deploy (`cli/infra.py`) | generated manifests, the cluster, an Application's revision, pods | generate, dry run, bootstrap, deploy, restart, set-revision, deploy-apps, check-drift | five steps that fail one by one beside Argo CD | what it reports is so, nothing that Argo CD would be refused |
| Managed instance group, Headscale nodes | one machine, its names on the mesh, a route | stop, start, recreate, recycle-stale | a machine that is preempted between the plan and the delete | the name of the living machine is not taken, the route comes back |
| Kill switch and its proof | what a Cloud Function is pointed at, billing of two projects | prove; publish, deliver, detach | a topic that delivers late and again; a proof that dies | the hub is capped, the switch points at it |
| Monitoring (`monitoring.py`, `monitoring_diff.py`) | monitors of Uptime Kuma, a seed in git | apply, export, bootstrap, backup, restore | lost answers, deletions that take time, monitors made by hand | converges, one monitor per key, no history is lost |
| n8n import | workflows in a database and in a process | import, publish, restart | live only after a restart; the cluster restarts the pod | what is reported imported is live |
| Vikunja reconciler | namespaces, labels, webhooks | list, create | creation without uniqueness, answers without their content | one of each, unless an answer left it out |
| Docker reclaim | runners, builders, volumes of a node | stop, list, remove, start | jobs starting meanwhile, a runner that does not stop or start | what a job uses stays, the runners return |
| PVC drill | a claim, an alert | create, wait, delete | an alert that is older than the drill | no claim left, the alert is its own |
| Backup destination | a bucket, restic repositories, a password | verify, verify-restic, coverage, health, generate-password | an answer of four calls, a notification, a password in one of two files | a verdict is so, a password that was seen is replaced by force only |
| Sign-on (`configure_oidc.py`, `grafana_admin_identity.py`) | one client secret in five places, an administrator in two | configure, hashes, reconcile | a failure between any two | pass and match are so |
| Credential expiry | tokens of three issuers, tickets | check-expiry, audit, preauth-keys | a check that could not ask, a file that could not be read | silence means that what could be read was asked about |
| Board | fields and parents of issues | set, streams, priority, sweep, parts | people at the board between read and write | what people gave is kept, converges |
| Promotion, registry pruning | pins in git, overlays, tags | promote, release, prune | a pruning that overlaps a promotion | a pinned tag can be pulled |
| Review attestation, spec gate | commit statuses, verdicts | classify, publish, judge | runs of two concurrency groups, cancelled runs, edits after the verdict | a status is current, a merge is signed |
| Branch protection | GitHub's protection objects | plan, put, verify | a PUT replaces all | nothing undeclared is lost |
| Generated files (`cli/sync.py`) | files in git | sync, sync --check | a check that generates in place | the worktree is put back, the verdict is so |
| GitHub secrets, delivery health, probes, Docker services, lessons, rendering, API server | none, or a one-way push | | | section 10 |

Components interact through what they share: SOPS files (credentials are written
by one command and read by all), the forge (reconciler, token rotation), the
clusters (hubs, spokes, deploys, secrets), git (pins, overlays, generated files), and
n8n (import, the webhooks the reconciler registers). Where two components write the
same state in this project's models they are in one module: the forge's tokens and the
vault's keys in `GiteaTokens`, hubs and spokes in `HubHandover`, a deploy and Argo CD in
`ClusterDeploy`, promotion, release and pruning in `ImageDelivery`.

## 2. Plan

1. **Gitea reconciler and drop-empty** (done, with proofs).
2. **Gitea tokens** (done, with proofs).
3. **Hub handover** (done, with proofs). Left: the generations of a spoke's token
   (`rotate-spoke-token`).
4. **Credential files** (done, with proofs): `SecretsVault` against `SecretsPromise`;
   delivery to a cluster and to the secret manager, composed by `SecretsOut`.
5. **Operator's commands** (done, with proofs): thirteen modules, composed by `Operations`.
6. **Governance** (done, with proofs): five modules, composed by `Governance`.
7. Left for the prover: nothing that a run checks, of what the prover can reach. Every
   invariant and every action property of a passing run is a theorem, of some of them under
   the hypotheses that sections 6 to 8 name; the liveness properties (`ForgeConverges`,
   `TokensReturn`, `DetachCompletes`, `ResumeTakes`, `DeliveryConverges`, `SyncConverges`,
   `OperationsConverge`) need fairness and stay with TLC.
8. Left to model: n8n's forge-sync flow with its duplicated events, the preemption and
   drain scripts of the Ansible roles, the runner's registration token.

## 3. The Gitea reconciler

### Modules

* **`GiteaForge`**: the forge and the calls on it. A team is known by what its
  grant lacks (`absent`, `short` of what creating and pushing needs, `usable`,
  `full`), a repository by its existence, visibility, whether its settings are as
  declared, whether it holds content, whether an import is running, and its
  webhooks *at the declared URL* (hooks elsewhere never matter: `find_declared_hook`
  compares the URL alone). Every write has the condition under which Gitea accepts
  it (`MayX`) and the change it makes. `ByHand` is everything the web interface
  and `git push` may do to a forge: create, delete, push, flip visibility, reset
  settings, narrow a team, remove the bot, break or delete a webhook. Gitea is
  not part of the repository, so these conditions are those the client's
  docstrings and callers rely on.
* **`GiteaReconcile`**: first `plan_reconcile`, `is_noop` and `plan_drop`, pure functions of
  a view (`Migrated`, `DeclPrivate` and so on are the declaration). Then operators, each running one command at a time. `pc` is
  where the command is, `view` what it has read, `todo` what is left of the current
  pass, `at` the organization or repository an `ensure_*` function is working on,
  `done` and `failed` the `ExecutionReport`. One action per remote call; a pass takes
  its targets in any order (the code sorts them). The actions, in the order of the
  command:

  | action | code |
  |---|---|
  | `Start`, `ListOrgs`, `ListRepos`, `ReadTeam`, `ReadRepo`, `ReadHooks`, `ReadFails` | the reads of `gitea_reconcile` |
  | `ReportMatch`, `PlanOnly`, `Apply` | no-op, plan only, credentials and `execute` |
  | `PostOrg` | pass 1 |
  | `GetTeam`, `PostTeam`, `RegetTeam`, `PatchTeam`, `CheckTeam`, `PutMember` | pass 2, `ensure_team` call by call |
  | `PostRepo`, `PostMigration`, `MigrationWithoutToken` | passes 3 and 4 |
  | `PatchRepo`, `CheckRepo` | pass 5, `ensure_settings` |
  | `SendHook`, `CheckHook`, `HookWithoutSecret` | pass 6, `ensure_webhook` |
  | `EndPass` | a loop ends, the next one begins |
  | `ReadShell`, `DropShell` | `gitea_drop_empty` |
  | `EditByHand`, `Import` | people, and migrations that finish |

  A write has up to four outcomes: applied and answered; applied and the answer
  lost (a failure in the report, a change on the forge); rejected or never arrived;
  answered 2xx without being applied as sent. The last is modelled for the calls
  whose docstrings report it: team writes, `PATCH /repos`, webhook writes.
* **`ForgeInventory`**: the abstract promise. The toolkit adds a declared
  organization or repository that is missing, with the declared visibility, in an
  organization that exists; removes a declared repository; and touches nothing
  else. People may do anything, one edit at a time. `InventoryKept` in
  `GiteaReconcile` instantiates it (`INSTANCE ForgeInventory`, same variable names).
* **`MCGiteaReconcile`**: two initial forges for TLC, empty (`MCInit`) and the empty
  shells of the first migration attempt (`ShellInit`). `found` says with which of them a
  behaviour began, and `Affordable` how many faults and edits that one is given.

`calm` is a history variable: true while nobody but the operator itself has
touched the forge since its command began. Properties that speak of the forge (and
not of the report) assume it, because with others at work they cannot hold.

### What is checked

`gitea_solo`, one operator (two organizations of which one is declared empty, one
repository to create, one to migrate and one that is not declared; any number of re-runs),
on an empty forge with three sets of credentials, two failures and one edit or drop, and
on a forge full of shells with one failure and two edits or drops:

* `ExactReport`: at every moment the report is exactly the planned targets of the
  finished passes that no recorded failure keeps from being attempted, plus the part
  of the current pass that is no longer left. It is stated with `Quarantined`, the
  set of targets behind a recorded root cause, and not with the `failed_orgs` and
  `failed_repos` the code computes.
* `NoCallAmiss`: while nobody else interferes, each call still to be made is one
  the forge accepts, however many earlier calls failed, which is what the quarantine
  is for; and no repository gets a second webhook at the declared URL.
* `ReportedIsSo`: a run without failures has converged the forge, in spite of
  writes that were answered 200 and not applied, and "forge matches the declaration"
  is said only of a forge that does.

* `InventoryKept`: the toolkit implements `ForgeInventory`.
* `ForgeConverges`: once failures and edits are over, the forge ends up as declared.

`gitea_duo`, two operators on one empty forge: `EveryItemAccounted` and
`OneCauseOneFailure`.

Two operators whose plans both saw no webhook will each create one, and nothing
removes the second: that part of `NoCallAmiss` is checked for one operator only.
No document claims that two runs may overlap.

Three gaps are in the model and no property claims otherwise. The bot's membership is
the last call of `ensure_team` and no plan ever looks at it, so a failure there is never
made good (`ReportedIsSo` and `ForgeConverged` leave membership out). The assertions after
a team write cover three of the fields sent. Content that arrives between the read and
the delete of `drop-empty` is deleted with the shell.

### Bounds, and why they are enough

`MaxFaults` bounds calls that fail or are answered untruthfully, `MaxEdits` changes by
hand and drop-empty commands (one fault less on the shells, one edit less on the empty
forge, `Affordable`); commands are re-run without bound. Two organizations
distinguish "the failing one" from "another one", one of them without repositories
as the declaration of ADR-065 has it; two repositories cover both ways of making one;
`shells` adds one that is not declared. Two failures make every pair of passes fail
together. `nextHook` stays finite because a hook is created only when a read saw none,
which takes a failure or an edit. Two operators with one organization and repository
already interleave every pair of calls; more does not add a pair.

### Fairness

`ForgeConverges` is `<>[]ForgeConverged` under: a command that is started goes on
(weak fairness of `Run`, the program is sequential and its calls time out), operators
start it again (`Start`), a plan that keeps asking for `--apply` is applied some day
by one who has all the credentials (strong fairness: in between the operator may have chosen
to plan only, or lacked some of them), a drop that
was read is carried out, and migrations finish. Failures and edits are bounded, so
they stop. Nothing is assumed of the order of two operators.

### What is proved

For every declaration, forge, number of operators, failures and edits:

| theorem | statement |
|---|---|
| `TypeCorrect` | `Spec => []TypeOK` |
| `IntegrityKept` | `Spec => []WellFormedForge` |
| `InventoryImplemented` | `Spec => InventoryKept` |
| `ReportIsExact` | `Spec => []ExactReport` |
| `EveryItemIsAccounted` | `Spec => []EveryItemAccounted` |
| `OneCauseIsOneFailure` | `Spec => []OneCauseOneFailure` |
| `ViewsAgree` | `Spec => []ViewsAreSure` |
| `NoCallIsDoomed` | `Spec => []NoDoomedCall` |
| `WhatIsReportedIsSo` | `"usable" \notin PartialGrants` gives `Spec => []ReportedIsSo` |
| `NoCallIsAmiss` | one operator and `AtMostOneHook` at the beginning give `[]NoCallAmiss` |

The assumptions are `OrgOfAssumption` (a repository has an organization),
`DeclarationAssumption` (a declared repository's organization is declared) and
`RunAssumption` (the kinds of the bounds).

`TypeOK` contains `AtFits`, which is not about types alone: in the midst of a pass
`at` is a declared organization or repository. Without it `TypeOK` is not
inductive. `WellFormedForge` (nothing outlives what it belongs to) is needed for the
refinement: `AddRepo` of `ForgeInventory` asks that the organization exists, and for
a repository created by the bot that follows from the bot's membership of a team of
that organization. The refinement maps a call that changes the inventory to the
abstract action, an edit to `ByHand`, and everything else to a stutter; a drop
command spends an edit when it reads, which is a `ByHand` that changes nothing.

`ExactReport` is inductive by itself together with `TypeOK`. The proof
is about one operator at a time: another operator's step changes
nothing it speaks of (`SameFits`). `WorkForms` shows that the planned targets outside
`Quarantined` are those the code computes with `failed_orgs` and `failed_repos`.
`WorkStands` is the heart: a failure recorded in a pass takes nothing from the work of
that pass or an earlier one. A step of `execute` then either decides one of the
targets left (`DecidedFits`) or leaves as much as there was (`PendingFits`), and
`EndPassFits` shows that the next worklist is exactly the next pass's work. The two
theorems after it are consequences of the invariant.

The last four need what an operator knows. `Sure(p)` says it, target by target, of
organizations, repositories, teams, settings and webhooks: what p's run has read, and has
not changed since, is what the forge has; what it has reported done is there; what its plan
does not contain need not be done. `ViewsAreSure` claims that of each operator whose run is
still `calm`: nobody else has touched the forge since it began. It is inductive together
with `TypeOK` and `ExactReport`: a step of another operator that changes the forge takes
the calm from p, and p's own step is followed call by call, a lost answer included. From it,
each call that a run has left is one the forge accepts (`NoDoomedCall`), and the report of a
run that ends is what the forge has (`ReportedIsSo`). The hypothesis on `PartialGrants` is the
code's own limit: `ensure_team` asserts that a team can be used for code, and does not
look whether every unit was granted; with a forge that grants less than that and says so
nowhere the report is wrong of that unit. `NoCallAmiss` also says that no webhook is made
twice (`HooksAreSure`). That needs one operator (two that plan at the same time both
create it, see above) and a forge found without two webhooks at the same URL in one
repository: the code would not clean that up, and people's edits in the model add none.

Only model-checked: the liveness property, out of the prover's reach.

Left out: paging (a listing is one read); the secret a webhook carries; the text of
reports and plans, and the closing line on what the bot owns; a malformed `migrate_from`
(the same as a refused call); the branches of `execute` for a missing client, which no
command reaches; organizations and teams deleted by hand.

## 4. The rotation of the forge's tokens

The bot and the superadmin each have one access token. `gitea rotate-token --apply`
revokes it and clears its key in SOPS; the provisioning play mints a new one when, and
only when, the key is absent. Each half alone does harm: a cleared key over a live
token makes the play mint a second credential, a recorded token that is dead keeps the
gate shut.

**`GiteaTokens`**. Tokens are numbered as they are minted, 0 is an absent key;
passwords are numbered alike. `saw` is the vault as a command read it at its start (the
configuration of the rotation, the decrypted file of the play), and it is what every
later decision uses; `copy` is the vault as the `sops` of one rewrite read it, since a
rewrite reads the whole file and writes the whole file.

| action | code |
|---|---|
| `PlanRotation`, `Revoke`, `RevokeRefused`, `RevokeFails` | `gitea_rotate_token` up to the DELETE: 404 is success, a wrong password or two tokens of one name are refused, an answer may be lost |
| `Clear`, `Cleared`, `ClearFails` | `unset_secret`, which ends in success, or in REVOKED BUT NOT CLEARED |
| `KillRotation` | the operator's shell |
| `StartPlay`, `SkipMint`, `Mint`, `MintFails`, `Record`, `Recorded`, `RecordFails` | the mint and record tasks of either token |
| `Probe`, `Reassert` | the probe of the admin password and its repair, between the two tokens |
| `StopPlay` | a task that fails ends the play |
| `ChangePassword` | `secrets set`, or the web interface |

`lost` holds the tokens whose value nobody has any more: the play stopped between
minting one and recording it. Such a token stays live under its name, a second mint
gives the account two of that name, and from then on Gitea refuses to revoke by name.
The code has no answer to that, so `NoSecondCredential` excepts them, and says so.

`tokens_alone`: one operator and one play, one command at a time (`Overlap = FALSE`),
two rotations, two failures, kills or lost answers, and one change of the password.

* `NoSecondCredential`: no two tokens with known values, whatever fails.
* `DeadTokenIsAnnounced`: a recorded token that is dead has a rotation at work on it or
  one that ended in an error. Were it silent nobody would run the command again.
* `BothHalves`: a rotation that ends well leaves no token and no key.
* `TokensReturn`: once rotations and failures cease, both recorded tokens are honoured
  for good.

With `Overlap = TRUE` `BothHalves` fails when a rotation runs during a play: the
rotation read "no key" before the play recorded one, revokes the play's token, leaves
the key and reports success. The docstring's "BOTH HALVES OR NEITHER" does not except
this; no step of the code keeps the two apart. `NoSecondCredential` fails as well: `sops`
reads the whole file and writes it back, so that of two rewrites at once one loses its key,
or its clearing (`secrets_manager.py:1755`).

Two failures make a rotation fail and its re-run, or a rotation and the play after it; one
change of the password suffices because the play reads and repairs it each time. A
second operator of either kind changes nothing while commands exclude each other.

Fairness: a command that runs goes on (each call has a timeout); a rotation that ended
in an error is run again, as its message asks; the node is provisioned again and again,
as `make provision` is the way it is kept up to date. The last two are strong, since other
commands may be at work at any given moment.

`GiteaTokensProofs` proves, for any operators, plays, rotations, failures and changes of
the password, all but the first under `~Overlap`, without which they are false:

| theorem | statement |
|---|---|
| `TypeCorrect` | `Spec => []TypeOK` |
| `NoSecondToken` | `Spec => []NoSecondCredential` |
| `DeadTokensAreAnnounced` | `Spec => []DeadTokenIsAnnounced` |
| `BothHalvesAreDone` | `Spec => BothHalves` |

They follow from the invariant `Sound` (`CommandsAreSound`): at most one command runs;
what it saw and copied is still true (`Fits`), its token is revoked while it clears, and
the key is absent and its token live while it records; every honoured token that is not
lost is recorded or in the hands of the play that minted it (`Accounted`).
`NoSecondCredential` is not inductive without `Accounted`: the gate looks at the key, and
only `Accounted` says that an absent key means no token. `SoundStep` reduces the
invariant to the one command that moves. `TokensReturn` is model-checked only.

Left out: the registration token of the Actions runner, minted by the same play; the
reasons for which Ansible decrypts an empty vault; `prune-runners`.

## 5. The handover of a spoke between two hubs

Two Argo CD hubs are live during a migration, and "exactly one may write to any given
spoke". `hub-pause` scales a hub's application-controller to 0 and waits until no pod
is listed; `hub-resume` is the way back; `unregister-spoke` removes from one hub the
Application and the credential of one spoke, and its first call strips the finalizer
whose deletion would prune the spoke.

**`HubHandover`**. For each hub: the wanted `replicas`, the phase of the controller's
`pod`, for each spoke an Application (`guarded` by the finalizer, `bare`, `deleting`,
`absent`), the credentials it holds (`key`). For each spoke: whether the account behind
those credentials has rights (`rbac`), and which hub wrote to it last (`deployed`, or
`pruned`). `said` is what a command has last reported of a hub, and the operators'
plan depends on it: a hub is started, or given a spoke while it runs, only when every
other hub with a credential for it was reported paused (`MayRun`, `Yielded`). That is
the procedure the module's docstring describes; the code does not enforce it.

| action | code |
|---|---|
| `StartScale`, `Scale`, `ScaleFails`, `WaitEnds`, `WaitFails` | `set_hub_paused`: one scaling, checked, then `wait_for_pods` |
| `StartDetach`, `Strip`, `Delete`, `Gone`, `Unkey`, `Unbind`, `DetachFails` | `unregister_spoke`: the four calls of its plan in order; "not found" goes on, any other failure stops it |
| `StartInstall`, `Drain`, `Install`, `InstallFails` | `make deploy-argocd`: everything to 0 with failures ignored, then the chart, which wants one controller |
| `RegisterSpoke`, `DeployApps` | `make register-spoke`, `make deploy-apps` |
| `DeleteByHand` | a person who wants the spoke pruned |
| `PodCreated`, `PodRuns`, `PodDeleted`, `PodGone`, `PodEvicted` | Kubernetes; `make restart-argocd` evicts |
| `Sync`, `Cascade` | the controller writes, or prunes for an Application that is deleted |

A pod that terminates is still listed and still writes, which is the reason for the
wait. A call that fails may have had its effect. `DeployApps` gives the finalizer back
to an Application that is bare, and leaves one that is being deleted.
History variables: `said`, `unfinished` (detachments that ended in an error), `doomed`
(what a person has deleted).

`hub_handover`: two hubs, one spoke, one operator, any number of commands, one failure,
interruption, eviction or deletion by hand.

* `PauseHolds`: a hub that was reported paused has no pod, and goes on to have none until
  a later command on it. It speaks of what the command read some time ago.
* `SingleWriter`: never two hubs that both run their controller, Application and
  credential for one spoke.
* `WorkloadsStay`: a spoke is pruned only because a person has deleted an Application,
  never by a detachment that fails between its calls.
* `DetachedIsDetached`: a detachment that ends well has removed the Application and the
  credential, however it had been interrupted before.
* `DetachCompletes`: an interrupted detachment is completed by running it again.
* `ResumeTakes`: a hub that was reported resumed comes to run, unless another command
  intervenes.

Two hubs are the system's; one spoke suffices, since commands and credentials are per
spoke and the plan treats them alike; one failure interrupts each command at each of its
calls, and the re-run follows. Fairness: a command that runs goes on, Kubernetes does what
is asked of it, and a detachment that failed is run again. Nothing is assumed of the
controllers.

Known of this code, and in the model, without a property that claims otherwise: a resume is
reported as soon as a pod is listed, which may be pending, or the old one terminating;
and the removal of the shared rights is the one call without `--kubeconfig`, and goes to
whatever cluster the default context names (`Contexts`, here the spoke itself).

With `Overlap = TRUE` (and two operators for the second) TLC finds two races that no step
of the code prevents, and that the theorems therefore exclude: `make deploy-apps` between
the strip and the delete restores the finalizer, so that the delete cascades and "the
spoke's workloads were not touched" is printed (`WorkloadsStay`); and a pause during
`make deploy-argocd` sees the hub that the installation has drained and is reported,
before the chart starts the controller (`PauseHolds`).

`HubHandoverProofs` proves, for any hubs, spokes, operators and number of failures, all
but the first under `~Overlap`:

| theorem | statement |
|---|---|
| `TypeCorrect` | `Spec => []TypeOK` |
| `PausesHold` | `Spec => []PauseHolds` |
| `OneWriter` | `Spec => []SingleWriter` |
| `WorkloadsAreKept` | `Spec => WorkloadsStay` |
| `DetachmentsAreDone` | `Spec => DetachedIsDetached` |

The invariant `Sound` has four parts, each inductive with those before it.
`OneAtATime`: one command runs. `PausesAreKept`: a paused hub has no pod *and wants
none*; a command that waits for a stop has asked for it; a command that starts a hub has
first taken back what was said of it. Without the wanted replicas `PauseHolds` is not
inductive: a pod absent for another reason (evicted) would return. `HubsYield`: of two
hubs with a credential for one spoke one is paused; with the former this gives
`SingleWriter`. `DetachmentsAreStaged`: after each call of a detachment what the next
one relies on, and only what a person has deleted is being deleted. The two liveness
properties are model-checked only.

Left out: `register-spoke` is one step, although it removes the rights for a moment
before it applies them again; the token behind a credential and its rotation; the
dry run; the applicationset-controller, which generates nothing here.

## 6. The credential files and the ways out of them

### The files: `SecretsVault`

`common.enc.yaml` and the file of one environment, which is laid over it. `data` is what
each file holds, `form` whether sops can read it, `kuma` the password that Uptime Kuma
accepts (it keeps its own). Per operator: the command, how far it is (`pc`), the file it
rewrites, the values it has read (`seen`), will set (`pick`), was given (`typed`) and will
write (`copy`), the digests it still has to set (`todo`). Values that a command generates
are all new, so one number stands for all of one command; a digest is the number of what it
was made from. `ended` is a history variable: the last command when it ended well.

A decryption that fails is read as an empty file (`credentials.py:286`,
`configuration.py:94`), and keeps nothing from writing that file a moment later. What a
command goes by is therefore chosen: `Gets` takes what is there, or, at the cost of a
fault, less. `blind` is the history of that: the command at work took something that is in
a file for absent.

| action | code |
|---|---|
| `Generate`, `Reconcile`, `ReconcileFails` | `credentials generate`: `_read_existing_secrets`, `_preserve_immutable`, both files, then `_reconcile_external_credentials` |
| `InitSecrets`, `ForceSecrets` | `init_machine_secrets`, without flags and with `--force` or a key |
| `Hash`, `HashGoesOn` | `hash_oidc_secrets`, with the client secrets it has to make first |
| `Extract`, `Share` | `extract_common_secrets` |
| `Decrypt`, `Write`, `Seal`, `CannotDecrypt`, `CannotSeal` | `batch_update_secrets` and `_encrypt_sops_file`: decrypt, write in clear text over the file, encrypt in place |
| `Rotate`, `Derive`, `CannotDerive`, `Rotated` | `rotate_secret` and `_rotate_derived`, key by key |
| `SetByHand`, `EditOpens`, `EditSaves`, `Told` | `secrets set`, `unset`, `edit` |
| `Kill` | Ctrl-C anywhere |

`SecretsPromise` is the abstract promise: filling the gaps changes nothing that has a
value, renewing leaves what is immutable, moving a credential between files changes
nothing, only a person removes one; and nothing is promised once a rewrite was
interrupted with the file in clear text, or while a command works from a file that it could not read.
`PromiseKept` instantiates it with the values in
force (the environment's over the common ones) as `value`.

`vault_alone` (one key for each way a secret is treated: an immutable token, a client
secret and its digest, the common password, a shared token, a hub value; three commands in
a row, one call of them failing, a first read included, or one of them interrupted; from a vault that is whole or lacks any of its
machine secrets, here or there, with placeholders):

* `ImmutableKept`: an immutable value of the environment is changed by hand or not at all,
  except by a `generate` that could not read the file it is in (`Blindly`): that one makes
  every value anew, and "MUST NOT be regenerated if they already exist" (`IMMUTABLE_SECRETS`)
  does not hold of it.
* `DigestsFollow`: after `generate` or `hash` has ended well, each digest in force is that
  of the client secret in force.
* `PromiseKept`: the refinement. It takes three commands to break it: one that is
  interrupted, one that reads what was left, one that relies on it. An `init` that could not
  read one of the two files sees gaps where there are none, and counts as renewing: it leaves
  what is immutable. Of a `generate` or an `extract` that could not read nothing is promised
  (`Misled`): the one renews all, the other may move a credential over another one.

Three commands suffice: what one leaves, what the next makes of it, and whether the third
finds it. `init` reads both files through the merged configuration; an audit that read the
environment's alone (mutant `EnvAlone`) would shadow every shared secret with a new value.

Clear text and two commands at once. A rewrite that is killed between `Write` and `Seal`
leaves the file in clear text, which reads as empty: `LeftInClear`, and then
`SecretsPromise` promises nothing. `ImmutableKept` holds even so, because a rewrite of such
a file fails at its decryption. With `Overlap = TRUE` it is false: a `generate` that starts
between the two steps of another one's rewrite reads an empty file, makes every value anew,
and finds the file encrypted again when it writes. No code or document keeps two commands
apart; the theorems exclude it by `~Overlap`.

`SecretsVaultProofs`, for any catalog with `CatalogAssumption` (an immutable key is a token
derived from nothing, and is not shared) and `PairAssumption` (a digest is that of a client
secret, and is not made without it), any operators, commands, failures and interruptions:

| theorem | statement |
|---|---|
| `TypeCorrect` | `Spec => []TypeOK` |
| `ImmutableIsKept` | `~Overlap` gives `Spec => ImmutableKept`, with its exception `Blindly` |
| `DigestsAreOfSecrets` | `~Overlap` gives `Spec => []DigestsFollow` |
| `FilesKeepThePromise` | `~Overlap` gives `Spec => PromiseKept`, with its exceptions `Misled` and `LeftInClear` |

`ImmutableKept` is an action property, proved from `Inv`: one command runs (`OneAtATime`);
how far a command is says which it is (`Staged`); and a command that will rewrite the
environment's file sets, of each immutable key that is there, the value that is there or
none, unless it is a `generate` that is blind (`Spares`). The condition on `form` in `Spares`
is the point: a `generate` that read a file in clear text has picked new values for all, and
is harmless only because it cannot decrypt what it could not read. One that read a sealed
file and got nothing is not harmless, which is the exception. `Moves` says of the command that acts that it keeps its part
and changes no immutable value; `OnlyOwn` and `OthersRest` say that nobody else is at work.

`DigestsFollow` is proved from `PairInv`: while a command runs no other has ended
(`Quiet`), and how far `generate` or `hash` is says which secrets and digests it has set or
still takes from the file (`FirstHalf`, `SecondHalf`, `Hashes`), up to the pairs that are in
force once it has ended well. `PromiseKept` is the refinement, step by step, from
`PromiseInv`: a command that fills gaps sets only keys that it saw absent in files that
it could read (`Fills`, `Adds`), and one that moves credentials has taken from the
environment's file what it writes to the common one before it removes it there (`Taken`,
`Extracts`). A step of the code maps to the step of `SecretsPromise` of the same purpose
(`Promised`) or to a stutter.

### To a cluster: `SecretDelivery`

`secrets apply`: `Load` reads the values taken as they are, `Render` once more for each of
the superadmin, the users of Authelia and the routes of Apprise, `Apply` and `NotApplied`
are one Secret each; `LoadRefuses` and `RenderRefuses` end the run before anything is
written. Meanwhile the vault changes (`Edit`) and files are in clear text for a while
(`Uncover`, `Cover`). `live` is what the cluster holds, a rendered Secret having an entry per
user or route.

* `KeptByApply`: no apply takes a required value or the superadmin out of a live Secret,
  or puts a placeholder in its place.
* `CopiesAgree`: two Secrets that take the same value agree after a run that says it
  applied all, although the vault changes while it runs.
* `DeliveryConverges`: the cluster ends up with what the vault holds, a removed value
  included.

`secrets_render` is a finding (section 9).

### To the secret manager: `SecretManagerSync`

The boot secrets of the GCP hub, collected from the vault and from a spoke that may be
switched off, and written as versions, call by call; every call may fail, or not answer
although it took effect. `NewestStays`: no version is destroyed before a newer one is
there, however many syncs overlap. `SyncConverges`: the latest version is the value in force
in the end.

`SecretsOut` composes both: a behaviour does one or the other, for the two share nothing
that either writes. `MCSecretsOut` gives its constants values (`secrets_out`). Six sources,
one for each way of delivering; three Secrets, two of which share one; one operator, two
edits of the vault, one failure; two syncers on two items, one change, one failure. Fairness:
an apply and a sync that are run go on and are run again, and a file in clear text is
encrypted again by whoever left it.

`SecretsOutProofs`, for any sources, bundles, items, operators, syncers, edits and failures:

| theorem | statement |
|---|---|
| `TypesHold` | `Spec => []TypeOK` |
| `AppliesAreWhole` | `Spec => KeptByApply` |
| `CopiesHold` | `~Overlap` gives `Spec => []CopiesAgree` |
| `NewestIsKept` | `Spec => NewestStays` |

The invariant (`Kept`) says that neither a Secret nor an apply under way has a placeholder
where a value is required, and that an apply that writes has the superadmin (`Admitted`): it
would have refused otherwise. Of a sync that is about to destroy it says
that each version on its list is older than one that is enabled (`OnlyOld`); another sync
that overlaps adds versions, which are newer still. `CopiesAgree` needs that one apply runs
at a time (`OneRun`); then each Secret that it has written has the values of the one reading.

## 7. Operator's commands

Thirteen modules that share no variable but have the same ways to go wrong. `Operations`
instantiates each with constants of its own: an initial state picks one, the part, and only
that one takes steps, so that one run checks them all. Properties are conjunctions, one
conjunct per part. `MCOperations` gives the constants values for TLC and adds the fairness:
that of a part is stated in its module (`Fairness`) and repeated there, conditions of
different parts being joined into one where they can be: a behaviour stays with its part, so
that weak or strong fairness of a disjunction of steps of different parts is that of the one
it has.

| part | module | code | instance |
|---|---|---|---|
| access | `ClusterAccess` | `k8s connect`, `disconnect`, `status`, `fetch-kubeconfig` | one operator, three pids that are reused, one rebuild, one fault |
| monitors | `MonitorSync` | `monitoring apply`, `export`, `bootstrap`, `backup`, `restore` | two entries of three keys and names, two edits, one fault |
| machine | `HubMachine` | instance group stop, start, recreate; `recycle-stale`; the route | four builds, two faults |
| switch | `KillSwitch` | `gcp_killswitch_proof.py`, the Cloud Function | two proofs, two faults |
| drill | `PvcDrill` | `pvc_drill.py` and the alert pipeline | two drills after an old one, two faults |
| reclaim | `DockerReclaim` | `node reclaim --apply` | two runners, two jobs, two faults |
| import | `N8nImport` | `infra n8n import` | two workflows, one edit, two faults |
| vikunja | `VikunjaReconcile` | `vikunja_reconciler.py` | five items, two edits, one fault |
| board | `Board` | `board set`, `streams`, `priority`, `sweep`, `parts` | two issues, batches of two, one edit, one fault |
| deploy | `ClusterDeploy` | `k8s generate`, `dry-run`, `bootstrap`, `deploy`, `restart`; `argo set-revision`, `deploy-apps`, `check-drift`; Argo CD | four configurations (good, with a mutable tag, refused to the spoke, not rendering), two files, two edits, one fault |
| backup | `BackupDestination` | `backup verify`, `verify-restic`, `coverage`, `health`, `generate-password` | two nodes, two edits, one fault |
| sign-on | `SignOn` | `configure_oidc.py`, `sync_oidc_hashes.py`, `reconcile-grafana-admin` | two logins, two edits, one fault |
| expiry | `CredentialExpiry` | `secrets check-expiry`, `audit`, `preauth-keys` | two tokens in two files, one key, one ticket, two edits, one fault |

State and actions, where they are not the obvious ones:

* `ClusterAccess`. `proc` is what each pid is (`free`, `bridge`, `stopping`), `bound` which
  bridge listens, `statefile` the pid the toolkit knows, `machine` the generation of the node,
  `known` and `kubeconfig` the generations known_hosts and the kubeconfig are of. A pid that
  is free may be another process' tomorrow: `Stop` looks at what runs under it.
* `MonitorSync`. A monitor is its id, and with it its history; deletions take time
  (`going`); a create that fails may have made the monitor (`Create`). `ReuseNames = FALSE`: people do not
  give an entry a name that is in use, which would be adopted by its name when keys are stamped.
* `HubMachine`. A build joins the mesh under the hub's name if it is free and under a
  suffixed one if not; the machine may be preempted at any step. A dead node that holds the
  name is deleted and the living one renamed, in two calls.
* `KillSwitch`. The topic delivers a message at some time, and again as long as the function
  fails; the proof repoints the function, publishes, polls, restores, verifies.
* `PvcDrill`. `evidence` is what the alert's query still finds of a claim that is gone;
  `cause` the drill whose claim made the alert pending. `Hasty = FALSE`: a drill is not begun
  while an earlier claim may still make the alert fire without firing yet.
* `DockerReclaim`. A job makes a builder with a volume, both outlive it; a builder is old when
  it was created longer ago than a job takes. Image pruning is a call that may fail.
* `N8nImport`. The call in flight dies with the pod; a workflow that was imported and
  published is live after a restart only.
* `Board`. One command at a time with edits by hand; a request that fails may have written
  a part of its batch; `parts` links issues one by one.
* `ClusterDeploy`. A configuration is a version: what the values declare, what each
  generated file was rendered from, what each file of the cluster says. Argo CD applies a
  revision whole or not at all, and CI keeps what is merged renderable.
* `VikunjaReconcile`. A 204, an empty body or anything that is no list is taken for an empty
  list (`vikunja_client.py:39-72`). `List` gets what there is or, at the cost of a fault, a part
  of it, and the question whether a project has its webhook may be answered empty
  (`Create`); what an answer left out is made a second time. `missed` is the history of that:
  how often each item was there and an answer had left it out.
* `BackupDestination`. The token's rights are constant in a behaviour; a repository has the
  password it was made with; the playbook names it after the node's hostname, and so does the
  coverage. The password may be in two files: the commands read them merged, the
  environment's over the common one (`InForce`), a node is given the common one (`NodeBackup`),
  and `generate-password` looks at the file that was named and nowhere else. A read that
  sops fails on finds nothing there, or the common one. `replaced` is the history of the
  passwords that were put out of force: by force, because the look at them failed (`unseen`),
  or by one in the other file (`shadowed`).
* `SignOn`. Versions of one client secret: in SOPS, as a hash in SOPS, in the overlay, in the
  running Authelia, in Gitea's database, in the running Gitea. Gitea refuses a second source of
  one name. A write, a restart or a renaming that fails may have had its effect; `warned` says
  whether the last command said that it did not get there.
* `CredentialExpiry`. What is left of a token is `long`, `short` or `none`; a check that could
  not ask, or was refused, says so. The tokens are read at the start (`read`), out of the files
  that sops decrypts: one that fails counts as empty, and a token in no other file as absent,
  which is warned of and nothing more. `doomed` and `missed` are auxiliary: what expires soon
  when the check begins, and what of it was in no file that could be read. `Distinct = FALSE` (`Divergent` in
  `Operations`): two files do not hold different tokens under one path.

### What is checked (`operations`)

* `NothingLeftBehind`: whatever fails or is interrupted, when a command is over no bridge
  runs that no state file names, no claim of a drill is left unsaid, no runner stays stopped
  unsaid, the kill switch points at the hub unless it was said, and a running Gitea that
  lacks what its database has is being restarted or was warned about.
* `ReportsAreTrue`: a disconnect that says down is down for good; a drill that saw the alert
  fire saw it for its own claim; what was imported is live; `set` says nothing is to do only of
  an open issue; nothing is in the cluster that the spoke's identity may not apply; a deploy
  that generated leaves one configuration in the whole cluster, a restart leaves no older
  image, a check that says clean is of master; a usable or healthy destination is, and a
  healthy one is not called otherwise; a sign-on that passes does; a credential that expires
  soon is not missed if it is in a file that could be read. "A check that could not run must
  never be mistaken for one that found nothing" (`cli/secrets.py:666`) does not hold of the
  files: that exception is what the code does.
* `OneOfEachKept`: synchronisations that fail and are re-run make nothing twice; of Vikunja's
  items there is one more each time an answer had left the item out, and no more.
* `OthersSpared`: the repositories of the nodes can be read with the password that the nodes
  are given, unless it was replaced by force, or unseen because sops failed (the finding
  `backup_password`; one that was only shadowed locks nobody out); a ticket that nobody named admits until it is used; what stays is the
  history of a monitor whose key stays, the name of the machine that lives, the builder of a
  job that runs, the fields and parents that people gave, the hash that Authelia runs with.
* `OperationsConverge`: run again when faults are over, the commands get where they lead
  (`Settled`): a kubeconfig that works, the seeded monitors, a route to the hub, a capped hub,
  live workflows, every item, a governed board, and, by Argo CD's healing, what master says.

Two edits and one or two faults let a fault hit each call of a command and an edit come
between any two of its steps, and again in its re-run; every module's commands are re-run
without bound except where a counter names the command itself (`MaxProofs`, `MaxDrills`,
`MaxBuilds`, `MaxRebuilds`), and there two successive ones interfere already. Faults beyond
that only repeat states.

Fairness: a command that runs goes on, calls have timeouts; commands whose repetition is the
documented recovery are run again (strongly where another command may be at work: `Fetch`, the
bulk commands of the board, starting the machine, recycling and giving back its name,
repointing); processes that were signalled exit, pods start, the
topic delivers, deletions complete, Argo CD synchronises. Nothing is assumed of people's
edits, and failures are bounded.

### What is proved

`OperationsProofs`, for any operators and pids, seeds, runners, workflows, issues, files,
nodes, logins, tokens and tickets, and any numbers of edits, failures, builds, proofs and
drills:

| theorem | statement |
|---|---|
| `TypesHold` | `Spec => []TypeOK` |
| `NothingIsLeft` | `~Overlap` and `~DaemonFails` give `Spec => []NothingLeftBehind` |
| `OneOfEachIsKept` | `~ReuseNames` gives `Spec => []OneOfEachKept` |
| `ReportsHold` | `~Overlap` and `~Hasty` give the half of `ReportsAreTrue` that is of states |
| `VerdictsHold` | `~Divergent` gives the half that is of steps |
| `ReportsAreSo` | all three give `Spec => ReportsAreTrue` |
| `AccessIsKept` | the half of `OthersSpared` that is of states: `NoLockout` with its exceptions, and `TicketsStay` |
| `OthersAreSpared` | `~ReuseNames` gives `Spec => OthersSpared` |

The hypotheses are those of the run, and each excludes something the code does not prevent and
that breaks the property: two connects at once, of which one saves the pid of a bridge that
is gone (`Overlap`); a Docker that does not start what it is told to (`DaemonFails`, the
finding `reclaim_runners`); an entry that is given the name of another monitor, and adopts it
(`ReuseNames`); a drill that is begun under a pending alert (`Hasty`); and different tokens
under one path, of which one is asked about (`Divergent`). `TypesHold` and `AccessIsKept` need
none of them; what the code itself does not keep is excepted in the property.
The constants are assumed to be what the code or its declarations make them: a key and a name
occur once in a seed (`MonitorsAssumption`, `test_monitoring_seed.py`), a workflow once in the
catalogue (`ImportAssumption`), a job's runner is no marker (`ReclaimAssumption`), the registry
places issues on the board there is (`BoardAssumption`), the first configuration is one that
the spoke may apply (`DeployAssumption`), no node has the probe's repository
(`BackupAssumption`), and Headscale's keys are none of the tokens (`ExpiryAssumption`).

The invariant (`Inv`) knows everything of the part that takes steps (`Active`) and of each
other part that it is where its properties hold because nothing was done (`Resting`). Each
part's is inductive by itself, which most of the properties are not:

* access: a bridge belongs to the command that awaits it or to the state file, where it
  listens (`BridgesHold`); while one connects no other bridge has the port, and what is being
  stopped is no bridge any more when its file is removed (`CommandsHold`).
* monitors: what remains of the plan is still right although people edited and calls were
  lost since it was made: no monitor has the key of an entry to be created (`ToCreate`), what
  is to be edited has its entry's key or none (`ToEdit`), nothing with a key of the seed is to
  be deleted (`ToDelete`); and, for entries that are matched by name, a name belongs to one key
  wherever it is in use, in the copy that may be restored too (`NamesHold`). That the plan is
  right when it is made is shown along the entries (`Decided`).
* machine: a build has one node and none before it joined, and the node to be deleted is not
  that of the machine (`NodesAreBuilds`), which is the last build (`BuildsHold`).
* switch: the function is pointed elsewhere only while a proof runs, or after one that said
  so (`AimedOrSaid`).
* drill: the claim is an earlier drill's until this one creates its own (`ClaimHolds`), and
  then nothing is left that an earlier one caused (`CauseHolds`).
* reclaim: what the command takes was old when it looked, and a job that runs has its builder
  among those that are not (`BusyHold`); the runners before the one at hand run again
  (`RunnersHold`).
* import: the workflow at hand is in the database as far as the command got (`WrittenHolds`),
  and all before it are there unless a call failed or the volume was wiped (`BroughtHolds`).
* vikunja: what is to be created is there no oftener than answers have left it out, once the
  list was read.
* board: what `set` writes, it found open; what gives a priority found none (`PlansHold`).
* deploy: what was generated is of one configuration, and so is what was applied
  (`FreshHolds`); pods that follow a restart have no older image (`ImagesHold`).
* backup: what the destination was found able to do, it is able to do (`ProbeHolds`); the
  nodes before the one at hand are covered (`CoverHolds`); where all was well and nothing
  failed, nothing was found wrong (`FineHolds`); and a node's repository has the common
  password unless that one was replaced, by force or unseen.
* sign-on: what the command wrote is in the database until it has verified it, and Authelia's
  hash comes from git (`CopiesHold`); no copy is newer than what it was taken from
  (`VersionsHold`).
* expiry: what a command expires was named, and what is not in its list does not admit
  (`TicketsHold`); a token that was about to expire when the check began is among those
  read or in no file that could be read, and, once its turn is over, was found so or could not
  be asked about (`TokensHold`).

## 8. Governance

`Governance` composes five modules in the same way, with constants of its own, to which
`MCGovernance` gives values.

| part | module | code | instance |
|---|---|---|---|
| delivery | `ImageDelivery` | builds, `deployment promote`, its pull request, the release, `registry prune` | three builds, one release, one open promotion per time, two tags kept, one fault |
| attestation | `ReviewAttestation` | `review_attestation.py` and the workflow's runs | two pushes, remarks of the author, a bot, a member and a stranger, three edits, one fault |
| specs | `SpecGate` | `spec_gate.py` and its runs | two specs, four pushes, two edits of the body |
| protection | `BranchProtection` | `tools branch-protection` | two branches, two edits, one fault |
| generation | `GeneratedFiles` | `sync`, `sync --check` over all generators | three generators, three versions of the values, two edits, one fault |

* `ImageDelivery`. A pruning reads the pins of master and the tags, and deletes later. A tag
  is kept if it is recent or pinned. Assumed: people merge recent pins (`Recent`), and fewer
  than `Retention - Recent` builds happen during a pruning; promotions of the two environments
  run one at a time; a registry that cannot be verified lets a tag through unseen (`seen`);
  promotions begin in a fresh tree (`Reuse = FALSE`).
* `ReviewAttestation`. Two concurrency groups that GitHub serialises separately: a run reads
  the head, then the reviews and comments, then publishes; a new event cancels or replaces a
  run. Assumed: of two runs of different groups the first to read publishes first. Comments are
  not deleted in the model, and a dismissed review still counts, as in the code. What a run
  publishes is chosen as the workflow does, by the last word it knows of what the command
  printed (`Printed`, `Published`): "disclosed - no review ran (X declined)" ends in `declined`,
  and a declared merge that a reviewer declined is published as "a review happened".
* `SpecGate`. A run judges the body of the event that started it and the tree of the head.
  Assumed: people wait for it although it is not a required context (`Waits`), and a push
  moves a spec into the archive rather than copy it (`Copies = FALSE`): a copy passes.
* `BranchProtection`. GET, overlay, PUT, GET again, branch by branch, while people edit.
* `GeneratedFiles`. A check generates in place and restores; people edit generated files
  between commands only, values at any time; a generator may refuse the values (and
  return 1), crash midway, or write file by file; the one for sign-on, when it reads no
  secrets, warns, writes nothing and returns 0 (`Unread`).

`governance` checks:

* `PinsHold`: a pinned tag can be pulled, no release is of a build that never ran on
  staging, a promotion that reports success has generated its overlay.
* `MergesHold`: a status that is no longer what the workflow makes of the pull request as it is
  (`StatusDue`) has a run to come that reads again, in whatever order events, cancellations and
  failures come; one that says "a review happened" has a review behind it, or a reviewer's
  notice that none ran (`ReviewOrNotice`; that the second should not read so is the finding
  `review_declared`); a merge that closes the
  issue of a spec leaves it archived and signed or waived.
* `GuardsStay`: nothing said later takes a review back; a reconciliation takes nothing
  undeclared from a branch, and says that GitHub agrees only when it does; a check leaves the
  files as they were, and says in sync of what was generated only if it is the same.

These are safety properties and no fairness is assumed. Three builds with a retention of two
let a tag become stale while another is promoted; two pushes distinguish the head from
another commit; three edits order a review, a label and a retraction in every way.

`GovernanceProofs`, for any numbers of builds, releases, pull requests, remarks, pushes and
failures, any branches with their declarations and any generators with their files:

| theorem | statement |
|---|---|
| `TypesHold` | `Spec => []TypeOK` |
| `PinsAreHeld` | `~Reuse` gives `Spec => []PinsHold` |
| `MergesAreGuarded` | `Guarded` gives `Spec => []MergesHold` |
| `GuardsAreKept` | `Spec => GuardsStay` |

`Guarded` says that people wait for the spec gate or the branch requires it, and that a push
moves a spec; `Reuse` that a promotion is run again in the tree that an earlier one left. The
code enforces neither `Guarded` nor `~Reuse` (section 10). Assumed of the constants: `Recent` is a
number of builds that a pruning keeps (`DeliveryAssumption`); there is a commit
(`AttestationAssumption`, `SpecsAssumption`); what is declared of each branch can be told to
GitHub (`ProtectionAssumption`); and the generators write in directories of their own, only
files of their list if they have one, and none of them both keeps its date and has it left
out of the comparison (`GenerationAssumption`, as those that `cli/sync.py` runs do).

The invariant (`Inv`) is a conjunction over the parts, each of them inductive by itself; the
parts that share no variable with others hold whichever part takes steps. None of the
properties is inductive as it stands:

* A pin that can be pulled needs that no pruning under way has it on its list. `PruningHolds`
  counts builds: since a pruning began there were at most `Retention - Recent`; what it lists
  is older than the recent ones of its beginning; and what staging is pinned to is a tag it
  read as pinned or one that was recent then. `ReleasesHold` carries what ran on staging to
  the release cut from it, `PromotionsHold` what a promotion wrote to the overlay it
  generates and the pull request it opens.
* A status that is about to be corrected needs that of the two groups one publishes at a
  time, that a run with an older head is the reviewer's, which will end, and that what a run
  is about to publish is due or there is a run to come (`RunsHold`). One that speaks of a review
  needs that what a run has read was said (`SaidOfReviews`), and nothing said is taken back.
* A merge that is signed needs that a verdict is that of the body and the tree as they are
  now (`VerdictIsFresh`), since each event that changes one of them takes the verdict back.
* GitHub agrees when the command says so because the branches behind the one in work agree
  unless a difference was noted, as long as nobody has edited since it began (`SeenIsSo`).
* The files are back after a check because at each of its steps what it found is on disk or
  saved; what is neither was not there (`FilesAreFound`). Its verdict needs that what ran so
  far made what was found, and that a difference is one that a generator made of other values
  (`VerdictHasReason`, `DifferenceIsMade`); the latter uses that a file without a date has
  none, whoever wrote it (`DatesAreNone`).

## 9. Findings and mutants

Four runs expect a violation; each disagrees with a line of the repository, quoted in
`PROJECT.json`:

* `secrets_render` (`RenderedKept`): a bundle whose Secret is rendered names no keys, so
  that nothing of it can be missing; while another command has a SOPS file in clear text, the
  Secret in the cluster is replaced by what can be rendered from the rest. "Never apply a
  partial render" says the comment above.
* `reclaim_runners` (`RunnersReturn`, with `DaemonFails = TRUE`): `docker inspect X && docker
  start X || echo ABSENT` takes a start that failed for a runner the node does not have, and
  the command ends well with the runner stopped, although nothing else failed. (`operations`
  checks the rest of the command with `DaemonFails = FALSE`.)
* `backup_password` (`NeverSilently`): `generate-password` looks for the password in the file
  that `--env` names, and takes a failed decryption for "none": it replaces the password in
  force, or shadows the common one, without `--force`. "Refuses to overwrite silently" says the
  docstring. No failure is needed for the second.
* `review_declared` (`DeclaredIsNotReviewed`): a declared merge that a reviewer declined is
  published as "a review happened". "A DECLARED UNREVIEWED MERGE MUST NOT READ AS A REVIEWED
  ONE" says the comment in the workflow.

Where a property of a passing run excepts what the code does against its own words, sections 6
and 7 say so: `Blindly` and `Misled` (a vault that could not be read), `missed` (a token in a
file that could not be read, an item that Vikunja left out).

A definition preceded by the comment "A mutant" is not part of the model: it is a definition
changed the way a plausible slip in the code would change it. `PROJECT.json` pairs each
property of each passing run with one under which the property fails. The composed
properties have one conjunct per part, and each conjunct has a mutant of its own beside it,
which was seen to violate it: `Probe` and `ConnectGivesUp` (`ClusterAccess`), `FoundByName`
and `NeedsWrite` (`MonitorSync`), `Unchecked` and `RemoveAfterResult` (`PvcDrill`), `PlanAll`
and `StartRunnerIfOk` (`DockerReclaim`), `ExecOnce` and `RestartNothing` (`N8nImport`),
`ListAll` (`VikunjaReconcile`), `PlanPriorityAnew` and `PlanStreamsUnset` (`Board`),
`AdmitsAll`, `GenerateOn` and `PulledOnce` (`ClusterDeploy`), `GenerateAnew`, `RemoveUnread`,
`CoverLast` and `PlainName` (`BackupDestination`), `ClassifyAll`, `ConfirmNothing` and
`SyncAny` (`SignOn`), `ExpireFirst`, `DigFirst` and `AskLeniently` (`CredentialExpiry`);
`GenerateBefore` and `ResolveNewest` (`ImageDelivery`), `ClassifyByLabel` and `NormRaw`
(`ReviewAttestation`), `ViolationsOfActive`, `ViolationsIfAll`, `ReportQuoted` and `EditUnseen`
(`SpecGate`), `BareBody` and `VerifyNothing` (`BranchProtection`), `NormRaw`, `ListedThere` and
`SavedAlone` (`GeneratedFiles`).

## 10. Not modelled, and known gaps

### Components left out

* **Gitea git credential**: runs git once with a credential in its environment; no state.
* **Actions runner pruning**: deletes the offline runners of one listing; 404 is success.
* **Spoke declarations, configuration accessors, generators and rendering**: pure
  functions from files to text. What they feed is modelled where it is used.
* **GitHub secrets** (`github_secrets.py`): a one-way push whose result nothing reads back, so
  there is no state to be right about. `setup-gh-secrets` overwrites the same-named secrets of
  another environment, since GitHub has one namespace for the repository;
  `cleanup_unused_secrets` compares names without `upper()`, and has no caller.
* **Delivery health, probes and smokes**: classifications of a few reads.
* **Docker services, lessons index**: wrappers of a command line, documentation tooling.
* **API server**: forwards a subscription to a third party; no state.
* **Ansible roles**: their protocol with vault and forge is in `GiteaTokens`; the backup,
  drain and preemption scripts are shell on a node and are planned.
* **n8n flows** (`infra/n8n`): the import is modelled, what the flows do is not.

### Known gaps

Things the code does, seen while modelling, of which no property claims otherwise:

* Kill switch: a message of a proof that the topic delivers after the restore detaches the hub.
* Recycling a name: a run stopped between the delete and the rename leaves no holder, and the
  plan then refuses; the next build takes the name.
* PVC drill: a pending alert is not looked at before the claim is created (`Hasty`).
* Spec gate: not a required context; a spec that is copied passes. Review attestation: a
  deleted comment starts no run, and a run of one group may overtake one of the other.
* Board: `sweep` moves an issue its registry keeps to In Progress although it was closed
  meanwhile.
* Promotion: a pull request merged after its tag was pruned pins what cannot be pulled; run
  again in a tree whose generation failed, `promote` finds nothing to change and reports
  promoted.
* Monitoring: `Exported` takes from the notification whether an entry is muted, which the code
  writes as a tag; an unkeyed monitor is adopted by its name in the order of the seed;
  `bootstrap` cannot be run again; `restore` reports success although the copy failed.
* Secrets: a first read that fails is taken for an empty file (section 6); `init --force` and `rotate` make n8n's encryption key anew, which encrypts state but is not
  in `IMMUTABLE_SECRETS`;
  `_rotate_derived` ignores a set that failed; `_encrypt_sops_file` leaves clear text behind a
  failure; a destroy that fails leaves superseded versions enabled in the secret manager.
* Cluster access: of two connects at once one may save the pid of a bridge that is gone.
* Deploy: reports success although Argo CD synchronised in between; a dry run is the
  client's, with the operator's rights (`infra.py:1076`).
* Backups: `verify-restic` given a node's name would delete its repository
  (`backup_destination.py:305`); a subprocess that exceeds its timeout ends the health check
  before it pages (`backup_destination.py:73`).
* Branch protection: an edit between the GET and the PUT is lost (`branch_protection.py:214`).
* Sign-on: the check posts SOPS's secret, so a Gitea that was not restarted passes
  (`configure_oidc.py:190`); a Grafana administrator whose login is neither declared nor
  `admin` cannot be renamed (`grafana_admin_identity.py:161`).
* Expiry: what is in a file that cannot be read counts as absent (section 7); only the first
  file's value is asked about (`cli/secrets.py:354`); rows of
  Headscale's table that do not match are dropped (`secret_expiry.py:90`).
* Vikunja: one page of each listing is read (`vikunja_client.py:43-72`); what is on the next
  is made again in every run. The model has it as an answer that left the item out, each time
  at the cost of a fault. An item whose listing lost its content is made a second time.
* Generated files: `sync --check` drops what a generator returns, so that one that refuses the
  values is called in sync (`_run_with_check`; `VerdictIsSo` speaks of those that ran); Ctrl-C during a check leaves the regenerated files, an edit of one during
  the check is lost, new files of a crashed generator stay, and what a deleted template had
  generated is never noticed (`cli/sync.py:110-122`).
* Sections 3 to 6 name those of the reconciler, the tokens, the hubs and the vault.

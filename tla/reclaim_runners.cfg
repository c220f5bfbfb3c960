\* The constants of operations.cfg, except that Docker may fail to stop or start a runner, and
\* that nothing else fails.
SPECIFICATION Spec
CONSTANTS
  Operators = {"o1"}
  Pids = {"p1", "p2", "p3"}
  Ephemeral = TRUE
  Overlap = FALSE
  MaxRebuilds = 1
  Keys = {"k1", "k2", "k3"}
  Titles = {"n1", "n2", "n3"}
  Seeds <- MCSeeds
  ReuseNames = FALSE
  MaxBuilds = 4
  MaxProofs = 2
  Hasty = FALSE
  MaxDrills = 3
  Runners <- MCRunners
  Jobs = {1, 2}
  DaemonFails = TRUE
  Workflows <- MCWorkflows
  Namespaces = {"kubelab"}
  Labels = {"bug", "spec"}
  Lists = {"p1", "p2"}
  Issues = {"i1", "i2"}
  StreamOf <- MCStreamOf
  DefaultOf <- MCDefaultOf
  ParentOf <- MCParentOf
  Stays = {"i1"}
  Parked = {"i2"}
  SweepTo = "P1"
  BatchSize = 2
  Versions <- MCVersions
  Refused <- MCRefused
  Broken = {4}
  Crashing = {3}
  Floating = {1}
  Files <- MCFiles
  Layer <- MCLayer
  Optional = {"controller"}
  Preview = 2
  Nodes <- MCNodes
  Hostname <- MCHostname
  Smoke = "_smoketest-probe"
  Logins = {"alice", "bob"}
  Tokens <- MCTokens
  Envs <- MCEnvs
  Divergent = FALSE
  ApiKeys = {"api"}
  Tickets <- MCTickets
  None = "none"
  MaxEdits <- MCMaxEdits
  MaxFaults <- MCNoFaults
CHECK_DEADLOCK FALSE
INVARIANT RunnersReturn

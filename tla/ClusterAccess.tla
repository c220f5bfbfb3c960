---------------------------- MODULE ClusterAccess ----------------------------
(****************************************************************************)
(* How an operator's box reaches one cluster: the bridge that `k8s connect` *)
(* leaves running and `k8s disconnect` stops, known to the toolkit by the   *)
(* pid in a statefile, and `k8s fetch-kubeconfig`, which reads the          *)
(* kubeconfig over ssh, through a bridge of its own when the mesh is out of *)
(* reach.  The machine behind it may be rebuilt at any moment, with a new   *)
(* host key and a new CA: its generation.                                   *)
(****************************************************************************)
EXTENDS Integers

CONSTANTS Operators, Pids,
          Ephemeral,    \* whether the node is rebuilt rather than restarted
          Overlap, MaxRebuilds, MaxFaults, None

VARIABLES onMesh,     \* whether this box reaches the node without a bridge
          proc,       \* what each pid is: no process, a bridge, or one that got
          port,       \* SIGTERM; the port of a bridge,
          bound,      \* and the bridges that listen on theirs
          statefile,  \* the pid it holds
          machine,    \* the generation of the machine
          known,      \* the one whose key known_hosts has
          kubeconfig, \* the one whose CA the kubeconfig has
          pc, mine,   \* what a command does next, the bridge it waits for,
          text,       \* and the kubeconfig it has read
          said,       \* and what it reported
          faults

bridges == <<proc, port, bound>>
files   == <<statefile, known, kubeconfig>>
command == <<pc, mine, text, said>>
outside == <<onMesh, machine>>
vars    == <<outside, bridges, files, command, faults>>

Ports == {"local", "spare"}

Listening(x) == \E p \in bound : port[p] = x

Init ==
    /\ onMesh \in BOOLEAN
    /\ proc = [p \in Pids |-> "free"]
    /\ port = [p \in Pids |-> "local"]
    /\ bound = {}
    /\ statefile = None
    /\ machine = 1
    /\ known \in {0, 1}
    /\ kubeconfig \in {0, 1}
    /\ pc = [o \in Operators |-> "idle"]
    /\ mine = [o \in Operators |-> None]
    /\ text = [o \in Operators |-> 0]
    /\ said = [o \in Operators |-> "nothing"]
    /\ faults = 0

-----------------------------------------------------------------------------
GoTo(o, label) == pc' = [pc EXCEPT ![o] = label]

Ready(o) == pc[o] = "idle" /\ (Overlap \/ \A q \in Operators : pc[q] = "idle")

\* The command is over.
End(o, report) ==
    /\ GoTo(o, "idle")
    /\ mine' = [mine EXCEPT ![o] = None]
    /\ text' = [text EXCEPT ![o] = 0]
    /\ said' = [said EXCEPT ![o] = report]

Fault == faults < MaxFaults /\ faults' = faults + 1

Spawn(o, x) ==
    \E p \in Pids :
        /\ proc[p] = "free"
        /\ proc' = [proc EXCEPT ![p] = "bridge"]
        /\ port' = [port EXCEPT ![p] = x]
        /\ mine' = [mine EXCEPT ![o] = p]

\* A mutant: the pid is probed instead of terminated.
Probe(p) == UNCHANGED proc

\* SIGTERM, to whatever has the pid now.
Terminate(p) ==
    proc' = [q \in Pids |-> IF q = p /\ proc[q] # "free" THEN "stopping" ELSE proc[q]]

-----------------------------------------------------------------------------
\* k8s connect

ConnectNoop(o) ==
    /\ Ready(o)
    /\ Listening("local")
    /\ End(o, "up")
    /\ UNCHANGED <<bridges, files, outside, faults>>

Connect(o) ==
    /\ Ready(o)
    /\ ~Listening("local")
    /\ Spawn(o, "local")
    /\ GoTo(o, "await")
    /\ UNCHANGED <<bound, files, outside, text, said, faults>>

\* The port answers: whoever listens on it, the pid of the own bridge is saved.
ConnectUp(o) ==
    /\ pc[o] = "await"
    /\ Listening("local")
    /\ statefile' = mine[o]
    /\ End(o, "up")
    /\ UNCHANGED <<bridges, known, kubeconfig, outside, faults>>

ConnectExited(o) ==
    /\ pc[o] = "await"
    /\ ~Listening("local")
    /\ proc[mine[o]] # "bridge"
    /\ End(o, "failed")
    /\ UNCHANGED <<bridges, files, outside, faults>>

\* A mutant: what did not come up in time is left behind.
ConnectGivesUp(o) ==
    /\ pc[o] = "await"
    /\ ~Listening("local")
    /\ Fault
    /\ End(o, "failed")
    /\ UNCHANGED <<bridges, files, outside>>

ConnectTimesOut(o) ==
    /\ pc[o] = "await"
    /\ ~Listening("local")
    /\ Fault
    /\ Terminate(mine[o])
    /\ End(o, "failed")
    /\ UNCHANGED <<port, bound, files, outside>>

-----------------------------------------------------------------------------
\* k8s disconnect

DisconnectNoop(o) ==
    /\ Ready(o)
    /\ statefile = None
    /\ End(o, IF Listening("local") THEN "not-ours" ELSE "down")
    /\ UNCHANGED <<bridges, files, outside, faults>>

Disconnect(o) ==
    /\ Ready(o)
    /\ statefile # None
    /\ Terminate(statefile)
    /\ GoTo(o, "unlink")
    /\ UNCHANGED <<port, bound, files, outside, mine, text, said, faults>>

Unlink(o) ==
    /\ pc[o] = "unlink"
    /\ statefile' = None
    /\ End(o, "down")
    /\ UNCHANGED <<bridges, known, kubeconfig, outside, faults>>

-----------------------------------------------------------------------------
\* k8s fetch-kubeconfig

\* A mutant: the key is not forgotten.
FetchTrusting(o) ==
    /\ Ready(o)
    /\ GoTo(o, "ssh")
    /\ UNCHANGED <<bridges, files, outside, mine, text, said, faults>>

\* The key of a node that is rebuilt is forgotten first; if that fails, the
\* fetch goes on.
Fetch(o) ==
    /\ Ready(o)
    /\ \/ Ephemeral /\ known' = 0 /\ UNCHANGED faults
       \/ Ephemeral /\ Fault /\ UNCHANGED known
       \/ ~Ephemeral /\ UNCHANGED <<known, faults>>
    /\ GoTo(o, "ssh")
    /\ UNCHANGED <<bridges, statefile, kubeconfig, outside, mine, text, said>>

\* ssh records a key it does not know, and refuses one that has changed.  The
\* person at the prompt accepts the key of a node that is not rebuilt.
Ssh(o) ==
    /\ pc[o] = "ssh"
    /\ onMesh
    /\ \/ /\ known \in {0, machine}
          /\ known' = machine
          /\ text' = [text EXCEPT ![o] = machine]
          /\ GoTo(o, "write")
          /\ UNCHANGED <<mine, said>>
       \/ known \notin {0, machine} /\ End(o, "failed") /\ UNCHANGED known
    /\ UNCHANGED <<bridges, statefile, kubeconfig, outside, faults>>

SshFails(o) ==
    /\ pc[o] = "ssh"
    /\ onMesh /\ Fault
    /\ End(o, "failed")
    /\ UNCHANGED <<bridges, files, outside>>

\* No route: a bridge to the ssh port, for this one read.
SshViaBridge(o) ==
    /\ pc[o] = "ssh"
    /\ ~onMesh
    /\ Spawn(o, "spare")
    /\ GoTo(o, "bridge")
    /\ UNCHANGED <<bound, files, outside, text, said, faults>>

\* The bridge is up and ssh reads, whatever the key; or it does not come up, or
\* ssh fails.  The bridge is stopped in any case.
ReadViaBridge(o) ==
    /\ pc[o] = "bridge"
    /\ Terminate(mine[o])
    /\ \/ /\ Listening("spare")
          /\ text' = [text EXCEPT ![o] = machine]
          /\ mine' = [mine EXCEPT ![o] = None]
          /\ GoTo(o, "write")
          /\ UNCHANGED <<said, faults>>
       \/ Listening("spare") /\ Fault /\ End(o, "failed")
       \/ /\ ~Listening("spare")
          /\ IF proc[mine[o]] = "bridge" THEN Fault ELSE UNCHANGED faults
          /\ End(o, "failed")
    /\ UNCHANGED <<port, bound, files, outside>>

WriteKubeconfig(o) ==
    /\ pc[o] = "write"
    /\ kubeconfig' = text[o]
    /\ End(o, "fetched")
    /\ UNCHANGED <<bridges, statefile, known, outside, faults>>

-----------------------------------------------------------------------------
\* The bridges, the machine, and the person who interrupts a command

Binds(p) ==
    /\ proc[p] = "bridge"
    /\ p \notin bound /\ ~Listening(port[p])
    /\ bound' = bound \cup {p}
    /\ UNCHANGED <<proc, port, files, outside, command, faults>>

Gone(p) == proc' = [proc EXCEPT ![p] = "free"] /\ bound' = bound \ {p}

\* A bridge ends when its port is taken, when it crashes, and after SIGTERM.
Exits(p) ==
    /\ \/ proc[p] = "bridge" /\ p \notin bound /\ Listening(port[p]) /\ UNCHANGED faults
       \/ proc[p] = "bridge" /\ Fault
       \/ proc[p] = "stopping" /\ UNCHANGED faults
    /\ Gone(p)
    /\ UNCHANGED <<port, files, outside, command>>

Rebuild ==
    /\ Ephemeral
    /\ machine <= MaxRebuilds
    /\ machine' = machine + 1
    /\ UNCHANGED <<onMesh, bridges, files, command, faults>>

\* An interrupted command: the bridge it waits for is in the same process group.
Interrupt(o) ==
    /\ pc[o] # "idle"
    /\ Fault
    /\ IF mine[o] = None THEN UNCHANGED proc ELSE Terminate(mine[o])
    /\ End(o, "nothing")
    /\ UNCHANGED <<port, bound, files, outside>>

GoOn(o) ==
    \/ ConnectUp(o) \/ ConnectExited(o) \/ Unlink(o)
    \/ Ssh(o) \/ SshViaBridge(o) \/ ReadViaBridge(o) \/ WriteKubeconfig(o)

Begin(o) == ConnectNoop(o) \/ Connect(o) \/ DisconnectNoop(o) \/ Disconnect(o) \/ Fetch(o)

Next ==
    \/ \E o \in Operators : Begin(o) \/ GoOn(o) \/ ConnectTimesOut(o) \/ SshFails(o) \/ Interrupt(o)
    \/ \E p \in Pids : Binds(p) \/ Exits(p)
    \/ Rebuild

Fairness ==
    /\ \A o \in Operators : SF_vars(Fetch(o)) /\ WF_vars(GoOn(o) /\ UNCHANGED faults)
    /\ \A p \in Pids : WF_vars(Binds(p)) /\ WF_vars(Exits(p) /\ UNCHANGED faults)

Spec == Init /\ [][Next]_vars /\ Fairness

-----------------------------------------------------------------------------
TypeOK ==
    /\ proc \in [Pids -> {"free", "bridge", "stopping"}]
    /\ onMesh \in BOOLEAN
    /\ port \in [Pids -> Ports]
    /\ bound \subseteq Pids
    /\ statefile \in Pids \cup {None}
    /\ machine \in Nat /\ known \in Nat /\ kubeconfig \in Nat /\ faults \in Nat
    /\ pc \in [Operators -> {"idle", "await", "unlink", "ssh", "bridge", "write"}]
    /\ mine \in [Operators -> Pids \cup {None}]
    /\ text \in [Operators -> Nat]
    /\ said \in [Operators -> {"nothing", "up", "down", "not-ours", "failed", "fetched"}]

\* No bridge is left that nobody knows of: each one that runs is in the statefile
\* or awaited by the command that started it, however connections fail and are
\* interrupted ("guaranteed teardown even when the body raises").
NoOrphan ==
    \A p \in Pids : proc[p] = "bridge" => p = statefile \/ \E o \in Operators : mine[o] = p

\* A disconnect that reports the transport down leaves none that comes back: the
\* port is free for good until somebody connects again.
DownIsDown ==
    \A o \in Operators : said[o] = "down" /\ statefile = None /\ (\A q \in Operators : pc[q] = "idle")
        => \A p \in bound : port[p] = "local" => proc[p] = "stopping"

\* After the last rebuild a fetch gets through and leaves the machine's own CA in
\* the kubeconfig: the purge of the host key unblocks the recovery (#1380).
Recovered == kubeconfig = machine

KubeconfigRecovers == <>[]Recovered
=============================================================================

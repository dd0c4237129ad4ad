------------------------------ MODULE Provider ------------------------------
(***************************************************************************)
(* The three sandbox providers of daemon/src/provision/ (memory-, docker-  *)
(* and microsandbox-provider.ts) over registry.ts: what each knows of its  *)
(* sandboxes against what the host really has. The memory provider is its  *)
(* own host and dies with the process; below the other two lies a command  *)
(* line tool, whose calls may fail and whose machines outlive the daemon.  *)
(* The operators are steps for the actions of who holds a sandbox          *)
(* (Recovery.tla). A refused SandboxSpec (validate.ts, the userns probe)   *)
(* leaves nothing behind and is no step.                                   *)
(*                                                                         *)
(* Bound: MaxProviderFaults calls of the tool that fail.                   *)
(***************************************************************************)
EXTENDS Naturals

CONSTANTS Sandboxes, MaxProviderFaults

VARIABLES provider,   \* createProvider's choice, by the configuration
          host,       \* sandbox -> "none", "created", "running" or "stopped"
          record,     \* #registry: sandbox -> "unknown", or the status of its handle
          snapshots,  \* the sandboxes of which the host keeps a snapshot
          providerFaults

providerVars == <<provider, host, record, snapshots, providerFaults>>

Is(s, status) == record' = [record EXCEPT ![s] = status]
HostHas(s, machine) == host' = [host EXCEPT ![s] = machine]

ProviderInit ==
    /\ provider \in {"memory", "docker", "microsandbox"}
    /\ host = [s \in Sandboxes |-> "none"]
    /\ record = [s \in Sandboxes |-> "unknown"]
    /\ snapshots = {}
    /\ providerFaults = 0

snapshotCapable == provider = "microsandbox"

\* #run: the tool cannot be started, cannot reach its server, or exits non-zero.
RunFails ==
    /\ provider # "memory" /\ providerFaults < MaxProviderFaults
    /\ providerFaults' = providerFaults + 1
    /\ UNCHANGED <<provider, host, record, snapshots>>

\* list(): the handles of this instance that are not removed.
Listed == {s \in Sandboxes : record[s] \notin {"unknown", "removed"}}

----------------------------------------------------------------------------
(* create *)

\* Memory has no tool to call: the handle runs when create returns.
MemoryCreate(s) ==
    /\ provider = "memory"
    /\ Is(s, "running") /\ HostHas(s, "running")

\* docker and microsandbox: the handle is registered before the first call.
CliRegister(s) == provider # "memory" /\ Is(s, "provisioning") /\ UNCHANGED host

Register(s) ==
    /\ MemoryCreate(s) \/ CliRegister(s)
    /\ UNCHANGED <<provider, snapshots, providerFaults>>

\* docker create and docker start. After a call that throws the handle stays
\* "provisioning", and what is on the host stays there.
DockerCreateStart(s) ==
    /\ provider = "docker"
    /\ IF host[s] = "none"
       THEN HostHas(s, "created") /\ UNCHANGED record
       ELSE HostHas(s, "running") /\ Is(s, "running")

\* msb create does both.
MsbCreate(s) == provider = "microsandbox" /\ HostHas(s, "running") /\ Is(s, "running")

Launch(s) ==
    /\ record[s] = "provisioning"
    /\ DockerCreateStart(s) \/ MsbCreate(s)
    /\ UNCHANGED <<provider, snapshots, providerFaults>>

----------------------------------------------------------------------------
(* snapshot, restore and destroy *)

\* snapshot: msb stops the machine first.
Stop(s) ==
    /\ snapshotCapable /\ record[s] = "running"
    /\ HostHas(s, "stopped") /\ Is(s, "stopped")
    /\ UNCHANGED <<provider, snapshots, providerFaults>>

SnapshotCreate(s) ==
    /\ snapshotCapable /\ record[s] = "stopped"
    /\ snapshots' = snapshots \cup {s}
    /\ UNCHANGED <<provider, host, record, providerFaults>>

\* restore: the handle is registered after the run, and only if the tool's
\* output names it.
RestoreRun(ref, s) ==
    /\ ref \in snapshots
    /\ HostHas(s, "running") /\ Is(s, "running")
    /\ UNCHANGED <<provider, snapshots, providerFaults>>

RestoreUnconfirmed(ref, s) ==
    /\ ref \in snapshots /\ providerFaults < MaxProviderFaults
    /\ providerFaults' = providerFaults + 1
    /\ HostHas(s, "running")
    /\ UNCHANGED <<provider, record, snapshots>>

\* destroy: nothing at all for a sandbox this instance does not know; one that
\* is gone from the host counts as removed.
RunRemove(s) ==
    /\ IF s \in Listed
       THEN HostHas(s, "none") /\ Is(s, "removed")
       ELSE UNCHANGED <<host, record>>
    /\ UNCHANGED <<provider, snapshots, providerFaults>>

\* The process dies, and with it the registry.
ProviderDies ==
    /\ record' = [s \in Sandboxes |-> "unknown"]
    /\ host' = IF provider = "memory" THEN [s \in Sandboxes |-> "none"] ELSE host
    /\ UNCHANGED <<provider, snapshots, providerFaults>>
=============================================================================

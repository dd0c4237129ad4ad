---------------------------- MODULE InstanceLock ----------------------------
(***************************************************************************)
(* The single-instance guard of a state directory: acquireInstanceLock and *)
(* the release in daemon/src/daemon/daemon.ts. Every file operation of a   *)
(* starter is a step; the steps of starters interleave.                    *)
(***************************************************************************)
EXTENDS Naturals, FiniteSets

CONSTANT Process  \* the daemon processes started on one state directory

VARIABLES file,    \* daemon.lock: NoFile, or the process that created it
          at,      \* where each process is
          round    \* process -> rounds of the acquisition loop begun

vars == <<file, at, round>>

NoFile == "none"

\* out: refused or stopped. The process is gone then, as it is when dead.
Place == {"new", "reading", "unlinking", "opening", "writing", "running", "out", "dead"}

Rounds == 2

Init ==
    /\ file = NoFile
    /\ at = [p \in Process |-> "new"]
    /\ round = [p \in Process |-> 1]

IsAlive(p) == at[p] \notin {"new", "out", "dead"}
Goto(p, place) == at' = [at EXCEPT ![p] = place]

Start(p) == at[p] = "new" /\ Goto(p, "reading") /\ UNCHANGED <<file, round>>

\* A lock whose process is alive and has written it refuses the start.
\* Everything else, an absent file too, leaves lockExists true and heldBy
\* without a live pid.
Read(p) ==
    /\ at[p] = "reading"
    /\ Goto(p, IF file # NoFile /\ at[file] = "running" THEN "out" ELSE "unlinking")
    /\ UNCHANGED <<file, round>>

\* unlink(lockPath).catch(() => {}): whatever is there by now.
Unlink(p) ==
    /\ at[p] = "unlinking"
    /\ file' = NoFile
    /\ Goto(p, "opening")
    /\ UNCHANGED round

\* open(lockPath, 'wx') creates the file or finds one there.
OpenExclusive(p) ==
    /\ at[p] = "opening"
    /\ IF file = NoFile
       THEN file' = p /\ Goto(p, "writing") /\ UNCHANGED round
       ELSE /\ UNCHANGED file
            /\ round' = [round EXCEPT ![p] = @ + 1]
            /\ Goto(p, IF round[p] = Rounds THEN "out" ELSE "reading")

\* The pid goes into the file p created, wherever its name points by now.
Write(p) ==
    /\ at[p] = "writing"
    /\ Goto(p, "running")
    /\ UNCHANGED <<file, round>>

\* stop, or a start-up that fails: unlink without a look at the content.
Release(p) ==
    /\ at[p] = "running"
    /\ file' = NoFile
    /\ Goto(p, "out")
    /\ UNCHANGED round

Crash(p) ==
    /\ IsAlive(p)
    /\ Goto(p, "dead")
    /\ UNCHANGED <<file, round>>

Next == \E p \in Process : \/ Start(p) \/ Read(p) \/ Unlink(p) \/ OpenExclusive(p) \/ Write(p)
                           \/ Release(p) \/ Crash(p)

Spec == Init /\ [][Next]_vars

----------------------------------------------------------------------------

\* daemon.ts:178-180: two daemons on one state directory would interleave
\* their event sequence numbers; the second is stopped before it touches it.
OneDaemon == Cardinality({p \in Process : at[p] = "running"}) <= 1
=============================================================================

--------------------------- MODULE ArtifactStore ---------------------------
(***************************************************************************)
(* The artifact repository (artifacts/repository.ts) and what removes from *)
(* it: the collector of the daemon (artifacts/gc.ts) and the prune command *)
(* of the command line, a process of its own.                              *)
(*                                                                         *)
(* On disk there are objects, named by their content, and at each path a   *)
(* pointer: a manifest that lists objects. A publication puts its objects  *)
(* there first and renames its manifest to the path last. A sweep lists    *)
(* files and reads them one by one, every read an await of its own, and    *)
(* removes what it found no manifest for; nothing locks it out.            *)
(*                                                                         *)
(* Left out: the bytes of an object (its name stands for them), the        *)
(* staging directory (private to its publication, removed with it or at    *)
(* the next start), half-written files (every scan ignores them), a read   *)
(* or a removal that fails under a sweep, two collections at once (ten     *)
(* minutes lie between two ticks of the timer).                            *)
(***************************************************************************)
EXTENDS Integers, Sequences, FiniteSets

CONSTANTS
    Path,        \* places a manifest can be published at
    Object,      \* contents, by their sha256
    Job,         \* publications, each made at most once
    Payload,     \* the objects of each publication
    Retention,   \* what its caller gives as retention
    None,
    MaxSweeps,   \* sweeps under way at once
    MaxDay,      \* days that pass
    MaxRestarts  \* deaths of the daemon

ASSUME BoundsAssumption == MaxSweeps \in Nat /\ MaxDay \in Nat /\ MaxRestarts \in Nat
ASSUME NamesAssumption == Path \cap Job = {} /\ None \notin Path \cup Job \cup Object

\* Nothing, forever, a day, a number of days the disk does not give back
\* (1e21), something invalid.
ASSUME RetentionAssumption ==
    Retention \in [Job -> {"undeclared", "forever", "day", "huge", "invalid"}]

\* A publication without a file is refused before it starts.
ASSUME PayloadAssumption == Payload \in [Job -> (SUBSET Object) \ {{}}]

Sweeper == {"gc", "prune"}

VARIABLES
    pointer,   \* the manifest at each path
    tmp,       \* the temporary manifest beside its path, by the publication that wrote it
    objects,   \* the objects on disk
    job,       \* the publications
    queue,     \* those of each path in turn: only the first one runs
    sweep,     \* the sweeps
    ended,     \* the task has reached a terminal status
    day,       \* the clock
    restarts,
    raced      \* history: publications that ran beside a recheck or a removal

disk == <<pointer, tmp, objects>>
env == <<ended, day, restarts>>
vars == <<disk, job, queue, sweep, env, raced>>

\* days = 0 is forever. by is history: who published it.
Manifest == [version : Nat \ {0}, at : Nat, days : {0, 1}, objs : SUBSET Object, by : Job]

File == Path \cup Job
FileAt(f) == IF f \in Path THEN pointer[f] ELSE tmp[f]

\* The files a recursive readdir of manifests/ gives: a temporary manifest is
\* one of them, for its name is a legal one and its content is complete.
Manifests == {f \in File : FileAt(f) # None}

Reachable == UNION {FileAt(f).objs : f \in Manifests}

\* rest are the objects a publication has not looked for, next the one it puts.
JobState ==
    [pc : {"idle", "queued", "look", "land", "written", "leave", "done"},
     path : Path \cup {None}, rest : SUBSET Object, next : Object \cup {None},
     days : {0, 1}, version : Nat]

\* todo are the files yet to be read, used the objects seen listed.
SweepState ==
    [pc : {"idle", "scan", "expire", "delete", "recheck", "remove"},
     todo : SUBSET File, used : SUBSET Object, now : Nat,
     due : SUBSET [file : File, version : Nat, at : Nat],
     victim : File \cup {None}, orphans : SUBSET Object]

NoJob == [pc |-> "idle", path |-> None, rest |-> {}, next |-> None, days |-> 0, version |-> 0]
NoSweep == [pc |-> "idle", todo |-> {}, used |-> {}, now |-> 0, due |-> {},
            victim |-> None, orphans |-> {}]

Init ==
    /\ pointer = [p \in Path |-> None]
    /\ tmp = [j \in Job |-> None]
    /\ objects = {}
    /\ job = [j \in Job |-> NoJob]
    /\ queue = [p \in Path |-> <<>>]
    /\ sweep = [w \in Sweeper |-> NoSweep]
    /\ ended = FALSE
    /\ day = 0
    /\ restarts = 0
    /\ raced = {}

-----------------------------------------------------------------------------
(* Publication                                                             *)

\* What parseRetentionPolicy makes of the caller's value and
\* retentionFromDiskValue of what was stored: all but a day is forever.
KeptDays(retention) == IF retention = "day" THEN 1 ELSE 0

Busy(j) == job[j].pc \in {"look", "land", "written"}

\* A sweep whose recheck has begun and whose removals are not over.
InWindow(w) == sweep[w].pc \in {"recheck", "remove"}

Beside(j) == IF \E w \in Sweeper : InWindow(w) THEN {j} ELSE {}

\* publish: the call takes its turn in the chain of its path.
Publish(j, p) ==
    /\ job[j].pc = "idle"
    /\ job' = [job EXCEPT ![j] = [NoJob EXCEPT !.pc = "queued", !.path = p,
                                               !.days = KeptDays(Retention[j])]]
    /\ queue' = [queue EXCEPT ![p] = Append(@, j)]
    /\ UNCHANGED <<disk, sweep, env, raced>>

\* Faulty variant: publications of one path do not wait for each other.
MyTurn_Unlocked(j) == job[j].path # None

MyTurn(j) ==
    LET chain == queue[job[j].path]
    IN  job[j].path # None /\ chain # <<>> /\ Head(chain) = j

NextVersion(current) == IF current = None THEN 1 ELSE current.version + 1

\* The pointer as it is gives the version to come.
Begin(j) ==
    /\ job[j].pc = "queued"
    /\ MyTurn(j)
    /\ job' = [job EXCEPT ![j].pc = "look", ![j].rest = Payload[j],
                          ![j].version = NextVersion(pointer[job[j].path])]
    /\ UNCHANGED <<disk, queue, sweep, env, raced>>

\* An object that is there already is skipped.
Look(j, o) ==
    /\ job[j].pc = "look"
    /\ o \in job[j].rest
    /\ job' = IF o \in objects
              THEN [job EXCEPT ![j].rest = @ \ {o}]
              ELSE [job EXCEPT ![j].rest = @ \ {o}, ![j].pc = "land", ![j].next = o]
    /\ raced' = raced \cup Beside(j)
    /\ UNCHANGED <<disk, queue, sweep, env>>

Land(j) ==
    /\ job[j].pc = "land"
    /\ objects' = objects \cup {job[j].next}
    /\ job' = [job EXCEPT ![j].pc = "look", ![j].next = None]
    /\ raced' = raced \cup Beside(j)
    /\ UNCHANGED <<pointer, tmp, queue, sweep, env>>

WriteTmp(j) ==
    /\ job[j].pc = "look"
    /\ job[j].rest = {}
    /\ tmp' = [tmp EXCEPT ![j] = [version |-> job[j].version, at |-> day, days |-> job[j].days,
                                  objs |-> Payload[j], by |-> j]]
    /\ job' = [job EXCEPT ![j].pc = "written", ![j].days = 0, ![j].version = 0]
    /\ UNCHANGED <<pointer, objects, queue, sweep, env, raced>>

\* The rename is the publication.
Rename(j) ==
    /\ job[j].pc = "written"
    /\ tmp[j] # None
    /\ pointer' = [pointer EXCEPT ![job[j].path] = tmp[j]]
    /\ tmp' = [tmp EXCEPT ![j] = None]
    /\ job' = [job EXCEPT ![j].pc = "leave"]
    /\ UNCHANGED <<objects, queue, sweep, env, raced>>

\* Any of its calls may throw. What it has written stays, the temporary
\* manifest included.
Fail(j) ==
    /\ Busy(j) \/ (job[j].pc = "queued" /\ MyTurn(j))
    /\ job' = [job EXCEPT ![j] = [NoJob EXCEPT !.pc = "leave", !.path = job[j].path]]
    /\ UNCHANGED <<disk, queue, sweep, env, raced>>

\* The turn passes on, whatever the outcome.
Leave(j) ==
    /\ job[j].pc = "leave"
    /\ queue' = [queue EXCEPT ![job[j].path] = Tail(@)]
    /\ job' = [job EXCEPT ![j] = [NoJob EXCEPT !.pc = "done"]]
    /\ UNCHANGED <<disk, sweep, env, raced>>

-----------------------------------------------------------------------------
(* Sweeps                                                                  *)

At(w, pc) == sweep[w].pc = pc

OnlySweep == UNCHANGED <<disk, job, queue, env>>

\* listManifests, reconcile: the names first. The collector's clock is read
\* before them.
StartSweep(w) ==
    /\ At(w, "idle")
    /\ Cardinality({v \in Sweeper : ~At(v, "idle")}) < MaxSweeps
    /\ sweep' = [sweep EXCEPT ![w].pc = "scan", ![w].todo = Manifests, ![w].now = day]
    /\ OnlySweep /\ UNCHANGED raced

Aged(m, now) == m.days > 0 /\ now - m.at >= m.days

Listed(f, m) == [file |-> f, version |-> m.version, at |-> m.at]

\* Then the files one at a time, as they are by now: one that is gone is skipped.
ReadManifest(w, f) ==
    LET m == FileAt(f)
    IN  /\ At(w, "scan") \/ At(w, "recheck")
        /\ f \in sweep[w].todo
        /\ sweep' = [sweep EXCEPT
              ![w].todo = @ \ {f},
              ![w].used = IF m = None THEN @ ELSE @ \cup m.objs,
              ![w].due = IF /\ w = "gc" /\ At(w, "scan")
                            /\ m # None /\ Aged(m, sweep[w].now)
                         THEN @ \cup {Listed(f, m)}
                         ELSE @]
        /\ OnlySweep /\ UNCHANGED raced

\* Faulty variant: a task that has not ended gives no orphans either.
Plan_WhenEnded(w) ==
    /\ At(w, "scan")
    /\ sweep[w].todo = {}
    /\ sweep' = [sweep EXCEPT ![w].pc = "expire",
                              ![w].due = IF ended THEN @ ELSE {},
                              ![w].orphans = IF ended THEN objects \ sweep[w].used ELSE {},
                              ![w].used = {}, ![w].now = 0]
    /\ OnlySweep /\ UNCHANGED raced

\* listObjects and planArtifactGc: the manifests that are due go if the task
\* has ended, the objects no manifest was seen to list are orphans.
Plan(w) ==
    /\ At(w, "scan")
    /\ sweep[w].todo = {}
    /\ sweep' = [sweep EXCEPT ![w].pc = "expire",
                              ![w].due = IF ended THEN @ ELSE {},
                              ![w].orphans = objects \ sweep[w].used,
                              ![w].used = {}, ![w].now = 0]
    /\ OnlySweep /\ UNCHANGED raced

Same(f, listed) ==
    /\ FileAt(f) # None
    /\ FileAt(f).version = listed.version
    /\ FileAt(f).at = listed.at

\* deleteManifest: the file is read again and, when it is the one that was
\* listed, removed: two awaits.
CheckManifest(w, listed) ==
    /\ At(w, "expire")
    /\ listed \in sweep[w].due
    /\ sweep' = IF Same(listed.file, listed)
                THEN [sweep EXCEPT ![w].due = @ \ {listed}, ![w].pc = "delete",
                                   ![w].victim = listed.file]
                ELSE [sweep EXCEPT ![w].due = @ \ {listed}]
    /\ OnlySweep /\ UNCHANGED raced

DeleteManifest(w) ==
    LET f == sweep[w].victim
    IN  /\ At(w, "delete")
        /\ pointer' = IF f \in Path THEN [pointer EXCEPT ![f] = None] ELSE pointer
        /\ tmp' = IF f \in Job THEN [tmp EXCEPT ![f] = None] ELSE tmp
        /\ sweep' = [sweep EXCEPT ![w].pc = "expire", ![w].victim = None]
        /\ UNCHANGED <<objects, job, queue, env, raced>>

\* recheckOrphans: the manifests are listed and read a second time.
Relist(w) ==
    /\ At(w, "expire")
    /\ sweep[w].due = {}
    /\ sweep' = [sweep EXCEPT ![w].pc = "recheck", ![w].todo = Manifests]
    /\ raced' = raced \cup {j \in Job : Busy(j)}
    /\ OnlySweep

\* Faulty variant: what the second reading finds is not used.
Confirm_Blind(w) ==
    /\ At(w, "recheck")
    /\ sweep[w].todo = {}
    /\ sweep' = [sweep EXCEPT ![w].pc = "remove", ![w].used = {}]
    /\ OnlySweep /\ UNCHANGED raced

Confirm(w) ==
    /\ At(w, "recheck")
    /\ sweep[w].todo = {}
    /\ sweep' = [sweep EXCEPT ![w].pc = "remove", ![w].orphans = @ \ sweep[w].used,
                              ![w].used = {}]
    /\ OnlySweep /\ UNCHANGED raced

RemoveObject(w, o) ==
    /\ At(w, "remove")
    /\ o \in sweep[w].orphans
    /\ objects' = objects \ {o}
    /\ sweep' = [sweep EXCEPT ![w].orphans = @ \ {o}]
    /\ UNCHANGED <<pointer, tmp, job, queue, env, raced>>

EndSweep(w) ==
    /\ At(w, "remove")
    /\ sweep[w].orphans = {}
    /\ sweep' = [sweep EXCEPT ![w] = NoSweep]
    /\ OnlySweep /\ UNCHANGED raced

-----------------------------------------------------------------------------
(* Around them                                                             *)

TaskEnds ==
    /\ ~ended
    /\ ended' = TRUE
    /\ UNCHANGED <<disk, job, queue, sweep, day, restarts, raced>>

DayPasses ==
    /\ day < MaxDay
    /\ day' = day + 1
    /\ UNCHANGED <<disk, job, queue, sweep, ended, restarts, raced>>

\* The daemon dies and starts again: what it was doing is over, what is on
\* disk is the state. A prune goes on.
Restart ==
    /\ restarts < MaxRestarts
    /\ restarts' = restarts + 1
    /\ job' = [j \in Job |-> IF job[j].pc = "idle" THEN NoJob ELSE [NoJob EXCEPT !.pc = "done"]]
    /\ queue' = [p \in Path |-> <<>>]
    /\ sweep' = [sweep EXCEPT !["gc"] = NoSweep]
    /\ UNCHANGED <<disk, ended, day, raced>>

Publishing(j) ==
    \/ \E p \in Path : Publish(j, p)
    \/ Begin(j)
    \/ \E o \in Object : Look(j, o)
    \/ Land(j) \/ WriteTmp(j) \/ Rename(j) \/ Fail(j) \/ Leave(j)

Proceeding(w) ==
    \/ \E f \in File : ReadManifest(w, f)
    \/ Plan(w)
    \/ \E listed \in sweep[w].due : CheckManifest(w, listed)
    \/ DeleteManifest(w) \/ Relist(w) \/ Confirm(w)
    \/ \E o \in Object : RemoveObject(w, o)
    \/ EndSweep(w)

Next ==
    \/ \E j \in Job : Publishing(j)
    \/ \E w \in Sweeper : StartSweep(w) \/ Proceeding(w)
    \/ TaskEnds \/ DayPasses \/ Restart

Spec == Init /\ [][Next]_vars

\* The timer of the daemon starts a collection again and again and no step of a
\* sweep can wait for ever. Callers publish and the operator prunes as they like.
Collecting == StartSweep("gc") \/ \E w \in Sweeper : Proceeding(w)

FairSpec == Spec /\ WF_vars(Collecting)

-----------------------------------------------------------------------------
(* Properties                                                              *)

TypeOK ==
    /\ pointer \in [Path -> Manifest \cup {None}]
    /\ tmp \in [Job -> Manifest \cup {None}]
    /\ objects \subseteq Object
    /\ job \in [Job -> JobState]
    /\ queue \in [Path -> Seq(Job)]
    /\ sweep \in [Sweeper -> SweepState]
    /\ ended \in BOOLEAN
    /\ day \in 0..MaxDay
    /\ restarts \in 0..MaxRestarts
    /\ raced \subseteq Job

\* A manifest that was published beside no recheck and no removal keeps all of
\* its objects, through any number of sweeps, expiries and restarts
\* (repository.ts:27 "消除 ... 快照竞态"; a publication beside them may lose one).
NoneMissing ==
    \A p \in Path :
        pointer[p] # None /\ pointer[p].by \notin raced => pointer[p].objs \subseteq objects

\* A publication over another one carries the next version, however many are
\* called at once (repository.ts:22 "manifest 版本号严格递增").
VersionsRise ==
    [][\A p \in Path :
          pointer[p] # None /\ pointer'[p] \notin {None, pointer[p]}
              => pointer'[p].version = pointer[p].version + 1]_vars

\* An object that no manifest on disk lists is collected, or listed again.
OrphansCollected ==
    \A o \in Object :
        (o \in objects /\ o \notin Reachable) ~> (o \notin objects \/ o \in Reachable)

=============================================================================

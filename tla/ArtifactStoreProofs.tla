------------------------ MODULE ArtifactStoreProofs ------------------------
(***************************************************************************)
(* Versions of a path rise by one, and a manifest that was published       *)
(* beside no recheck keeps its objects, for any number of publications and *)
(* of sweeps that overlap.                                                 *)
(***************************************************************************)
EXTENDS ArtifactStore, TLAPS

\* A publication that has begun or waits knows its path and its version.
Placed ==
    \A j \in Job :
        /\ job[j].pc \notin {"idle", "done"} => job[j].path \in Path
        /\ job[j].pc \in {"look", "land"} => job[j].version # 0
        /\ job[j].pc = "land" => job[j].next \in Object

\* A publication that has begun is the first of its path, so the only one.
Active(j) == Busy(j) \/ job[j].pc = "leave"

Turns ==
    \A j \in Job :
        Active(j) => /\ queue[job[j].path] # <<>>
                     /\ Head(queue[job[j].path]) = j

Typed == TypeOK /\ Placed /\ Turns

\* A file that is written has the type of a file.
LEMMA FileType ==
    ASSUME TypeOK, NEW f \in File
    PROVE  FileAt(f) \in Manifest \cup {None}
  BY DEF TypeOK, File, FileAt

\* What stands for no publication and for no sweep is of their types.
LEMMA NoneTypes == NoJob \in JobState /\ NoSweep \in SweepState
  BY DEF NoJob, JobState, NoSweep, SweepState

\* The types hold at first,
LEMMA InitTyped == Init => Typed
  <1> SUFFICES ASSUME Init PROVE Typed
    OBVIOUS
  <1>1. job \in [Job -> JobState] /\ sweep \in [Sweeper -> SweepState]
    BY NoneTypes DEF Init
  <1>2. Placed
    BY DEF Init, Placed, NoJob
  <1>3. queue \in [Path -> Seq(Job)]
    BY DEF Init
  <1>4. Turns
    BY DEF Init, Turns, Active, Busy, NoJob
  <1>5. 0 \in 0..MaxDay /\ 0 \in 0..MaxRestarts
    BY BoundsAssumption
  <1>6. pointer \in [Path -> Manifest \cup {None}] /\ tmp \in [Job -> Manifest \cup {None}]
    BY DEF Init
  <1> QED
    BY <1>1, <1>2, <1>3, <1>4, <1>5, <1>6 DEF Init, Typed, TypeOK

\* the steps of a publication keep them,
LEMMA PublishingTyped ==
    ASSUME Typed, NEW j \in Job, Publishing(j)
    PROVE  Typed'
  <1>1. job \in [Job -> JobState] /\ job[j] \in JobState
    BY DEF Typed, TypeOK
  <1>2. ASSUME NEW p \in Path, Publish(j, p) PROVE Typed'
    <2>1. [NoJob EXCEPT !.pc = "queued", !.path = p, !.days = KeptDays(Retention[j])] \in JobState
      BY DEF NoJob, JobState, KeptDays
    <2>2. job' \in [Job -> JobState]
      BY <1>1, <1>2, <2>1 DEF Publish
    <2>3. Placed'
      BY <1>2, <1>1 DEF Publish, Placed, Typed, NoJob, JobState
    <2>4. queue' \in [Path -> Seq(Job)]
      BY <1>2 DEF Publish, Typed, TypeOK
    <2>9. Turns'
      BY <1>1, <1>2 DEF Publish, Turns, Active, Busy, JobState, Typed, TypeOK, NoJob, Placed
    <2> QED
      BY <2>9, <1>2, <2>2, <2>3, <2>4 DEF Publish, Typed, TypeOK, disk, env
  <1>3. CASE Begin(j)
    <2>1. job[j].path \in Path
      BY <1>1, <1>3 DEF Begin, MyTurn, JobState
    <2>2. NextVersion(pointer[job[j].path]) \in Nat /\ NextVersion(pointer[job[j].path]) # 0
      BY <2>1 DEF NextVersion, Typed, TypeOK, Manifest
    <2>3. job' \in [Job -> JobState]
      <3>1. Payload[j] \in SUBSET Object
        BY PayloadAssumption
      <3> QED
        BY <1>1, <1>3, <2>2, <3>1 DEF Begin, JobState
    <2>4. Placed'
      BY <1>1, <1>3, <2>2 DEF Begin, Placed, Typed, JobState
    <2>9. Turns'
      BY <1>1, <1>3 DEF Begin, MyTurn, Turns, Active, Busy, JobState, Typed, TypeOK
    <2> QED
      BY <2>9, <1>3, <2>3, <2>4 DEF Begin, Typed, TypeOK, disk, env
  <1>4. ASSUME NEW o \in Object, Look(j, o) PROVE Typed'
    <2>1. job' \in [Job -> JobState]
      BY <1>1, <1>4 DEF Look, Beside, JobState
    <2>2. Placed'
      BY <1>1, <1>4 DEF Look, Beside, Placed, Typed, JobState
    <2>9. Turns'
      BY <1>1, <1>4 DEF Look, Turns, Active, Busy, JobState, Typed, TypeOK
    <2> QED
      BY <2>9, <1>4, <2>1, <2>2 DEF Look, Beside, Typed, TypeOK, disk, env
  <1>5. CASE Land(j)
    <2>1. job' \in [Job -> JobState]
      BY <1>1, <1>5 DEF Land, Beside, JobState
    <2>2. Placed'
      BY <1>1, <1>5 DEF Land, Beside, Placed, Typed, JobState
    <2>3. objects' \subseteq Object
      BY <1>1, <1>5 DEF Land, JobState, Typed, TypeOK, Placed
    <2>9. Turns'
      BY <1>1, <1>5 DEF Land, Turns, Active, Busy, JobState, Typed, TypeOK
    <2> QED
      BY <2>9, <1>5, <2>1, <2>2, <2>3 DEF Land, Beside, Typed, TypeOK, disk, env
  <1>6. CASE WriteTmp(j)
    <2>1. job' \in [Job -> JobState]
      BY <1>1, <1>6 DEF WriteTmp, JobState
    <2>2. Placed'
      BY <1>1, <1>6 DEF WriteTmp, Placed, Typed, JobState
    <2>3. [version |-> job[j].version, at |-> day, days |-> job[j].days,
           objs |-> Payload[j], by |-> j] \in Manifest
      BY <1>1, <1>6 DEF WriteTmp, JobState, Manifest, Typed, TypeOK, Placed
    <2>4. tmp' \in [Job -> Manifest \cup {None}]
      BY <1>6, <2>3 DEF WriteTmp, Typed, TypeOK
    <2>9. Turns'
      BY <1>1, <1>6 DEF WriteTmp, Turns, Active, Busy, JobState, Typed, TypeOK
    <2> QED
      BY <2>9, <1>6, <2>1, <2>2, <2>4 DEF WriteTmp, Typed, TypeOK, disk, env
  <1>7. CASE Rename(j)
    <2>1. job' \in [Job -> JobState]
      BY <1>1, <1>7 DEF Rename, JobState
    <2>2. Placed'
      BY <1>1, <1>7 DEF Rename, Placed, Typed, JobState
    <2>9. Turns'
      BY <1>1, <1>7 DEF Rename, Turns, Active, Busy, JobState, Typed, TypeOK
    <2> QED
      BY <2>9, <1>7, <2>1, <2>2 DEF Rename, Typed, TypeOK, disk, env
  <1>8. CASE Fail(j)
    <2>1. job[j].path \in Path
      BY <1>1, <1>8 DEF Fail, Busy, MyTurn, JobState, Typed, Placed
    <2>2. [NoJob EXCEPT !.pc = "leave", !.path = job[j].path] \in JobState
      BY <2>1 DEF NoJob, JobState
    <2>3. job' \in [Job -> JobState]
      BY <1>1, <1>8, <2>2 DEF Fail
    <2>4. Placed'
      BY <1>1, <1>8, <2>1 DEF Fail, Placed, Typed, NoJob
    <2>9. Turns'
      BY <1>1, <1>8 DEF Fail, MyTurn, Turns, Active, Busy, JobState, Typed, TypeOK, NoJob
    <2> QED
      BY <2>9, <1>8, <2>3, <2>4 DEF Fail, Typed, TypeOK, disk, env
  <1>9. CASE Leave(j)
    <2>1. [NoJob EXCEPT !.pc = "done"] \in JobState
      BY DEF NoJob, JobState
    <2>2. job' \in [Job -> JobState]
      BY <1>1, <1>9, <2>1 DEF Leave
    <2>3. Placed'
      BY <1>1, <1>9 DEF Leave, Placed, Typed, NoJob
    <2>4. queue' \in [Path -> Seq(Job)]
      <3>1. queue[job[j].path] # <<>> /\ queue[job[j].path] \in Seq(Job)
        BY <1>9 DEF Leave, Typed, TypeOK, Placed, Turns, Active
      <3>2. Tail(queue[job[j].path]) \in Seq(Job)
        BY <3>1
      <3>3. queue' = [queue EXCEPT ![job[j].path] = Tail(queue[job[j].path])]
        BY <1>9 DEF Leave, Typed, TypeOK
      <3> QED
        BY <3>2, <3>3 DEF Typed, TypeOK
    <2>9. Turns'
      BY <1>1, <1>9 DEF Leave, Turns, Active, Busy, JobState, Typed, TypeOK, NoJob, Placed
    <2> QED
      BY <2>9, <1>9, <2>2, <2>3, <2>4 DEF Leave, Typed, TypeOK, disk, env
  <1> QED
    BY <1>2, <1>3, <1>4, <1>5, <1>6, <1>7, <1>8, <1>9 DEF Publishing

\* those of a sweep do,
LEMMA SweepingTyped ==
    ASSUME Typed, NEW w \in Sweeper, StartSweep(w) \/ Proceeding(w)
    PROVE  Typed'
  <1>1. sweep \in [Sweeper -> SweepState] /\ sweep[w] \in SweepState
    BY DEF Typed, TypeOK
  <1>2. Manifests \subseteq File
    BY DEF Manifests
  <1>0. day \in Nat
    BY BoundsAssumption DEF Typed, TypeOK
  <1> USE DEF At, OnlySweep
  <1>3. CASE StartSweep(w)
    <2>1. sweep' \in [Sweeper -> SweepState]
      BY <1>0, <1>1, <1>2, <1>3 DEF StartSweep, SweepState, Typed, TypeOK
    <2> QED
      BY <1>3, <2>1 DEF StartSweep, Typed, TypeOK, Placed, Turns, Active, Busy, disk, env
  <1>4. ASSUME NEW f \in File, ReadManifest(w, f) PROVE Typed'
    <2>1. FileAt(f) # None => FileAt(f) \in Manifest
      BY FileType DEF Typed
    <2>2. FileAt(f) # None => Listed(f, FileAt(f)) \in [file : File, version : Nat, at : Nat]
      BY <2>1 DEF Listed, Manifest
    <2>3. FileAt(f) # None => FileAt(f).objs \subseteq Object
      BY <2>1 DEF Manifest
    <2> DEFINE used == IF FileAt(f) = None THEN sweep[w].used
                       ELSE sweep[w].used \cup FileAt(f).objs
               due == IF /\ w = "gc" /\ sweep[w].pc = "scan"
                         /\ FileAt(f) # None /\ Aged(FileAt(f), sweep[w].now)
                      THEN sweep[w].due \cup {Listed(f, FileAt(f))}
                      ELSE sweep[w].due
    <2>5. used \in SUBSET Object
      BY <1>1, <2>3 DEF SweepState
    <2>6. due \in SUBSET [file : File, version : Nat, at : Nat]
      BY <1>1, <2>2 DEF SweepState
    <2>7. sweep' = [sweep EXCEPT ![w].todo = @ \ {f}, ![w].used = used, ![w].due = due]
      BY <1>1, <1>4 DEF ReadManifest
    <2>4. sweep' \in [Sweeper -> SweepState]
      <3> HIDE DEF used, due
      <3> QED
        BY <1>1, <2>5, <2>6, <2>7 DEF SweepState
    <2> QED
      BY <1>4, <2>4 DEF ReadManifest, Typed, TypeOK, Placed, Turns, Active, Busy, disk, env
  <1>5. CASE Plan(w)
    <2>2. objects \ sweep[w].used \in SUBSET Object
      BY DEF Typed, TypeOK
    <2>3. (IF ended THEN sweep[w].due ELSE {}) \in SUBSET [file : File, version : Nat, at : Nat]
      BY <1>1 DEF SweepState
    <2>1. sweep' \in [Sweeper -> SweepState]
      BY <1>1, <1>5, <2>2, <2>3 DEF Plan, SweepState
    <2> QED
      BY <1>5, <2>1 DEF Plan, Typed, TypeOK, Placed, Turns, Active, Busy, disk, env
  <1>6. ASSUME NEW listed \in sweep[w].due, CheckManifest(w, listed) PROVE Typed'
    <2>1. sweep' \in [Sweeper -> SweepState]
      BY <1>1, <1>2, <1>6 DEF CheckManifest, SweepState, Typed, TypeOK
    <2> QED
      BY <1>6, <2>1 DEF CheckManifest, Typed, TypeOK, Placed, Turns, Active, Busy, disk, env
  <1>7. CASE DeleteManifest(w)
    <2>1. sweep' \in [Sweeper -> SweepState]
      BY <1>1, <1>2, <1>7 DEF DeleteManifest, SweepState, Typed, TypeOK
    <2> QED
      BY <1>7, <2>1 DEF DeleteManifest, Typed, TypeOK, Placed, Turns, Active, Busy, disk, env
  <1>8. CASE Relist(w)
    <2>1. sweep' \in [Sweeper -> SweepState]
      BY <1>1, <1>2, <1>8 DEF Relist, SweepState, Typed, TypeOK
    <2> QED
      BY <1>8, <2>1 DEF Relist, Typed, TypeOK, Placed, Turns, Active, Busy, disk, env
  <1>9. CASE Confirm(w)
    <2>1. sweep' \in [Sweeper -> SweepState]
      BY <1>1, <1>2, <1>9 DEF Confirm, SweepState, Typed, TypeOK
    <2> QED
      BY <1>9, <2>1 DEF Confirm, Typed, TypeOK, Placed, Turns, Active, Busy, disk, env
  <1>10. ASSUME NEW o \in Object, RemoveObject(w, o) PROVE Typed'
    <2>1. sweep' \in [Sweeper -> SweepState]
      BY <1>1, <1>2, <1>10 DEF RemoveObject, SweepState, Typed, TypeOK
    <2> QED
      BY <1>10, <2>1 DEF RemoveObject, Typed, TypeOK, Placed, Turns, Active, Busy, disk, env
  <1>11. CASE EndSweep(w)
    <2>1. sweep' \in [Sweeper -> SweepState]
      BY <1>1, <1>2, <1>11, NoneTypes DEF EndSweep, SweepState, Typed, TypeOK
    <2> QED
      BY <1>11, <2>1 DEF EndSweep, Typed, TypeOK, Placed, Turns, Active, Busy, disk, env
  <1> QED
    BY <1>3, <1>4, <1>5, <1>6, <1>7, <1>8, <1>9, <1>10, <1>11 DEF Proceeding

\* and so does every step.
LEMMA NextTyped == ASSUME Typed, [Next]_vars PROVE Typed'
  <1>1. CASE \E j \in Job : Publishing(j)
    BY <1>1, PublishingTyped
  <1>2. CASE \E w \in Sweeper : StartSweep(w) \/ Proceeding(w)
    BY <1>2, SweepingTyped
  <1>3. CASE TaskEnds
    BY <1>3 DEF TaskEnds, Typed, TypeOK, Placed, Turns, Active, Busy, disk
  <1>4. CASE DayPasses
    BY <1>4, BoundsAssumption DEF DayPasses, Typed, TypeOK, Placed, Turns, Active, Busy, disk
  <1>5. CASE Restart
    <2>1. [NoJob EXCEPT !.pc = "done"] \in JobState
      BY DEF NoJob, JobState
    <2>2. job' \in [Job -> JobState]
      BY <1>5, <2>1, NoneTypes DEF Restart
    <2>3. Placed'
      BY <1>5 DEF Restart, Placed, NoJob
    <2>4. sweep' \in [Sweeper -> SweepState]
      BY <1>5, NoneTypes DEF Restart, Typed, TypeOK
    <2>5. queue' \in [Path -> Seq(Job)]
      BY <1>5 DEF Restart
    <2>6. restarts' \in 0..MaxRestarts
      BY <1>5, BoundsAssumption DEF Restart, Typed, TypeOK
    <2>7. Turns'
      BY <1>5 DEF Restart, Turns, Active, Busy, NoJob
    <2> QED
      BY <1>5, <2>2, <2>3, <2>4, <2>5, <2>6, <2>7 DEF Restart, Typed, TypeOK, disk
  <1>6. CASE UNCHANGED vars
    BY <1>6 DEF vars, disk, env, Typed, TypeOK, Placed, Turns, Active, Busy
  <1> QED
    BY <1>1, <1>2, <1>3, <1>4, <1>5, <1>6 DEF Next

\* The state of the repository has its type, with what the proofs add to it.
THEOREM StoreTyped == Spec => []Typed
  BY InitTyped, NextTyped, PTL DEF Spec

\* Every variable keeps its type.
THEOREM StoreTypeOK == Spec => []TypeOK
  <1>1. Typed => TypeOK
    BY DEF Typed
  <1> QED
    BY <1>1, StoreTyped, PTL

-----------------------------------------------------------------------------
(* Versions *)

\* What a publication is about to rename is one ahead of what is at its path,
\* if anything still is.
OneAhead ==
    \A j \in Job :
        Busy(j) /\ pointer[job[j].path] # None =>
            /\ job[j].pc \in {"look", "land"} =>
                  job[j].version = pointer[job[j].path].version + 1
            /\ job[j].pc = "written" /\ tmp[j] # None =>
                  tmp[j].version = pointer[job[j].path].version + 1

\* Two publications of one path do not run together.
LEMMA OneAtATime ==
    ASSUME Typed, NEW j \in Job, NEW k \in Job, Active(j), Active(k),
           job[j].path = job[k].path
    PROVE  j = k
  BY DEF Typed, Turns

\* Outside of a rename and of a deletion the manifests at the paths stay.
LEMMA PointerChanges ==
    ASSUME Next
    PROVE  \/ pointer' = pointer
           \/ \E j \in Job : Rename(j)
           \/ \E w \in Sweeper : DeleteManifest(w)
  BY ZenonT(30) DEF Next, Publishing, Proceeding, Publish, Begin, Look, Land, WriteTmp, Fail, Leave,
         StartSweep, ReadManifest, Plan, CheckManifest, Relist, Confirm, RemoveObject,
         EndSweep, OnlySweep, TaskEnds, DayPasses, Restart, disk

\* Every step leaves the version under way one ahead of the published one.
LEMMA NextOneAhead == ASSUME Typed, OneAhead, [Next]_vars PROVE OneAhead'
  <1> USE DEF Busy
  <1>1. job \in [Job -> JobState]
    BY DEF Typed, TypeOK
  <1>2. ASSUME NEW j \in Job, Publishing(j) PROVE OneAhead'
    <2>1. CASE \E p \in Path : Publish(j, p)
      BY <1>1, <2>1 DEF Publish, OneAhead, NoJob, disk
    <2>2. CASE Begin(j)
      <3>1. job[j].path \in Path
        BY <1>1, <2>2 DEF Begin, MyTurn, JobState
      <3> QED
        BY <1>1, <2>2, <3>1 DEF Begin, NextVersion, OneAhead, JobState, disk
    <2>3. CASE \E o \in Object : Look(j, o)
      BY <1>1, <2>3 DEF Look, OneAhead, JobState, disk
    <2>4. CASE Land(j)
      BY <1>1, <2>4 DEF Land, OneAhead, JobState
    <2>5. CASE WriteTmp(j)
      <3>1. tmp \in [Job -> Manifest \cup {None}]
        BY DEF Typed, TypeOK
      <3>2. job[j].pc = "look" /\ job'[j].pc = "written" /\ job'[j].path = job[j].path
        BY <1>1, <2>5 DEF WriteTmp, JobState
      <3>3. tmp'[j].version = job[j].version
        BY <2>5, <3>1 DEF WriteTmp
      <3>4. \A k \in Job \ {j} : job'[k] = job[k] /\ tmp'[k] = tmp[k]
        BY <1>1, <2>5, <3>1 DEF WriteTmp
      <3>5. pointer' = pointer
        BY <2>5 DEF WriteTmp
      <3>6. pointer[job[j].path] # None => job[j].version = pointer[job[j].path].version + 1
        BY <3>2 DEF OneAhead
      <3>7. ASSUME NEW k \in Job, Busy(k)', pointer'[job'[k].path] # None
            PROVE  /\ job'[k].pc \in {"look", "land"} =>
                         job'[k].version = pointer'[job'[k].path].version + 1
                   /\ job'[k].pc = "written" /\ tmp'[k] # None =>
                         tmp'[k].version = pointer'[job'[k].path].version + 1
        <4>1. CASE k = j
          BY <3>2, <3>3, <3>5, <3>6, <3>7, <4>1
        <4>2. CASE k # j
          BY <3>4, <3>5, <3>7, <4>2 DEF OneAhead
        <4> QED
          BY <4>1, <4>2
      <3> QED
        BY <3>7 DEF OneAhead
    <2>6. CASE Rename(j)
      <3>1. Active(j) /\ job'[j].pc = "leave"
        BY <1>1, <2>6 DEF Rename, Active, Busy, JobState
      <3>2. ASSUME NEW k \in Job, k # j, Busy(k) PROVE pointer'[job[k].path] = pointer[job[k].path]
        BY <2>6, <3>1, <3>2, OneAtATime DEF Rename, Active, Typed, TypeOK
      <3>3. \A k \in Job \ {j} : job'[k] = job[k] /\ tmp'[k] = tmp[k]
        BY <1>1, <2>6 DEF Rename, Typed, TypeOK
      <3> QED
        BY <3>1, <3>2, <3>3 DEF OneAhead, Busy
    <2>7. CASE Fail(j)
      BY <1>1, <2>7 DEF Fail, OneAhead, NoJob, disk
    <2>8. CASE Leave(j)
      BY <1>1, <2>8 DEF Leave, OneAhead, NoJob, disk
    <2> QED
      BY <1>2, <2>1, <2>2, <2>3, <2>4, <2>5, <2>6, <2>7, <2>8 DEF Publishing
  <1>3. ASSUME NEW w \in Sweeper, DeleteManifest(w) PROVE OneAhead'
    <2>1. job' = job
      BY <1>3 DEF DeleteManifest
    <2>2. \A p \in Path : pointer'[p] = pointer[p] \/ pointer'[p] = None
      BY <1>3 DEF DeleteManifest, Typed, TypeOK
    <2>3. \A j \in Job : tmp'[j] = tmp[j] \/ tmp'[j] = None
      BY <1>3 DEF DeleteManifest, Typed, TypeOK
    <2>4. \A j \in Job : job[j].pc \in {"look", "land", "written"} => job[j].path \in Path
      BY DEF Typed, Placed
    <2> QED
      BY <2>1, <2>2, <2>3, <2>4 DEF OneAhead
  <1>4. CASE Restart
    BY <1>4 DEF Restart, OneAhead, NoJob
  <1>5. CASE UNCHANGED <<job, pointer, tmp>>
    BY <1>5 DEF OneAhead
  <1>6. ASSUME Next PROVE \/ \E j \in Job : Publishing(j)
                          \/ \E w \in Sweeper : DeleteManifest(w)
                          \/ Restart
                          \/ UNCHANGED <<job, pointer, tmp>>
    <2>1. ASSUME NEW w \in Sweeper, StartSweep(w) \/ Proceeding(w)
          PROVE  DeleteManifest(w) \/ UNCHANGED <<job, pointer, tmp>>
      BY <2>1 DEF Proceeding, StartSweep, ReadManifest, Plan, CheckManifest, Relist,
                  Confirm, RemoveObject, EndSweep, OnlySweep, disk
    <2>2. TaskEnds \/ DayPasses => UNCHANGED <<job, pointer, tmp>>
      BY DEF TaskEnds, DayPasses, disk
    <2> QED
      BY <1>6, <2>1, <2>2 DEF Next
  <1>7. CASE UNCHANGED vars
    BY <1>7, <1>5 DEF vars, disk
  <1> QED
    BY <1>2, <1>3, <1>4, <1>5, <1>6, <1>7

\* The versions published at a path rise by one, whoever publishes, however
\* many publications are called at once, whatever is collected meanwhile.
THEOREM StoreVersionsRise == Spec => VersionsRise
  <1> DEFINE Rise == \A p \in Path :
                        pointer[p] # None /\ pointer'[p] \notin {None, pointer[p]}
                            => pointer'[p].version = pointer[p].version + 1
  <1>1. Init => OneAhead
    BY DEF Init, OneAhead, Busy, NoJob
  <1>2. Typed /\ OneAhead /\ [Next]_vars => OneAhead'
    BY NextOneAhead
  <1>3. Typed /\ OneAhead /\ [Next]_vars => [Rise]_vars
    <2> SUFFICES ASSUME Typed, OneAhead, Next PROVE Rise
      OBVIOUS
    <2>1. CASE pointer' = pointer
      BY <2>1
    <2>2. ASSUME NEW j \in Job, Rename(j) PROVE Rise
      BY <2>2 DEF Rename, OneAhead, Busy, Typed, TypeOK, Placed
    <2>3. ASSUME NEW w \in Sweeper, DeleteManifest(w) PROVE Rise
      BY <2>3 DEF DeleteManifest, Typed, TypeOK
    <2> QED
      BY <2>1, <2>2, <2>3, PointerChanges
  <1> QED
    BY <1>1, <1>2, <1>3, StoreTyped, PTL DEF Spec, VersionsRise

-----------------------------------------------------------------------------
(* Objects *)

\* A temporary manifest is that of the publication that wrote it.
Signed == \A j \in Job : tmp[j] # None => tmp[j].by = j /\ tmp[j].objs = Payload[j]

\* The objects a publication has dealt with are there.
Put ==
    \A j \in Job \ raced :
        /\ job[j].pc = "look" => Payload[j] \ job[j].rest \subseteq objects
        /\ job[j].pc = "land" => Payload[j] \ (job[j].rest \cup {job[j].next}) \subseteq objects
        /\ job[j].pc = "written" => Payload[j] \subseteq objects

\* A publication that runs beside a recheck or a removal is marked, unless it
\* has not looked for any object yet.
Marked ==
    \A w \in Sweeper, j \in Job :
        InWindow(w) /\ Busy(j) =>
            j \in raced \/ (job[j].pc = "look" /\ job[j].rest = Payload[j])

\* A recheck has yet to read, or has counted, each manifest that is not marked,
\* and none of the objects of such a one is removed.
Seen ==
    \A w \in Sweeper, p \in Path :
        pointer[p] # None /\ pointer[p].by \notin raced =>
            /\ At(w, "recheck") =>
                  p \in sweep[w].todo \/ pointer[p].objs \subseteq sweep[w].used
            /\ At(w, "remove") => pointer[p].objs \cap sweep[w].orphans = {}

KeepInv == NoneMissing /\ Signed /\ Put /\ Marked /\ Seen

\* The objects are kept at first,
LEMMA InitKeeps == Init => KeepInv
  BY DEF Init, KeepInv, NoneMissing, Signed, Put, Marked, Seen, InWindow, Busy, At, NoJob, NoSweep

\* through the steps of a publication,
LEMMA PublishingKeeps ==
    ASSUME Typed, KeepInv, NEW j \in Job, Publishing(j)
    PROVE  KeepInv'
  <1>1. job \in [Job -> JobState] /\ job[j] \in JobState
    BY DEF Typed, TypeOK
  <1>2. Payload[j] # {}
    BY PayloadAssumption
  <1> USE DEF KeepInv
  <1>3. ASSUME NEW p \in Path, Publish(j, p) PROVE KeepInv'
    <2>1. Put' /\ Marked'
      BY <1>1, <1>3 DEF Publish, Put, Marked, InWindow, Busy, NoJob, disk
    <2> QED
      BY <1>3, <2>1 DEF Publish, NoneMissing, Signed, Seen, At, disk
  <1>4. CASE Begin(j)
    <2>1. Put' /\ Marked'
      BY <1>1, <1>4 DEF Begin, Put, Marked, InWindow, Busy, JobState, disk
    <2> QED
      BY <1>4, <2>1 DEF Begin, NoneMissing, Signed, Seen, At, disk
  <1>5. ASSUME NEW o \in Object, Look(j, o) PROVE KeepInv'
    <2>1. Put'
      BY <1>1, <1>5 DEF Look, Put, JobState, disk
    <2>2. Marked'
      BY <1>1, <1>5 DEF Look, Beside, Marked, InWindow, Busy, JobState
    <2> QED
      BY <1>5, <2>1, <2>2 DEF Look, NoneMissing, Signed, Seen, At, disk
  <1>6. CASE Land(j)
    <2>1. Put'
      BY <1>1, <1>6 DEF Land, Put, JobState
    <2>2. Marked'
      BY <1>1, <1>6 DEF Land, Beside, Marked, InWindow, Busy, JobState
    <2> QED
      BY <1>6, <2>1, <2>2 DEF Land, NoneMissing, Signed, Seen, At
  <1>7. CASE WriteTmp(j)
    <2>1. Put'
      BY <1>1, <1>7 DEF WriteTmp, Put, JobState
    <2>2. Marked'
      BY <1>1, <1>2, <1>7 DEF WriteTmp, Marked, InWindow, Busy, JobState
    <2>3. Signed'
      BY <1>7 DEF WriteTmp, Signed, Typed, TypeOK
    <2> QED
      BY <1>7, <2>1, <2>2, <2>3 DEF WriteTmp, NoneMissing, Seen, At
  <1>8. CASE Rename(j)
    <2>1. Put' /\ Marked'
      BY <1>1, <1>8 DEF Rename, Put, Marked, InWindow, Busy, JobState
    <2>2. Signed'
      BY <1>8 DEF Rename, Signed, Typed, TypeOK
    <2>3. tmp[j].by = j /\ tmp[j].objs = Payload[j] /\ job[j].path \in Path
      BY <1>8 DEF Rename, Signed, Typed, Placed
    <2>4. NoneMissing'
      BY <1>8, <2>3 DEF Rename, NoneMissing, Put, Typed, TypeOK
    <2>5. ASSUME NEW w \in Sweeper, InWindow(w) PROVE j \in raced
      BY <1>8, <2>5 DEF Rename, Marked, Busy
    <2>6. Seen'
      BY <1>8, <2>3, <2>5 DEF Rename, Seen, At, InWindow, Typed, TypeOK
    <2> QED
      BY <2>1, <2>2, <2>4, <2>6
  <1>9. CASE Fail(j)
    <2>1. Put' /\ Marked'
      BY <1>1, <1>9 DEF Fail, Put, Marked, InWindow, Busy, NoJob, disk
    <2> QED
      BY <1>9, <2>1 DEF Fail, NoneMissing, Signed, Seen, At, disk
  <1>10. CASE Leave(j)
    <2>1. Put' /\ Marked'
      BY <1>1, <1>10 DEF Leave, Put, Marked, InWindow, Busy, NoJob, disk
    <2> QED
      BY <1>10, <2>1 DEF Leave, NoneMissing, Signed, Seen, At, disk
  <1> QED
    BY <1>3, <1>4, <1>5, <1>6, <1>7, <1>8, <1>9, <1>10 DEF Publishing

\* A step of a sweep that opens no window and leaves the disk alone.
LEMMA QuietSweep ==
    ASSUME Typed, KeepInv, NEW w \in Sweeper, OnlySweep, raced' = raced,
           \A v \in Sweeper \ {w} : sweep'[v] = sweep[v],
           sweep'[w].pc \notin {"recheck", "remove"}
    PROVE  KeepInv'
  BY DEF OnlySweep, KeepInv, NoneMissing, Signed, Put, Marked, Seen, InWindow, Busy, At, disk

\* through those of a sweep,
LEMMA SweepingKeeps ==
    ASSUME Typed, KeepInv, NEW w \in Sweeper, StartSweep(w) \/ Proceeding(w)
    PROVE  KeepInv'
  <1>1. sweep \in [Sweeper -> SweepState] /\ sweep[w] \in SweepState
    BY DEF Typed, TypeOK
  <1>2. CASE StartSweep(w)
    BY <1>1, <1>2, QuietSweep DEF StartSweep, SweepState
  <1>3. ASSUME NEW f \in File, ReadManifest(w, f) PROVE KeepInv'
    <2>1. /\ sweep'[w].pc = sweep[w].pc
          /\ sweep'[w].todo = sweep[w].todo \ {f}
          /\ sweep'[w].used = IF FileAt(f) = None THEN sweep[w].used
                              ELSE sweep[w].used \cup FileAt(f).objs
          /\ sweep'[w].orphans = sweep[w].orphans
          /\ \A v \in Sweeper \ {w} : sweep'[v] = sweep[v]
      BY <1>1, <1>3 DEF ReadManifest, SweepState
    <2>2. f \in Path => FileAt(f) = pointer[f]
      BY DEF FileAt
    <2>3. UNCHANGED <<disk, job, raced>>
      BY <1>3 DEF ReadManifest, OnlySweep
    <2>4. Seen'
      BY <2>1, <2>2, <2>3 DEF KeepInv, Seen, At, disk
    <2>5. Marked'
      BY <2>1, <2>3 DEF KeepInv, Marked, InWindow, Busy
    <2> QED
      BY <2>3, <2>4, <2>5 DEF KeepInv, NoneMissing, Signed, Put, disk
  <1>4. CASE Plan(w)
    BY <1>1, <1>4, QuietSweep DEF Plan, SweepState
  <1>5. ASSUME NEW listed \in sweep[w].due, CheckManifest(w, listed) PROVE KeepInv'
    BY <1>1, <1>5, QuietSweep DEF CheckManifest, SweepState, At
  <1>6. CASE DeleteManifest(w)
    <2>1. \A p \in Path : pointer'[p] = pointer[p] \/ pointer'[p] = None
      BY <1>6 DEF DeleteManifest, Typed, TypeOK
    <2>2. \A k \in Job : tmp'[k] = tmp[k] \/ tmp'[k] = None
      BY <1>6 DEF DeleteManifest, Typed, TypeOK
    <2>3. sweep'[w].pc = "expire" /\ \A v \in Sweeper \ {w} : sweep'[v] = sweep[v]
      BY <1>1, <1>6 DEF DeleteManifest, SweepState
    <2>4. objects' = objects /\ job' = job /\ raced' = raced
      BY <1>6 DEF DeleteManifest
    <2> QED
      BY <2>1, <2>2, <2>3, <2>4
         DEF KeepInv, NoneMissing, Signed, Put, Marked, Seen, InWindow, Busy, At
  <1>7. CASE Relist(w)
    <2>1. /\ sweep'[w].pc = "recheck"
          /\ sweep'[w].todo = Manifests
          /\ \A v \in Sweeper \ {w} : sweep'[v] = sweep[v]
      BY <1>1, <1>7 DEF Relist, SweepState
    <2>2. \A p \in Path : pointer[p] # None => p \in Manifests
      BY DEF Manifests, File, FileAt
    <2>3. raced' = raced \cup {k \in Job : Busy(k)} /\ UNCHANGED <<disk, job>>
      BY <1>7 DEF Relist, OnlySweep
    <2> QED
      BY <2>1, <2>2, <2>3
         DEF KeepInv, NoneMissing, Signed, Put, Marked, Seen, InWindow, Busy, At, disk
  <1>8. CASE Confirm(w)
    <2>1. /\ sweep[w].pc = "recheck" /\ sweep[w].todo = {}
          /\ sweep'[w].pc = "remove"
          /\ sweep'[w].orphans = sweep[w].orphans \ sweep[w].used
          /\ \A v \in Sweeper \ {w} : sweep'[v] = sweep[v]
      BY <1>1, <1>8 DEF Confirm, SweepState, At
    <2>2. UNCHANGED <<disk, job, raced>>
      BY <1>8 DEF Confirm, OnlySweep
    <2>3. Seen'
      BY <2>1, <2>2 DEF KeepInv, Seen, At, disk
    <2>4. Marked'
      BY <2>1, <2>2 DEF KeepInv, Marked, InWindow, Busy
    <2> QED
      BY <2>2, <2>3, <2>4 DEF KeepInv, NoneMissing, Signed, Put, disk
  <1>9. ASSUME NEW o \in Object, RemoveObject(w, o) PROVE KeepInv'
    <2>1. /\ sweep[w].pc = "remove" /\ o \in sweep[w].orphans
          /\ sweep'[w].pc = "remove"
          /\ sweep'[w].orphans = sweep[w].orphans \ {o}
          /\ \A v \in Sweeper \ {w} : sweep'[v] = sweep[v]
      BY <1>1, <1>9 DEF RemoveObject, SweepState, At
    <2>2. objects' = objects \ {o} /\ UNCHANGED <<pointer, tmp, job, raced>>
      BY <1>9 DEF RemoveObject
    <2>3. NoneMissing'
      BY <2>1, <2>2 DEF KeepInv, NoneMissing, Seen, At
    <2>4. Put'
      BY <2>1, <2>2 DEF KeepInv, Put, Marked, InWindow, Busy
    <2>5. Seen'
      BY <2>1, <2>2 DEF KeepInv, Seen, At
    <2>6. Marked'
      BY <2>1, <2>2 DEF KeepInv, Marked, InWindow, Busy
    <2> QED
      BY <2>2, <2>3, <2>4, <2>5, <2>6 DEF KeepInv, Signed
  <1>10. CASE EndSweep(w)
    BY <1>1, <1>10, QuietSweep DEF EndSweep, NoSweep
  <1> QED
    BY <1>2, <1>3, <1>4, <1>5, <1>6, <1>7, <1>8, <1>9, <1>10 DEF Proceeding

\* and through every step.
LEMMA NextKeeps == ASSUME Typed, KeepInv, [Next]_vars PROVE KeepInv'
  <1>1. CASE \E j \in Job : Publishing(j)
    BY <1>1, PublishingKeeps
  <1>2. CASE \E w \in Sweeper : StartSweep(w) \/ Proceeding(w)
    BY <1>2, SweepingKeeps
  <1>3. CASE Restart
    <2>1. \A j \in Job : job'[j].pc \in {"idle", "done"}
      BY <1>3 DEF Restart, NoJob
    <2>2. \A w \in Sweeper : sweep'[w] = sweep[w] \/ sweep'[w].pc = "idle"
      BY <1>3 DEF Restart, NoSweep, Typed, TypeOK
    <2> QED
      BY <1>3, <2>1, <2>2
         DEF Restart, KeepInv, NoneMissing, Signed, Put, Marked, Seen, InWindow, Busy, At, disk
  <1>4. CASE TaskEnds \/ DayPasses \/ UNCHANGED vars
    <2>1. UNCHANGED <<disk, job, sweep, raced>>
      BY <1>4 DEF TaskEnds, DayPasses, vars
    <2> QED
      BY <2>1 DEF KeepInv, NoneMissing, Signed, Put, Marked, Seen, InWindow, Busy, At, disk
  <1> QED
    BY <1>1, <1>2, <1>3, <1>4 DEF Next

\* A manifest that was published beside no recheck and no removal keeps all of
\* its objects. The induction needs what a publication under way has put on
\* disk (Put), which of them a recheck may not know of (Marked), and what the
\* recheck has yet to read (Seen).
THEOREM StoreNoneMissing == Spec => []NoneMissing
  <1>1. Init => KeepInv
    BY InitKeeps
  <1>2. Typed /\ KeepInv /\ [Next]_vars => KeepInv'
    BY NextKeeps
  <1>3. KeepInv => NoneMissing
    BY DEF KeepInv
  <1> QED
    BY <1>1, <1>2, <1>3, StoreTyped, PTL DEF Spec
=============================================================================

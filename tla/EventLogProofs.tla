--------------------------- MODULE EventLogProofs ---------------------------
(***************************************************************************)
(* The event log keeps what it has answered for, through any number of     *)
(* starts, failed writes and losses of power.                              *)
(***************************************************************************)
EXTENDS EventLog, SequenceTheorems, TLAPS

\* What is on disk is the file up to its last unsynced lines.
DiskBelow ==
    /\ InOrder(disk)
    /\ Complete(disk) <= Complete(file)
    /\ \A i \in 1..Complete(disk) : file[i].id = disk[i].id

\* An event whose append has returned is on disk, in a line that parses.
AckedOnDisk == \A e \in Acked : \E i \in 1..Complete(disk) : disk[i].id = e

\* What each await of the first operation knows of the file.
StageKnows ==
    /\ up \/ (queue = <<>> /\ stage = "idle" /\ ~loaded)
    /\ up /\ ~loaded => queue = <<Replay>>
    /\ stage # "idle" => queue # <<>>
    /\ stage \in {"read", "sealing", "mended"} => Head(queue) = Replay
    /\ stage \in {"sealing", "mended"} => ~OpenTail(file)
    /\ up /\ loaded /\ stage = "idle" => ~OpenTail(file) /\ nextSeq = Len(file) + 1
    /\ stage = "written" =>
          /\ loaded
          /\ file # <<>>
          /\ ~OpenTail(file)
          /\ nextSeq = Len(file)
          /\ LastLine(file).id = Head(queue)
          /\ Head(queue) \in Event

LogInv ==
    /\ TypeOK
    /\ SeqIsPosition
    /\ DiskBelow
    /\ AckedOnDisk
    /\ StageKnows

----------------------------------------------------------------------------
(* Files *)

\* Cutting off the last line keeps the others where they are.
LEMMA CutOne ==
    ASSUME NEW f \in Seq(Line), f # <<>>
    PROVE  /\ SubSeq(f, 1, Len(f) - 1) \in Seq(Line)
           /\ Len(SubSeq(f, 1, Len(f) - 1)) = Len(f) - 1
           /\ \A i \in 1..(Len(f) - 1) : SubSeq(f, 1, Len(f) - 1)[i] = f[i]
  <1> DEFINE n == Len(f) - 1
  <1>1. n \in Nat /\ n \in 0..Len(f) /\ n - 1 + 1 = n
    OBVIOUS
  <1>2. 1 \in 1..(Len(f) + 1)
    BY <1>1
  <1>3. /\ SubSeq(f, 1, n) \in Seq(Line)
        /\ Len(SubSeq(f, 1, n)) = IF 1 <= n THEN n - 1 + 1 ELSE 0
        /\ \A i \in 1..(n - 1 + 1) : SubSeq(f, 1, n)[i] = f[1 + i - 1]
    BY <1>1, <1>2, SubSeqProperties
  <1> QED
    BY <1>1, <1>3

\* In a file in order the lines that parse are those before a torn tail.
LEMMA CompleteLines ==
    ASSUME NEW f \in Seq(Line), InOrder(f)
    PROVE  /\ Complete(f) \in Nat
           /\ Complete(f) <= Len(f)
           /\ \A i \in 1..Len(f) : f[i].id # None <=> i <= Complete(f)
           /\ \A i \in 1..Complete(f) : f[i].seq = i
  <1>1. Len(f) \in Nat /\ (f # <<>> => Len(f) \in 1..Len(f))
    OBVIOUS
  <1>2. CASE TornTail(f)
    BY <1>1, <1>2 DEF TornTail, OpenTail, LastLine, Complete, InOrder
  <1>3. CASE ~TornTail(f)
    BY <1>1, <1>3 DEF TornTail, OpenTail, LastLine, Complete, InOrder
  <1> QED
    BY <1>2, <1>3

\* Such a file is read up to its torn tail: no line is quarantined.
LEMMA AllAccepted ==
    ASSUME NEW f \in Seq(Line), InOrder(f)
    PROVE  Accepted(f) = 1..Complete(f)
  <1>1. Complete(f) \in Nat /\ Complete(f) <= Len(f) /\ Len(f) \in Nat
    BY CompleteLines
  <1>2. \A i \in 1..Len(f) : f[i].id # None <=> i <= Complete(f)
    BY CompleteLines
  <1>3. \A i \in 1..Complete(f) : f[i].seq = i
    BY CompleteLines
  <1>4. ASSUME NEW i \in 1..Complete(f) PROVE i \in Accepted(f)
    BY <1>1, <1>2, <1>3 DEF Accepted
  <1>5. ASSUME NEW i \in Accepted(f) PROVE i \in 1..Complete(f)
    BY <1>1, <1>2 DEF Accepted
  <1> QED
    BY <1>4, <1>5

\* Its last number is the number of its lines.
LEMMA LastSeqIsLength ==
    ASSUME NEW f \in Seq(Line), InOrder(f), ~OpenTail(f)
    PROVE  LastSeq(f) = Len(f)
  <1>1. Complete(f) = Len(f) /\ Len(f) \in Nat
    BY DEF Complete, TornTail
  <1>2. Accepted(f) = 1..Len(f)
    BY <1>1, AllAccepted
  <1>3. CASE Len(f) = 0
    BY <1>2, <1>3 DEF LastSeq
  <1>4. CASE Len(f) # 0
    <2> DEFINE last == CHOOSE i \in Accepted(f) : \A j \in Accepted(f) : j <= i
    <2>1. \E i \in Accepted(f) : \A j \in Accepted(f) : j <= i
      <3>1. Len(f) \in Accepted(f) /\ \A j \in Accepted(f) : j <= Len(f)
        BY <1>1, <1>2, <1>4
      <3> QED
        BY <3>1
    <2>2. last \in Accepted(f) /\ \A j \in Accepted(f) : j <= last
      BY <2>1
    <2>3. last = Len(f)
      BY <2>2, <1>1, <1>2, <1>4
    <2>4. f[Len(f)].seq = Len(f)
      BY <1>1, <1>4, CompleteLines
    <2>5. Accepted(f) # {}
      BY <2>1
    <2> QED
      BY <2>3, <2>4, <2>5 DEF LastSeq
  <1> QED
    BY <1>3, <1>4

\* What a loss of power leaves is in order again, keeps what was on disk, and
\* has nothing the file did not have.
LEMMA SurvivorsInOrder ==
    ASSUME TypeOK, SeqIsPosition, DiskBelow, NEW f \in Survivors
    PROVE  /\ f \in Seq(Line)
           /\ InOrder(f)
           /\ Complete(disk) <= Complete(f)
           /\ Complete(f) <= Complete(file)
           /\ \A i \in 1..Complete(f) : f[i].id = file[i].id
  <1> USE DEF TypeOK
  <1>1. /\ Len(file) \in Nat /\ Len(disk) \in Nat
        /\ Complete(file) \in Nat /\ Complete(disk) \in Nat
        /\ Complete(file) <= Len(file) /\ Complete(disk) <= Complete(file)
    BY CompleteLines DEF SeqIsPosition, DiskBelow
  <1>2. CASE f = disk
    BY <1>1, <1>2 DEF DiskBelow
  <1>3. ASSUME NEW k \in Complete(disk)..Len(file), f = SubSeq(file, 1, k)
        PROVE  /\ f \in Seq(Line)
               /\ InOrder(f)
               /\ Complete(disk) <= Complete(f)
               /\ Complete(f) <= Complete(file)
               /\ \A i \in 1..Complete(f) : f[i].id = file[i].id
    <2>1. f \in Seq(Line) /\ Len(f) = k /\ \A i \in 1..k : f[i] = file[i]
      BY SMTT(30), <1>1, <1>3
    <2>2. InOrder(f)
      <3>1. SUFFICES ASSUME NEW i \in 1..k
                     PROVE  IF f[i].id = None THEN i = k /\ ~f[i].nl
                            ELSE f[i].seq = i /\ (i < k => f[i].nl)
        BY <2>1 DEF InOrder
      <3>2. f[i] = file[i] /\ i \in 1..Len(file)
        BY <1>1, <2>1
      <3>3. IF file[i].id = None THEN i = Len(file) /\ ~file[i].nl
            ELSE file[i].seq = i /\ (i < Len(file) => file[i].nl)
        BY <3>2 DEF InOrder, SeqIsPosition
      <3> QED
        BY <1>1, <3>2, <3>3
    <2>3. Complete(f) \in Nat /\ Complete(f) <= k
      BY <2>1, <2>2, CompleteLines
    <2>4. \A i \in 1..k : f[i].id # None <=> i <= Complete(f)
      BY <2>1, <2>2, CompleteLines
    <2>5. \A i \in 1..Len(file) : file[i].id # None <=> i <= Complete(file)
      BY CompleteLines DEF SeqIsPosition
    <2>6. Complete(f) <= Complete(file)
      <3>1. CASE Complete(f) = 0
        BY <1>1, <3>1
      <3>2. CASE Complete(f) # 0
        <4>1. Complete(f) \in 1..k /\ Complete(f) \in 1..Len(file)
          BY <1>1, <2>3, <3>2
        <4>2. file[Complete(f)].id # None
          BY <4>1, <2>1, <2>4
        <4> QED
          BY <4>1, <4>2, <2>5
      <3> QED
        BY <3>1, <3>2
    <2>7. Complete(disk) <= Complete(f)
      <3>1. CASE Complete(disk) = 0
        BY <2>3, <3>1
      <3>2. CASE Complete(disk) # 0
        <4>1. Complete(disk) \in 1..k /\ Complete(disk) \in 1..Len(file)
          BY <1>1, <3>2
        <4> QED
          BY <4>1, <1>1, <2>1, <2>4, <2>5
      <3> QED
        BY <3>1, <3>2
    <2>8. \A i \in 1..Complete(f) : f[i].id = file[i].id
      BY <2>1, <2>3
    <2> QED
      BY <2>1, <2>2, <2>6, <2>7, <2>8
  <1>4. ASSUME NEW k \in (Complete(disk) + 1)..Len(file),
               f = Append(SubSeq(file, 1, k - 1), Torn)
        PROVE  /\ f \in Seq(Line)
               /\ InOrder(f)
               /\ Complete(disk) <= Complete(f)
               /\ Complete(f) <= Complete(file)
               /\ \A i \in 1..Complete(f) : f[i].id = file[i].id
    <2>1. Torn \in Line
      BY DEF Torn, Line
    <2>2. /\ f \in Seq(Line) /\ Len(f) = k /\ f[k] = Torn
          /\ \A i \in 1..(k - 1) : f[i] = file[i]
      BY <1>1, <1>4, <2>1
    <2>3. InOrder(f)
      <3>1. SUFFICES ASSUME NEW i \in 1..k
                     PROVE  IF f[i].id = None THEN i = k /\ ~f[i].nl
                            ELSE f[i].seq = i /\ (i < k => f[i].nl)
        BY <2>2 DEF InOrder
      <3>2. CASE i = k
        BY <2>2, <3>2 DEF Torn
      <3>3. CASE i # k
        <4>1. f[i] = file[i] /\ i \in 1..Len(file) /\ i # Len(file) /\ i < Len(file)
          BY <1>1, <2>2, <3>3
        <4>2. file[i].id # None /\ file[i].seq = i /\ file[i].nl
          BY <4>1 DEF InOrder, SeqIsPosition
        <4> QED
          BY <4>1, <4>2
      <3> QED
        BY <3>2, <3>3
    <2>4. Complete(f) = k - 1
      BY <1>1, <2>2 DEF Complete, TornTail, OpenTail, LastLine, Torn
    <2>5. k - 1 <= Complete(file)
      BY <1>1 DEF Complete
    <2> QED
      BY <1>1, <2>2, <2>3, <2>4, <2>5
  <1>5. ASSUME NEW k \in (Complete(disk) + 1)..Len(file),
               f = Append(SubSeq(file, 1, k - 1), Bare(file[k]))
        PROVE  /\ f \in Seq(Line)
               /\ InOrder(f)
               /\ Complete(disk) <= Complete(f)
               /\ Complete(f) <= Complete(file)
               /\ \A i \in 1..Complete(f) : f[i].id = file[i].id
    <2>1. file[k] \in Line
      BY <1>1
    <2>9. Bare(file[k]) \in Line
      BY <2>1 DEF Bare, Line
    <2>2. /\ f \in Seq(Line) /\ Len(f) = k /\ f[k] = Bare(file[k])
          /\ \A i \in 1..(k - 1) : f[i] = file[i]
      BY <1>1, <1>5, <2>9
    <2>3. f[k].id = file[k].id /\ f[k].seq = file[k].seq /\ ~f[k].nl
      BY <2>1, <2>2 DEF Bare, Line
    <2>4. InOrder(f)
      <3>1. SUFFICES ASSUME NEW i \in 1..k
                     PROVE  IF f[i].id = None THEN i = k /\ ~f[i].nl
                            ELSE f[i].seq = i /\ (i < k => f[i].nl)
        BY <2>2 DEF InOrder
      <3>2. CASE i = k
        <4>1. k \in 1..Len(file)
          BY <1>1
        <4>2. file[k].id # None => file[k].seq = k
          BY <4>1 DEF InOrder, SeqIsPosition
        <4> QED
          BY <2>3, <3>2, <4>2
      <3>3. CASE i # k
        <4>1. f[i] = file[i] /\ i \in 1..Len(file) /\ i # Len(file) /\ i < Len(file)
          BY <1>1, <2>2, <3>3
        <4>2. file[i].id # None /\ file[i].seq = i /\ file[i].nl
          BY <4>1 DEF InOrder, SeqIsPosition
        <4> QED
          BY <4>1, <4>2
      <3> QED
        BY <3>2, <3>3
    <2>5. Complete(f) = IF file[k].id = None THEN k - 1 ELSE k
      BY <1>1, <2>2, <2>3 DEF Complete, TornTail, OpenTail, LastLine
    <2>6. \A i \in 1..Len(file) : file[i].id # None <=> i <= Complete(file)
      BY CompleteLines DEF SeqIsPosition
    <2>7. Complete(f) <= Complete(file)
      BY <1>1, <2>5, <2>6 DEF Complete
    <2> QED
      BY SMTT(30), <1>1, <2>2, <2>3, <2>4, <2>5, <2>7
  <1> QED
    BY <1>2, <1>3, <1>4, <1>5 DEF Survivors

----------------------------------------------------------------------------
(* The inductive invariant *)

\* An empty file is in order and nothing has been answered.
LEMMA InitInv == Init => LogInv
  <1> SUFFICES ASSUME Init PROVE LogInv
    OBVIOUS
  <1> USE DEF Init
  <1>1. TypeOK
    <2>1. file \in Seq(Line) /\ disk \in Seq(Line) /\ calls \in Seq(Event)
      OBVIOUS
    <2>2. queue \in Seq(Event \cup {Replay})
      OBVIOUS
    <2>3. status \in [Event -> Status]
      BY DEF Status
    <2>4. starts \in 0..MaxStarts /\ replays \in 0..MaxReplays
          /\ writeFaults \in 0..MaxWriteFaults /\ nextSeq \in Nat \ {0}
      BY LogAssumption
    <2>5. up \in BOOLEAN /\ loaded \in BOOLEAN /\ stage \in Stage
      BY DEF Stage
    <2> QED
      BY <2>1, <2>2, <2>3, <2>4, <2>5 DEF TypeOK
  <1>2. SeqIsPosition /\ DiskBelow
    BY DEF SeqIsPosition, InOrder, DiskBelow, Complete, TornTail, OpenTail
  <1>3. AckedOnDisk
    BY DEF AckedOnDisk, Acked
  <1>4. StageKnows
    BY DEF StageKnows
  <1> QED
    BY <1>1, <1>2, <1>3, <1>4 DEF LogInv

\* A step that leaves the files and the answers given keeps what they say.
LEMMA FilesKept ==
    ASSUME LogInv, UNCHANGED <<file, disk>>, Acked' = Acked
    PROVE  SeqIsPosition' /\ DiskBelow' /\ AckedOnDisk'
  BY DEF LogInv, SeqIsPosition, InOrder, DiskBelow, Complete, TornTail, OpenTail,
         LastLine, AckedOnDisk

\* A call, a replay that is asked for, and the reading of the shard.
LEMMA CallInv == ASSUME LogInv, NEW e \in Event, Call(e) PROVE LogInv'
  <1> USE DEF Call, Enqueue, counts
  <1>1. TypeOK'
    BY DEF LogInv, TypeOK, Status
  <1>2. Acked' = Acked
    BY DEF LogInv, TypeOK, Acked
  <1>3. StageKnows'
    <2>1. queue' = Append(queue, e) /\ queue \in Seq(Event \cup {Replay})
      BY DEF LogInv, TypeOK
    <2>2. queue # <<>> => Head(queue') = Head(queue)
      BY <2>1
    <2>3. queue' # <<>>
      BY <2>1
    <2> QED
      BY <2>2, <2>3 DEF LogInv, TypeOK, StageKnows, OpenTail, LastLine
  <1> QED
    BY <1>1, <1>2, <1>3, FilesKept DEF LogInv

\* A replay that is asked for queues and changes nothing on disk.
LEMMA AskReplayInv == ASSUME LogInv, AskReplay PROVE LogInv'
  <1> USE DEF AskReplay, Enqueue, callers
  <1>1. TypeOK'
    BY LogAssumption DEF LogInv, TypeOK
  <1>2. Acked' = Acked
    BY DEF Acked
  <1>3. StageKnows'
    <2>1. queue' = Append(queue, Replay) /\ queue \in Seq(Event \cup {Replay})
      BY DEF LogInv, TypeOK
    <2>2. queue # <<>> => Head(queue') = Head(queue)
      BY <2>1
    <2>3. queue' # <<>>
      BY <2>1
    <2> QED
      BY <2>2, <2>3 DEF LogInv, TypeOK, StageKnows, OpenTail, LastLine
  <1> QED
    BY <1>1, <1>2, <1>3, FilesKept DEF LogInv

\* Reading the file sets what the code knows of it by what is there.
LEMMA ReadShardInv == ASSUME LogInv, ReadShard PROVE LogInv'
  <1> USE DEF ReadShard, At, First, callers, counts
  <1>1. TypeOK'
    BY DEF LogInv, TypeOK, Stage
  <1>2. Acked' = Acked
    BY DEF Acked
  <1>3. StageKnows'
    BY DEF LogInv, TypeOK, StageKnows, OpenTail, LastLine
  <1> QED
    BY <1>1, <1>2, <1>3, FilesKept DEF LogInv

\* Cutting a torn tail takes no line that parses.
LEMMA RepairInv == ASSUME LogInv, Repair PROVE LogInv'
  <1> USE DEF Repair, At, callers, counts
  <1>1. /\ file \in Seq(Line) /\ file # <<>> /\ Len(file) \in Nat \ {0}
        /\ Complete(file) = Len(file) - 1
    BY DEF LogInv, TypeOK, TornTail, OpenTail, Complete
  <1>2. /\ file' \in Seq(Line) /\ Len(file') = Len(file) - 1
        /\ \A i \in 1..(Len(file) - 1) : file'[i] = file[i]
    BY <1>1, CutOne
  <1>3. \A i \in 1..(Len(file) - 1) :
           file[i].id # None /\ file[i].seq = i /\ file[i].nl
    BY <1>1 DEF LogInv, SeqIsPosition, InOrder
  <1>4. TypeOK'
    BY <1>2 DEF LogInv, TypeOK, Stage
  <1>5. SeqIsPosition'
    BY <1>1, <1>2, <1>3 DEF SeqIsPosition, InOrder
  <1>6. ~OpenTail(file')
    BY <1>1, <1>2, <1>3 DEF OpenTail, LastLine
  <1>7. Complete(file') = Len(file) - 1
    BY <1>2, <1>6 DEF Complete, TornTail
  <1>8. Complete(disk) \in Nat /\ disk' = disk
    BY CompleteLines DEF LogInv, TypeOK, DiskBelow
  <1>9. DiskBelow'
    <2>1. InOrder(disk)' /\ Complete(disk)' = Complete(disk)
      BY <1>8 DEF LogInv, DiskBelow, InOrder, Complete, TornTail, OpenTail, LastLine
    <2>2. Complete(disk) <= Len(file) - 1
      BY <1>1 DEF LogInv, DiskBelow
    <2>3. \A i \in 1..Complete(disk) : file'[i].id = disk[i].id
      BY <1>1, <1>2, <1>8, <2>2 DEF LogInv, DiskBelow
    <2> QED
      BY <1>7, <1>8, <2>1, <2>2, <2>3 DEF DiskBelow
  <1>10. AckedOnDisk'
    BY <1>8 DEF LogInv, AckedOnDisk, Acked, Complete, TornTail, OpenTail, LastLine
  <1>11. StageKnows'
    BY <1>6 DEF LogInv, TypeOK, StageKnows, OpenTail, LastLine
  <1> QED
    BY <1>4, <1>5, <1>9, <1>10, <1>11 DEF LogInv

\* Giving the last line its newline changes nothing else.
LEMMA SealInv == ASSUME LogInv, Seal PROVE LogInv'
  <1> USE DEF Seal, At, callers, counts
  <1>1. /\ file \in Seq(Line) /\ file # <<>> /\ Len(file) \in Nat \ {0}
        /\ Len(file) \in 1..Len(file) /\ file[Len(file)].id # None
    BY DEF LogInv, TypeOK, BareTail, OpenTail, LastLine
  <1>2. file[Len(file)] \in Line
    BY <1>1
  <1>3. [file[Len(file)] EXCEPT !.nl = TRUE] \in Line
    BY <1>2 DEF Line
  <1>4. /\ file' \in Seq(Line) /\ Len(file') = Len(file)
        /\ file'[Len(file)] = [file[Len(file)] EXCEPT !.nl = TRUE]
        /\ \A i \in 1..Len(file) : i # Len(file) => file'[i] = file[i]
    <2>1. file' = [file EXCEPT ![Len(file)] = [file[Len(file)] EXCEPT !.nl = TRUE]]
      OBVIOUS
    <2> HIDE DEF Seal
    <2>2. Len(file) \in 1..Len(file)
      BY <1>1
    <2>3. LET line == [file[Len(file)] EXCEPT !.nl = TRUE]
          IN  /\ [file EXCEPT ![Len(file)] = line] \in Seq(Line)
              /\ Len([file EXCEPT ![Len(file)] = line]) = Len(file)
              /\ \A j \in 1..Len(file) : [file EXCEPT ![Len(file)] = line][j]
                                          = IF j = Len(file) THEN line ELSE file[j]
      BY <1>1, <1>3, <2>2, ExceptSeq
    <2> QED
      BY <2>1, <2>2, <2>3
  <1>5. /\ file'[Len(file)].id = file[Len(file)].id
        /\ file'[Len(file)].seq = file[Len(file)].seq
        /\ file'[Len(file)].nl
    BY <1>2, <1>4 DEF Line
  <1>6. TypeOK'
    BY <1>4 DEF LogInv, TypeOK, Stage
  <1>7. \A i \in 1..Len(file) : file'[i].id = file[i].id /\ file'[i].seq = file[i].seq
    BY <1>4, <1>5
  <1>8. SeqIsPosition'
    BY <1>1, <1>4, <1>5, <1>7 DEF LogInv, SeqIsPosition, InOrder
  <1>9. ~OpenTail(file')
    BY <1>4, <1>5 DEF OpenTail, LastLine
  <1>10. Complete(file') = Len(file) /\ Complete(file) = Len(file)
    BY <1>1, <1>4, <1>9 DEF Complete, TornTail, LastLine
  <1>11. Complete(disk) \in Nat /\ disk' = disk
    BY CompleteLines DEF LogInv, TypeOK, DiskBelow
  <1>12. DiskBelow'
    BY <1>1, <1>7, <1>10, <1>11 DEF LogInv, DiskBelow, InOrder, Complete, TornTail, OpenTail, LastLine
  <1>13. AckedOnDisk'
    BY <1>11 DEF LogInv, AckedOnDisk, Acked, Complete, TornTail, OpenTail, LastLine
  <1>14. StageKnows'
    BY <1>9 DEF LogInv, TypeOK, StageKnows, OpenTail, LastLine
  <1> QED
    BY <1>6, <1>8, <1>12, <1>13, <1>14 DEF LogInv

\* A sync puts on disk what is in the file.
LEMMA SyncedDisk ==
    ASSUME LogInv, disk' = file, file' = file,
           \A e \in Acked' : \E i \in 1..Complete(file) : file[i].id = e
    PROVE  SeqIsPosition' /\ DiskBelow' /\ AckedOnDisk'
  <1>1. InOrder(file) /\ InOrder(disk)' /\ InOrder(file)'
    BY DEF LogInv, SeqIsPosition, InOrder
  <1>2. Complete(disk)' = Complete(file) /\ Complete(file)' = Complete(file)
    BY DEF Complete, TornTail, OpenTail, LastLine
  <1>3. Complete(file) \in Nat
    BY <1>1, CompleteLines DEF LogInv, TypeOK
  <1> QED
    BY <1>1, <1>2, <1>3 DEF SeqIsPosition, DiskBelow, AckedOnDisk

\* What is on disk is in the file too.
LEMMA AckedInFile ==
    ASSUME LogInv
    PROVE  \A e \in Acked : \E i \in 1..Complete(file) : file[i].id = e
  <1>1. Complete(disk) \in Nat /\ Complete(file) \in Nat
    BY CompleteLines DEF LogInv, TypeOK, DiskBelow, SeqIsPosition
  <1> QED
    BY <1>1 DEF LogInv, DiskBelow, AckedOnDisk

\* The newline that seals the tail is on disk.
LEMMA SealSyncedInv == ASSUME LogInv, SealSynced PROVE LogInv'
  <1> USE DEF SealSynced, At, callers, counts
  <1>1. TypeOK'
    BY DEF LogInv, TypeOK, Stage
  <1>2. Acked' = Acked
    BY DEF Acked
  <1>3. SeqIsPosition' /\ DiskBelow' /\ AckedOnDisk'
    BY <1>2, AckedInFile, SyncedDisk
  <1>4. StageKnows'
    BY DEF LogInv, TypeOK, StageKnows, OpenTail, LastLine
  <1> QED
    BY <1>1, <1>3, <1>4 DEF LogInv

\* Loading ends with the number after the last line.
LEMMA LoadedInv == ASSUME LogInv, Loaded PROVE LogInv'
  <1> USE DEF Loaded, First, Dequeue, callers, counts
  <1>1. ~OpenTail(file)
    BY DEF LogInv, StageKnows
  <1>2. LastSeq(file) = Len(file) /\ Len(file) \in Nat
    BY <1>1, LastSeqIsLength DEF LogInv, TypeOK, SeqIsPosition
  <1>3. TypeOK'
    <2>1. Tail(queue) \in Seq(Event \cup {Replay})
      BY DEF LogInv, TypeOK
    <2> QED
      BY <1>2, <2>1 DEF LogInv, TypeOK, Stage
  <1>4. Acked' = Acked
    BY DEF Acked
  <1>5. StageKnows'
    BY <1>1, <1>2 DEF LogInv, TypeOK, StageKnows, OpenTail, LastLine
  <1> QED
    BY <1>3, <1>4, <1>5, FilesKept DEF LogInv

\* A line is written after a file in order and carries the next number.
LEMMA WriteInv == ASSUME LogInv, NEW e \in Event, Write(e) PROVE LogInv'
  <1> USE DEF Write, At, First, callers, counts
  <1>1. e # Replay /\ e # None /\ loaded /\ ~OpenTail(file) /\ nextSeq = Len(file) + 1
    <2>1. e # Replay /\ e # None
      BY LogAssumption
    <2>2. loaded
      BY <2>1 DEF LogInv, StageKnows
    <2> QED
      BY <2>1, <2>2 DEF LogInv, StageKnows
  <1>2. file \in Seq(Line) /\ Len(file) \in Nat /\ Whole(e, nextSeq) \in Line
    BY DEF LogInv, TypeOK, Whole, Line
  <1>3. file' = Append(file, Whole(e, nextSeq))
    BY <1>1 DEF Put
  <1>4. /\ file' \in Seq(Line) /\ file' # <<>> /\ Len(file') = Len(file) + 1
        /\ \A i \in 1..Len(file) : file'[i] = file[i]
        /\ file'[Len(file) + 1] = Whole(e, nextSeq)
    BY <1>2, <1>3
  <1>5. file'[Len(file')].id = e /\ file'[Len(file')].seq = Len(file') /\ file'[Len(file')].nl
    BY <1>1, <1>4 DEF Whole
  <1>6. TypeOK'
    BY <1>4 DEF LogInv, TypeOK, Stage
  <1>7. \A i \in 1..Len(file) : file[i].id # None /\ file[i].seq = i /\ file[i].nl
    BY <1>1, <1>2 DEF LogInv, SeqIsPosition, InOrder, OpenTail, LastLine
  <1>8. SeqIsPosition'
    BY <1>1, <1>2, <1>4, <1>5, <1>7 DEF SeqIsPosition, InOrder
  <1>9. ~OpenTail(file') /\ ~OpenTail(file)'
    BY <1>5 DEF OpenTail, LastLine
  <1>10. Complete(file)' = Len(file) + 1 /\ Complete(file) = Len(file)
    BY <1>1, <1>4, <1>9 DEF Complete, TornTail
  <1>11. Complete(disk) \in Nat /\ disk' = disk
    BY CompleteLines DEF LogInv, TypeOK, DiskBelow
  <1>12. DiskBelow'
    <2>1. InOrder(disk)' /\ Complete(disk)' = Complete(disk)
      BY <1>11 DEF LogInv, DiskBelow, InOrder, Complete, TornTail, OpenTail, LastLine
    <2>2. Complete(disk) <= Len(file)
      BY <1>10 DEF LogInv, DiskBelow
    <2>3. \A i \in 1..Complete(disk) : file'[i].id = disk[i].id
      BY <1>2, <1>4, <1>11, <2>2 DEF LogInv, DiskBelow
    <2> QED
      BY <1>2, <1>10, <1>11, <2>1, <2>2, <2>3 DEF DiskBelow
  <1>13. AckedOnDisk'
    BY <1>11 DEF LogInv, AckedOnDisk, Acked, Complete, TornTail, OpenTail, LastLine
  <1>14. StageKnows'
    BY <1>1, <1>4, <1>5, <1>9 DEF LogInv, TypeOK, StageKnows, LastLine
  <1> QED
    BY <1>6, <1>8, <1>12, <1>13, <1>14 DEF LogInv

\* A write that fails leaves the file and the number as they were.
LEMMA WriteFailsInv == ASSUME LogInv, NEW e \in Event, WriteFails(e) PROVE LogInv'
  <1> USE DEF WriteFails, At, First, Dequeue
  <1>1. TypeOK'
    <2>1. Tail(queue) \in Seq(Event \cup {Replay})
      BY DEF LogInv, TypeOK
    <2>2. writeFaults' \in 0..MaxWriteFaults
      BY LogAssumption DEF LogInv, TypeOK
    <2>3. status' \in [Event -> Status]
      BY DEF LogInv, TypeOK, Status
    <2> QED
      BY <2>1, <2>2, <2>3 DEF LogInv, TypeOK, Stage
  <1>2. Acked' \subseteq Acked
    BY DEF LogInv, TypeOK, Acked
  <1>3. SeqIsPosition' /\ DiskBelow'
    BY DEF LogInv, SeqIsPosition, InOrder, DiskBelow, Complete, TornTail, OpenTail, LastLine
  <1>4. AckedOnDisk'
    BY <1>2 DEF LogInv, AckedOnDisk, Complete, TornTail, OpenTail, LastLine
  <1>5. loaded
    BY LogAssumption DEF LogInv, StageKnows
  <1>6. StageKnows'
    BY <1>5 DEF LogInv, TypeOK, StageKnows, OpenTail, LastLine
  <1> QED
    BY <1>1, <1>3, <1>4, <1>6 DEF LogInv

\* The event answered for is the last line, which the sync has put on disk.
LEMMA SyncedInv == ASSUME LogInv, NEW e \in Event, Synced(e) PROVE LogInv'
  <1> USE DEF Synced, At, First, Dequeue, counts
  <1>1. TypeOK'
    <2>1. Tail(queue) \in Seq(Event \cup {Replay})
      BY DEF LogInv, TypeOK
    <2>2. status' \in [Event -> Status]
      BY DEF LogInv, TypeOK, Status
    <2> QED
      BY <2>1, <2>2 DEF LogInv, TypeOK, Stage
  <1>2. /\ loaded /\ file # <<>> /\ ~OpenTail(file) /\ nextSeq = Len(file)
        /\ LastLine(file).id = e
    BY DEF LogInv, StageKnows
  <1>3. Acked' = Acked \cup {e}
    BY DEF LogInv, TypeOK, Acked
  <1>4. Complete(file) = Len(file) /\ Len(file) \in 1..Len(file)
    BY <1>2 DEF LogInv, TypeOK, Complete, TornTail
  <1>5. \A f \in Acked' : \E i \in 1..Complete(file) : file[i].id = f
    BY <1>2, <1>3, <1>4, AckedInFile DEF LastLine
  <1>6. SeqIsPosition' /\ DiskBelow' /\ AckedOnDisk'
    BY <1>5, SyncedDisk
  <1>7. StageKnows'
    BY <1>2 DEF LogInv, TypeOK, StageKnows, OpenTail, LastLine
  <1> QED
    BY <1>1, <1>6, <1>7 DEF LogInv

\* A start knows nothing yet of the file.
LEMMA StartInv == ASSUME LogInv, Start PROVE LogInv'
  <1> USE DEF Start, callers
  <1>1. TypeOK'
    <2>1. <<Replay>> \in Seq(Event \cup {Replay})
      OBVIOUS
    <2>2. starts' \in 0..MaxStarts
      BY LogAssumption DEF LogInv, TypeOK
    <2>3. up' \in BOOLEAN /\ loaded' \in BOOLEAN
      OBVIOUS
    <2>4. nextSeq' \in Nat \ {0} /\ stage' \in Stage
      BY DEF Stage
    <2> QED
      BY <2>1, <2>2, <2>3, <2>4 DEF LogInv, TypeOK
  <1>2. Acked' = Acked
    BY DEF Acked
  <1>3. StageKnows'
    BY DEF StageKnows
  <1> QED
    BY <1>1, <1>2, <1>3, FilesKept DEF LogInv

\* An end of the daemon answers nobody with success.
LEMMA GoneKeeps ==
    ASSUME LogInv, NEW answer \in {"refused", "lost"}, Gone(answer)
    PROVE  /\ StageKnows'
           /\ Acked' = Acked
           /\ file' \in Seq(Line) /\ disk' \in Seq(Line) => TypeOK'
  <1> USE DEF Gone, counts
  <1>1. StageKnows'
    BY DEF StageKnows
  <1>2. status' \in [Event -> Status] /\ Acked' = Acked
    BY DEF LogInv, TypeOK, Status, Acked
  <1>3. <<>> \in Seq(Event \cup {Replay})
    OBVIOUS
  <1>4. up' \in BOOLEAN /\ loaded' \in BOOLEAN
    OBVIOUS
  <1>5. nextSeq' \in Nat \ {0} /\ stage' \in Stage
    BY DEF Stage
  <1> QED
    BY <1>1, <1>2, <1>3, <1>4, <1>5 DEF LogInv, TypeOK

\* The end of a life takes what was queued and leaves the file.
LEMMA CloseOrKillInv == ASSUME LogInv, Close \/ Kill PROVE LogInv'
  <1>1. UNCHANGED <<file, disk>> /\ (Gone("refused") \/ Gone("lost"))
    BY DEF Close, Kill
  <1>2. StageKnows' /\ Acked' = Acked /\ TypeOK'
    BY <1>1, GoneKeeps DEF LogInv, TypeOK
  <1> QED
    BY <1>1, <1>2, FilesKept DEF LogInv

\* A loss of power takes lines that nobody was told of.
LEMMA PowerLossInv == ASSUME LogInv, PowerLoss PROVE LogInv'
  <1>1. Gone("lost") /\ file' \in Survivors /\ disk' = file'
    BY DEF PowerLoss
  <1>2. /\ file' \in Seq(Line) /\ InOrder(file')
        /\ Complete(disk) <= Complete(file')
        /\ Complete(file') <= Complete(file)
        /\ \A i \in 1..Complete(file') : file'[i].id = file[i].id
    BY <1>1, SurvivorsInOrder DEF LogInv
  <1>3. StageKnows' /\ Acked' = Acked /\ TypeOK'
    BY <1>1, <1>2, GoneKeeps
  <1>4. Complete(file') \in Nat /\ Complete(disk) \in Nat
    BY <1>2, CompleteLines DEF LogInv, TypeOK, DiskBelow
  <1>5. Complete(file)' = Complete(file') /\ Complete(disk)' = Complete(file')
    BY <1>1 DEF Complete, TornTail, OpenTail, LastLine
  <1>6. InOrder(file)' /\ InOrder(disk)'
    BY <1>1, <1>2 DEF InOrder
  <1>7. SeqIsPosition' /\ DiskBelow'
    BY <1>1, <1>4, <1>5, <1>6 DEF SeqIsPosition, DiskBelow
  <1>8. ASSUME NEW e \in Acked PROVE \E i \in 1..Complete(file') : file'[i].id = e
    <2>1. PICK i \in 1..Complete(disk) : disk[i].id = e
      BY DEF LogInv, AckedOnDisk
    <2>2. i \in 1..Complete(file') /\ file[i].id = e
      BY <1>2, <1>4, <2>1 DEF LogInv, DiskBelow
    <2> QED
      BY <1>2, <2>2
  <1>9. AckedOnDisk'
    BY <1>1, <1>3, <1>5, <1>8 DEF AckedOnDisk
  <1> QED
    BY <1>3, <1>7, <1>9 DEF LogInv

\* Every step preserves the invariant.
LEMMA NextInv == ASSUME LogInv, [Next]_vars PROVE LogInv'
  <1>1. CASE \E e \in Event : Call(e)
    BY <1>1, CallInv
  <1>2. CASE AskReplay
    BY <1>2, AskReplayInv
  <1>3. CASE Serve
    BY <1>3, ReadShardInv, RepairInv, SealInv, SealSyncedInv, LoadedInv,
       WriteInv, WriteFailsInv, SyncedInv DEF Serve
  <1>4. CASE Start
    BY <1>4, StartInv
  <1>5. CASE Close \/ Kill
    BY <1>5, CloseOrKillInv
  <1>6. CASE PowerLoss
    BY <1>6, PowerLossInv
  <1>7. CASE UNCHANGED vars
    <2> USE <1>7 DEF vars, process, callers, counts
    <2>1. TypeOK' /\ Acked' = Acked
      BY DEF LogInv, TypeOK, Acked
    <2>2. StageKnows'
      BY DEF LogInv, StageKnows, OpenTail, LastLine
    <2> QED
      BY <2>1, <2>2, FilesKept DEF LogInv
  <1> QED
    BY <1>1, <1>2, <1>3, <1>4, <1>5, <1>6, <1>7 DEF Next, Operate

\* The invariant holds in every reachable state.
THEOREM LogInvariant == Spec => []LogInv
  <1>1. Init => LogInv
    BY InitInv
  <1>2. LogInv /\ [Next]_vars => LogInv'
    BY NextInv
  <1> QED
    BY <1>1, <1>2, PTL DEF Spec

\* The state of the log has its type in every reachable state.
THEOREM LogTypeOK == Spec => []TypeOK
  <1>1. LogInv => TypeOK
    BY DEF LogInv
  <1> QED
    BY <1>1, LogInvariant, PTL

\* Line n carries number n, for any number of events, crashes and failures.
THEOREM LogSeqIsPosition == Spec => []SeqIsPosition
  <1>1. LogInv => SeqIsPosition
    BY DEF LogInv
  <1> QED
    BY <1>1, LogInvariant, PTL

\* Whoever has been answered finds the event in every later replay.
THEOREM LogAckedIsRead == Spec => []AckedIsRead
  <1>1. ASSUME LogInv PROVE AckedIsRead
    <2>1. /\ file \in Seq(Line) /\ InOrder(file)
          /\ disk \in Seq(Line) /\ InOrder(disk)
      BY <1>1 DEF LogInv, TypeOK, SeqIsPosition, DiskBelow
    <2>2. Accepted(file) = 1..Complete(file) /\ Accepted(disk) = 1..Complete(disk)
      BY <2>1, AllAccepted
    <2>3. Acked \subseteq Readable(disk)
      BY <1>1, <2>2 DEF LogInv, AckedOnDisk, Readable
    <2>4. Acked \subseteq Readable(file)
      BY <1>1, <2>2, AckedInFile DEF Readable
    <2> QED
      BY <2>3, <2>4 DEF AckedIsRead
  <1> QED
    BY <1>1, LogInvariant, PTL

\* What a reader finds has a line for each position before a torn tail.
LEMMA KeptLines ==
    ASSUME LogInv
    PROVE  /\ Complete(file) \in Nat
           /\ Kept \in Seq(Event)
           /\ Len(Kept) = Complete(file)
           /\ \A i \in 1..Complete(file) : Kept[i] = file[i].id
  <1>1. /\ file \in Seq(Line) /\ InOrder(file) /\ Complete(file) \in Nat
        /\ Complete(file) <= Len(file)
        /\ \A i \in 1..Len(file) : file[i].id # None <=> i <= Complete(file)
    BY CompleteLines DEF LogInv, TypeOK, SeqIsPosition
  <1>2. \A i \in 1..Complete(file) : file[i].id \in Event
    <2>1. \A i \in 1..Len(file) : file[i] \in Line
      BY <1>1
    <2> QED
      BY <1>1, <2>1 DEF Line
  <1> QED
    BY <1>1, <1>2 DEF Kept

\* A step that keeps the events and the answers is a stutter of AbstractLog.
LEMMA SameLog ==
    ASSUME LogInv, LogInv', Complete(file)' = Complete(file),
           \A i \in 1..Complete(file) : file'[i].id = file[i].id
    PROVE  Kept' = Kept
  BY DEF Kept

\* Whose append waits has not been answered, and waits once.
Waiting ==
    \A i \in 1..Len(queue) : queue[i] \in Event =>
        /\ status[queue[i]] = "queued"
        /\ \A j \in 1..Len(queue) : queue[j] = queue[i] => j = i

\* Taking the first operation off the queue moves the others up.
LEMMA DequeueWaiting ==
    ASSUME LogInv, Waiting, queue # <<>>, queue' = Tail(queue),
           \A f \in Event : f # Head(queue) => status'[f] = status[f]
    PROVE  Waiting'
  <1>1. /\ queue \in Seq(Event \cup {Replay}) /\ Len(queue) \in Nat \ {0}
        /\ Len(queue') = Len(queue) - 1
        /\ \A i \in 1..Len(queue') : queue'[i] = queue[i + 1] /\ i + 1 \in 1..Len(queue)
        /\ Head(queue) = queue[1] /\ 1 \in 1..Len(queue)
    BY DEF LogInv, TypeOK
  <1>2. SUFFICES ASSUME NEW i \in 1..Len(queue'), queue'[i] \in Event
                 PROVE  /\ status'[queue'[i]] = "queued"
                        /\ \A j \in 1..Len(queue') : queue'[j] = queue'[i] => j = i
    BY DEF Waiting
  <1>3. status[queue[i + 1]] = "queued"
    BY <1>1, <1>2 DEF Waiting
  <1>4. \A j \in 1..Len(queue) : queue[j] = queue[i + 1] => j = i + 1
    BY <1>1, <1>2 DEF Waiting
  <1>5. i + 1 # 1 /\ queue[i + 1] # Head(queue)
    BY <1>1, <1>4
  <1>6. status'[queue'[i]] = "queued"
    BY <1>1, <1>2, <1>3, <1>5
  <1>7. ASSUME NEW j \in 1..Len(queue'), queue'[j] = queue'[i] PROVE j = i
    BY <1>1, <1>4, <1>7
  <1> QED
    BY <1>6, <1>7

\* An event that waits has not been answered, after every step.
LEMMA NextWaiting == ASSUME LogInv, Waiting, [Next]_vars PROVE Waiting'
  <1>1. ASSUME NEW e \in Event, Call(e) PROVE Waiting'
    <2> USE <1>1 DEF Call, Enqueue
    <2>1. /\ queue \in Seq(Event \cup {Replay}) /\ Len(queue) \in Nat
          /\ Len(queue') = Len(queue) + 1 /\ queue'[Len(queue) + 1] = e
          /\ \A i \in 1..Len(queue) : queue'[i] = queue[i]
      BY DEF LogInv, TypeOK
    <2>2. \A i \in 1..Len(queue) : queue[i] # e
      BY DEF Waiting
    <2>3. \A f \in Event : status'[f] = IF f = e THEN "queued" ELSE status[f]
      BY DEF LogInv, TypeOK
    <2> QED
      BY <2>1, <2>2, <2>3 DEF Waiting
  <1>2. ASSUME AskReplay PROVE Waiting'
    <2> USE <1>2 DEF AskReplay, Enqueue, callers
    <2>1. /\ queue \in Seq(Event \cup {Replay}) /\ Len(queue) \in Nat
          /\ Len(queue') = Len(queue) + 1 /\ queue'[Len(queue) + 1] = Replay
          /\ \A i \in 1..Len(queue) : queue'[i] = queue[i]
      BY DEF LogInv, TypeOK
    <2> QED
      BY <2>1, LogAssumption DEF Waiting
  <1>3. ASSUME Loaded \/ \E e \in Event : WriteFails(e) \/ Synced(e) PROVE Waiting'
    <2>1. queue # <<>> /\ queue' = Tail(queue)
      BY <1>3 DEF Loaded, WriteFails, Synced, At, Dequeue
    <2>2. \A f \in Event : f # Head(queue) => status'[f] = status[f]
      BY <1>3 DEF Loaded, WriteFails, Synced, First, callers, LogInv, TypeOK
    <2> QED
      BY <2>1, <2>2, DequeueWaiting
  <1>4. ASSUME ReadShard \/ Repair \/ Seal \/ SealSynced \/ \E e \in Event : Write(e)
        PROVE  Waiting'
    BY <1>4 DEF ReadShard, Repair, Seal, SealSynced, Write, callers, Waiting
  <1>5. ASSUME Start PROVE Waiting'
    <2>1. Len(queue') = 1 /\ queue'[1] = Replay
      BY <1>5 DEF Start
    <2> QED
      BY <2>1, LogAssumption DEF Waiting
  <1>6. ASSUME Close \/ Kill \/ PowerLoss PROVE Waiting'
    BY <1>6 DEF Close, Kill, PowerLoss, Gone, Waiting
  <1>7. ASSUME UNCHANGED vars PROVE Waiting'
    BY <1>7 DEF vars, process, callers, Waiting
  <1> QED
    BY <1>1, <1>2, <1>3, <1>4, <1>5, <1>6, <1>7 DEF Next, Operate, Serve

\* Every step of the log is a step of the abstract one or changes neither
\* what a reader finds nor what callers know.
LEMMA StepOfAbstract ==
    ASSUME LogInv, LogInv', Waiting, [Next]_vars
    PROVE  [Abstract!Next]_<<Kept, Acked>>
  <1>1. CASE UNCHANGED file /\ Acked' = Acked
    BY <1>1 DEF Kept, Complete, TornTail, OpenTail, LastLine
  <1>2. ASSUME NEW e \in Event, Call(e) PROVE UNCHANGED file /\ Acked' = Acked
    BY <1>2 DEF Call, LogInv, TypeOK, Acked
  <1>3. ASSUME NEW e \in Event, WriteFails(e) PROVE UNCHANGED file /\ Acked' = Acked
    <2>1. queue # <<>> /\ Head(queue) = e /\ 1 \in 1..Len(queue) /\ Head(queue) = queue[1]
      BY <1>3 DEF WriteFails, At, First, LogInv, TypeOK
    <2>2. status[e] = "queued"
      BY <2>1 DEF Waiting
    <2> QED
      BY <1>3, <2>2 DEF WriteFails, LogInv, TypeOK, Acked
  <1>4. ASSUME AskReplay \/ ReadShard \/ SealSynced \/ Loaded \/ Start
        PROVE  UNCHANGED file /\ Acked' = Acked
    BY <1>4 DEF AskReplay, ReadShard, SealSynced, Loaded, Start, callers, Acked
  <1>5. ASSUME Close \/ Kill PROVE UNCHANGED file /\ Acked' = Acked
    BY <1>5, GoneKeeps DEF Close, Kill
  <1>6. CASE Repair
    <2>1. file \in Seq(Line) /\ file # <<>> /\ Complete(file) = Len(file) - 1 /\ Len(file) \in Nat
      BY <1>6 DEF Repair, TornTail, OpenTail, Complete, LogInv, TypeOK
    <2>2. Len(file') = Len(file) - 1 /\ \A i \in 1..(Len(file) - 1) : file'[i] = file[i]
      BY <1>6, <2>1, CutOne DEF Repair
    <2>3. Complete(file)' = Len(file) - 1
      BY <1>6, <2>2 DEF Repair, At, LogInv, StageKnows, Complete, TornTail
    <2>4. Kept' = Kept
      BY <2>1, <2>2, <2>3, SameLog
    <2> QED
      BY <1>6, <2>4 DEF Repair, callers, Acked
  <1>7. CASE Seal
    <2>1. file \in Seq(Line) /\ Len(file) \in Nat /\ Len(file') = Len(file)
      BY <1>7 DEF Seal, LogInv, TypeOK
    <2>2. Complete(file) = Len(file)
      BY <1>7 DEF Seal, BareTail, TornTail, Complete
    <2>3. Complete(file)' = Len(file)
      BY <1>7, <2>1 DEF Seal, At, LogInv, StageKnows, Complete, TornTail
    <2>4. \A i \in 1..Len(file) : file'[i].id = file[i].id
      <3>1. \A i \in 1..Len(file) : file[i] \in Line
        BY <2>1
      <3> QED
        BY <1>7, <2>1, <3>1 DEF Seal, Line
    <2>5. Kept' = Kept
      BY <2>2, <2>3, <2>4, SameLog
    <2> QED
      BY <1>7, <2>5 DEF Seal, callers, Acked
  <1>8. ASSUME NEW e \in Event, Write(e) PROVE Abstract!Add(e)
    <2>1. e # Replay /\ ~OpenTail(file)
      BY <1>8, LogAssumption DEF Write, At, First, LogInv, StageKnows
    <2>2. file \in Seq(Line) /\ Len(file) \in Nat /\ file' = Append(file, Whole(e, nextSeq))
      BY <1>8, <2>1 DEF Write, Put, LogInv, TypeOK
    <2>3. /\ Len(file') = Len(file) + 1 /\ file'[Len(file) + 1] = Whole(e, nextSeq)
          /\ \A i \in 1..Len(file) : file'[i] = file[i]
      BY <2>2
    <2>4. Complete(file) = Len(file) /\ Complete(file)' = Len(file) + 1
      BY <1>8, <2>1, <2>3 DEF Write, At, LogInv, StageKnows, Complete, TornTail
    <2>5. /\ Kept \in Seq(Event) /\ Len(Kept) = Len(file)
          /\ \A i \in 1..Len(file) : Kept[i] = file[i].id
      BY <2>4, KeptLines
    <2>6. Kept' = [i \in 1..(Len(file) + 1) |-> file'[i].id]
      BY <2>4 DEF Kept
    <2>7. Kept' = Append(Kept, e)
      <3>1. \A i \in 1..(Len(file) + 1) : file'[i].id = Append(Kept, e)[i]
        BY <2>2, <2>3, <2>5 DEF Whole
      <3>2. Append(Kept, e) \in Seq(Event) /\ Len(Append(Kept, e)) = Len(file) + 1
        BY <2>2, <2>5
      <3>3. Append(Kept, e) \in [1..(Len(file) + 1) -> Event]
        BY <3>2, LenProperties
      <3> QED
        BY <2>6, <3>1, <3>3
    <2>8. Acked' = Acked
      BY <1>8 DEF Write, callers, Acked
    <2> QED
      BY <2>7, <2>8 DEF Abstract!Add
  <1>9. ASSUME NEW e \in Event, Synced(e) PROVE Abstract!Tell(e)
    <2>1. Kept' = Kept
      BY <1>9 DEF Synced, Kept, Complete, TornTail, OpenTail, LastLine
    <2>2. Acked' = Acked \cup {e}
      BY <1>9 DEF Synced, LogInv, TypeOK, Acked
    <2>3. file # <<>> /\ ~OpenTail(file) /\ file[Len(file)].id = e
      BY <1>9 DEF Synced, At, First, LogInv, StageKnows, LastLine
    <2>4. Complete(file) = Len(file) /\ Len(file) \in 1..Len(file)
      BY SMTT(30), <2>3 DEF LogInv, TypeOK, Complete, TornTail
    <2>5. Kept[Len(file)] = e /\ Len(file) \in 1..Len(Kept)
      BY <2>3, <2>4, KeptLines
    <2> QED
      BY <2>1, <2>2, <2>5 DEF Abstract!Tell
  <1>10. ASSUME PowerLoss PROVE \E k \in 0..Len(Kept) : Abstract!Lose(k)
    <2> DEFINE k == Complete(file')
    <2>1. Gone("lost") /\ file' \in Survivors
      BY <1>10 DEF PowerLoss
    <2>2. /\ file' \in Seq(Line) /\ InOrder(file')
          /\ Complete(disk) <= k /\ k <= Complete(file)
          /\ \A i \in 1..k : file'[i].id = file[i].id
      BY <2>1, SurvivorsInOrder DEF LogInv
    <2>3. k \in Nat /\ Complete(disk) \in Nat /\ Complete(file) \in Nat
      BY <2>2, CompleteLines DEF LogInv, TypeOK, DiskBelow, SeqIsPosition
    <2>4. /\ Kept \in Seq(Event) /\ Len(Kept) = Complete(file)
          /\ \A i \in 1..Complete(file) : Kept[i] = file[i].id
      BY KeptLines
    <2>5. Kept' = [i \in 1..k |-> file'[i].id]
      BY DEF Kept, Complete, TornTail, OpenTail, LastLine
    <2> HIDE DEF k
    <2>6. SubSeq(Kept, 1, k) = [i \in 1..k |-> Kept[i]]
      BY <2>2, <2>3, <2>4
    <2>7. Kept' = SubSeq(Kept, 1, k)
      BY <2>2, <2>3, <2>4, <2>5, <2>6
    <2>8. Acked' = Acked
      BY <2>1, GoneKeeps
    <2>9. ASSUME NEW e \in Acked PROVE \E i \in 1..k : Kept[i] = e
      <3>1. PICK i \in 1..Complete(disk) : disk[i].id = e
        BY DEF LogInv, AckedOnDisk
      <3>2. i \in 1..k /\ i \in 1..Complete(file) /\ file[i].id = e
        BY <2>2, <2>3, <3>1 DEF LogInv, DiskBelow
      <3> QED
        BY <2>4, <3>2
    <2>10. k \in 0..Len(Kept)
      BY <2>2, <2>3, <2>4
    <2>11. Abstract!Lose(k)
      BY <2>7, <2>8, <2>9 DEF Abstract!Lose
    <2> QED
      BY <2>10, <2>11
  <1>11. CASE UNCHANGED vars
    BY <1>1, <1>11 DEF vars, callers, Acked
  <1> QED
    BY <1>1, <1>2, <1>3, <1>4, <1>5, <1>6, <1>7, <1>8, <1>9, <1>10, <1>11
       DEF Next, Operate, Serve, Abstract!Next

\* The log implements the abstract one: a reader sees a sequence that only
\* grows, and of which a crash takes only what nobody was told of.
THEOREM LogIsAppendOnly == Spec => ImplementsLog
  <1>1. Init => Abstract!Init
    <2> SUFFICES ASSUME Init PROVE Abstract!Init
      OBVIOUS
    <2>1. Complete(file) = 0
      BY DEF Init, Complete, TornTail, OpenTail
    <2>2. Kept = <<>>
      BY <2>1 DEF Kept
    <2>3. Acked = {}
      BY DEF Init, Acked
    <2> QED
      BY <2>2, <2>3 DEF Abstract!Init
  <1>2. Init => Waiting
    BY DEF Init, Waiting
  <1>3. LogInv /\ Waiting /\ [Next]_vars => Waiting'
    BY NextWaiting
  <1>4. LogInv /\ LogInv' /\ Waiting /\ [Next]_vars => [Abstract!Next]_<<Kept, Acked>>
    BY StepOfAbstract
  <1> QED
    BY <1>1, <1>2, <1>3, <1>4, LogInvariant, PTL DEF Spec, ImplementsLog, Abstract!Spec
=============================================================================

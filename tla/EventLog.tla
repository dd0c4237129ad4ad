------------------------------ MODULE EventLog ------------------------------
(***************************************************************************)
(* One shard of the event log: daemon/src/events/log.ts, opened as the     *)
(* daemon opens it (repair and quarantine on, daemon.ts:276), over starts  *)
(* and crashes of the daemon.                                              *)
(*                                                                         *)
(* The file is a sequence of lines. A line that cannot be parsed has id    *)
(* None; a line without its newline can only be the last, and whatever is  *)
(* written after it ends up on the same line. The operations of the shard  *)
(* run one after the other (#enqueue): stage says at which await the first *)
(* of the queue is:                                                        *)
(*    idle      not begun                                                  *)
(*    read      the file has been read into #loadShard                     *)
(*    sealing   a missing last newline has been written, not synced        *)
(*    mended    the tail is in order again                                 *)
(*    written   the line of an append has been written, not synced         *)
(***************************************************************************)
EXTENDS Naturals, Sequences, FiniteSets

CONSTANTS Event,          \* the events to append, one call of append each
          None,           \* the id of a line that cannot be parsed
          Replay,         \* the job of reading the shard again
          MaxStarts,      \* bound: starts of the daemon
          MaxReplays,     \* bound: replays asked for while it runs
          MaxWriteFaults  \* bound: writes that throw

ASSUME LogAssumption ==
    /\ None \notin Event
    /\ Replay \notin Event
    /\ MaxStarts \in Nat
    /\ MaxReplays \in Nat
    /\ MaxWriteFaults \in Nat

VARIABLES file,     \* the lines of the file, as a reader sees them
          disk,     \* the lines a loss of power cannot take
          up,       \* whether a daemon runs
          loaded,   \* the first replay is over: the daemon serves calls
          nextSeq,  \* st.nextSeq
          queue,    \* st.queue: the operations of the shard
          stage,    \* where the first of them is
          status,   \* what the caller of each append knows
          calls,    \* history: the appends in the order of their calls
          starts, replays, writeFaults  \* counts for the bounds

process == <<up, loaded, nextSeq, queue, stage>>
callers == <<status, calls>>
counts == <<starts, replays, writeFaults>>
vars == <<file, disk, process, callers, counts>>

----------------------------------------------------------------------------
(* Lines and files *)

Line == [id : Event \cup {None}, seq : Nat, nl : BOOLEAN]
Status == {"new", "queued", "acked", "refused", "lost"}
Stage == {"idle", "read", "sealing", "mended", "written"}

Torn == [id |-> None, seq |-> 0, nl |-> FALSE]

Whole(e, n) == [id |-> e, seq |-> n, nl |-> TRUE]
Bare(line) == [line EXCEPT !.nl = FALSE]

LastLine(f) == f[Len(f)]
OpenTail(f) == f # <<>> /\ ~LastLine(f).nl
TornTail(f) == OpenTail(f) /\ LastLine(f).id = None
BareTail(f) == OpenTail(f) /\ LastLine(f).id # None

\* How many lines a reader makes something of, if only the tail is torn.
Complete(f) == IF TornTail(f) THEN Len(f) - 1 ELSE Len(f)

\* Two lines that run into each other are one that cannot be parsed.
Put(f, line) ==
    IF OpenTail(f)
    THEN [f EXCEPT ![Len(f)] = [Torn EXCEPT !.nl = line.nl]]
    ELSE Append(f, line)

\* The lines #loadShard takes for events: those that parse and whose number
\* is above all numbers before. The rest is quarantined.
Accepted(f) ==
    {i \in 1..Len(f) :
        /\ f[i].id # None
        /\ \A j \in 1..(i - 1) : f[j].id # None => f[j].seq < f[i].seq}

Readable(f) == {f[i].id : i \in Accepted(f)}

LastSeq(f) ==
    IF Accepted(f) = {} THEN 0
    ELSE f[CHOOSE i \in Accepted(f) : \A j \in Accepted(f) : j <= i].seq

Acked == {e \in Event : status[e] = "acked"}

----------------------------------------------------------------------------
(* The queue of the shard *)

Init ==
    /\ file = <<>>
    /\ disk = <<>>
    /\ up = FALSE
    /\ loaded = FALSE
    /\ nextSeq = 1
    /\ queue = <<>>
    /\ stage = "idle"
    /\ status = [e \in Event |-> "new"]
    /\ calls = <<>>
    /\ starts = 0
    /\ replays = 0
    /\ writeFaults = 0

At(s) == up /\ queue # <<>> /\ stage = s

First(job) == Head(queue) = job

Enqueue(job) == queue' = Append(queue, job)

Dequeue == queue' = Tail(queue) /\ stage' = "idle"

\* append: the call takes its place in the queue before its first await.
Call(e) ==
    /\ up
    /\ loaded
    /\ status[e] = "new"
    /\ Enqueue(e)
    /\ status' = [status EXCEPT ![e] = "queued"]
    /\ calls' = Append(calls, e)
    /\ UNCHANGED <<file, disk, up, loaded, nextSeq, stage, counts>>

\* readByPrincipal (events.list) and the stream of past events replay the
\* shard through the same queue while the daemon runs.
AskReplay ==
    /\ up
    /\ loaded
    /\ replays < MaxReplays
    /\ Enqueue(Replay)
    /\ replays' = replays + 1
    /\ UNCHANGED <<file, disk, up, loaded, nextSeq, stage, callers, starts, writeFaults>>

(* #loadShard *)

ReadShard ==
    /\ At("idle")
    /\ First(Replay)
    /\ stage' = "read"
    /\ UNCHANGED <<file, disk, up, loaded, nextSeq, queue, callers, counts>>

\* Faulty variant: the line before the torn one goes with it.
Repair_OneTooMany ==
    /\ At("read")
    /\ TornTail(file)
    /\ file' = SubSeq(file, 1, IF Len(file) = 1 THEN 0 ELSE Len(file) - 2)
    /\ stage' = "mended"
    /\ UNCHANGED <<disk, up, loaded, nextSeq, queue, callers, counts>>

\* A torn last line is cut off. No other process writes the file here, so the
\* comparison of repairTruncatedTail succeeds; the cut is not synced.
Repair ==
    /\ At("read")
    /\ TornTail(file)
    /\ file' = SubSeq(file, 1, Len(file) - 1)
    /\ stage' = "mended"
    /\ UNCHANGED <<disk, up, loaded, nextSeq, queue, callers, counts>>

\* Faulty variant: a last line without its newline is accepted and left so.
Seal_Left ==
    /\ At("read")
    /\ BareTail(file)
    /\ stage' = "sealing"
    /\ UNCHANGED <<file, disk, up, loaded, nextSeq, queue, callers, counts>>

\* A last event that lacks only its newline is accepted and given one.
Seal ==
    /\ At("read")
    /\ BareTail(file)
    /\ file' = [file EXCEPT ![Len(file)].nl = TRUE]
    /\ stage' = "sealing"
    /\ UNCHANGED <<disk, up, loaded, nextSeq, queue, callers, counts>>

SealSynced ==
    /\ At("sealing")
    /\ disk' = file
    /\ stage' = "mended"
    /\ UNCHANGED <<file, up, loaded, nextSeq, queue, callers, counts>>

\* The end of #loadShard: the number that follows the last one read.
Loaded ==
    /\ up
    /\ queue # <<>>
    /\ First(Replay)
    /\ stage = "mended" \/ (stage = "read" /\ ~OpenTail(file))
    /\ nextSeq' = LastSeq(file) + 1
    /\ loaded' = TRUE
    /\ Dequeue
    /\ UNCHANGED <<file, disk, up, callers, counts>>

(* append, once its turn has come *)

Write(e) ==
    /\ At("idle")
    /\ First(e)
    /\ file' = Put(file, Whole(e, nextSeq))
    /\ stage' = "written"
    /\ UNCHANGED <<disk, up, loaded, nextSeq, queue, callers, counts>>

\* Faulty variant: the next operation is never begun.
WriteFails_Poisons(e) ==
    /\ At("idle")
    /\ First(e)
    /\ writeFaults < MaxWriteFaults
    /\ writeFaults' = writeFaults + 1
    /\ status' = [status EXCEPT ![e] = "refused"]
    /\ queue' = Tail(queue)
    /\ stage' = "mended"
    /\ UNCHANGED <<file, disk, up, loaded, nextSeq, calls, starts, replays>>

\* The write throws and leaves nothing in the file; the caller is told so and
\* the queue goes on.
WriteFails(e) ==
    /\ At("idle")
    /\ First(e)
    /\ writeFaults < MaxWriteFaults
    /\ writeFaults' = writeFaults + 1
    /\ status' = [status EXCEPT ![e] = "refused"]
    /\ Dequeue
    /\ UNCHANGED <<file, disk, up, loaded, nextSeq, calls, starts, replays>>

\* Faulty variant: the caller is answered before the sync.
Synced_Later(e) ==
    /\ At("written")
    /\ First(e)
    /\ nextSeq' = nextSeq + 1
    /\ status' = [status EXCEPT ![e] = "acked"]
    /\ Dequeue
    /\ UNCHANGED <<file, disk, up, loaded, calls, counts>>

\* The line is on disk: the number is consumed, the subscribers hear of the
\* event and append returns.
Synced(e) ==
    /\ At("written")
    /\ First(e)
    /\ disk' = file
    /\ nextSeq' = nextSeq + 1
    /\ status' = [status EXCEPT ![e] = "acked"]
    /\ Dequeue
    /\ UNCHANGED <<file, up, loaded, calls, counts>>

----------------------------------------------------------------------------
(* Starts and ends of the daemon *)

\* startDaemon replays the log before it serves anything.
Start ==
    /\ ~up
    /\ starts < MaxStarts
    /\ starts' = starts + 1
    /\ up' = TRUE
    /\ loaded' = FALSE
    /\ nextSeq' = 1
    /\ queue' = <<Replay>>
    /\ stage' = "idle"
    /\ UNCHANGED <<file, disk, callers, replays, writeFaults>>

Gone(answer) ==
    /\ up
    /\ up' = FALSE
    /\ loaded' = FALSE
    /\ queue' = <<>>
    /\ stage' = "idle"
    /\ nextSeq' = 1
    /\ status' = [e \in Event |-> IF status[e] = "queued" THEN answer ELSE status[e]]
    /\ UNCHANGED <<calls, counts>>

\* close: what is queued, or under way, finds its handle closed and throws.
Close == Gone("refused") /\ UNCHANGED <<file, disk>>

\* The process dies; what it has written stays in the file.
Kill == Gone("lost") /\ UNCHANGED <<file, disk>>

\* What a loss of power may leave: what is on disk, with any part of what
\* follows it in the file, up to the middle of a line.
Survivors ==
    {disk} \cup {SubSeq(file, 1, k) : k \in Complete(disk)..Len(file)}
    \cup UNION {{Append(SubSeq(file, 1, k - 1), Torn),
                 Append(SubSeq(file, 1, k - 1), Bare(file[k]))} :
                    k \in (Complete(disk) + 1)..Len(file)}

PowerLoss ==
    /\ Gone("lost")
    /\ file' \in Survivors
    /\ disk' = file'

Serve ==
    \/ ReadShard \/ Repair \/ Seal \/ SealSynced \/ Loaded
    \/ \E e \in Event : Write(e) \/ WriteFails(e) \/ Synced(e)

Operate ==
    \/ \E e \in Event : Call(e)
    \/ AskReplay
    \/ Serve
    \/ Start \/ Close \/ Kill

Next == Operate \/ PowerLoss

Spec == Init /\ [][Next]_vars

\* I/O of the shard returns or throws.
FairSpec == Spec /\ WF_vars(Serve)

----------------------------------------------------------------------------
(* Properties *)

\* Type invariant: the file holds lines, the queue jobs, each caller an
\* answer of log.ts's append.
TypeOK ==
    /\ file \in Seq(Line)
    /\ disk \in Seq(Line)
    /\ up \in BOOLEAN
    /\ loaded \in BOOLEAN
    /\ nextSeq \in Nat \ {0}
    /\ queue \in Seq(Event \cup {Replay})
    /\ stage \in Stage
    /\ status \in [Event -> Status]
    /\ calls \in Seq(Event)
    /\ starts \in 0..MaxStarts
    /\ replays \in 0..MaxReplays
    /\ writeFaults \in 0..MaxWriteFaults

\* An event whose append has returned is read back by every later replay,
\* whatever failures, restarts and losses of power lie between (log.ts:187,
\* 219-224 and #loadShard).
AckedIsRead == Acked \subseteq Readable(disk) \cap Readable(file)

\* Line n of the log carries number n: the numbers have no gap and none is
\* used twice, and only the last line may be unfinished (log.ts:6, 9-14, 32).
InOrder(f) ==
    \A i \in 1..Len(f) :
        IF f[i].id = None THEN i = Len(f) /\ ~f[i].nl
        ELSE f[i].seq = i /\ (i < Len(f) => f[i].nl)

SeqIsPosition == InOrder(file)

\* Every append is answered, or its daemon ends: a failed operation does not
\* block the queue (#enqueue).
AppendAnswers == \A e \in Event : status[e] = "queued" ~> status[e] # "queued"

\* A reader of the file sees a log that only grows, of which a crash takes at
\* most what nobody was told of.
Kept == [i \in 1..Complete(file) |-> file[i].id]

Abstract == INSTANCE AbstractLog WITH log <- Kept, told <- Acked

ImplementsLog == Abstract!Spec
=============================================================================

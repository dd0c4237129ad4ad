--------------------------- MODULE EventLogFaults ---------------------------
(***************************************************************************)
(* The event log under three events it does not withstand. Faults says     *)
(* which of them may happen:                                               *)
(*    read   the file cannot be read in a replay of the running daemon     *)
(*    sync   the sync of an append throws after its write                  *)
(*    visit  another process (neoba prune --plan, cli/commands/prune.ts)   *)
(*           opens the log, which repairs its tail                         *)
(***************************************************************************)
EXTENDS EventLog

CONSTANT Faults  \* a subset of {"read", "sync", "visit"}

VARIABLES visit,  \* where the other process is: away, read, compared
          snap    \* the lines it has read

faultVars == <<vars, visit, snap>>

\* Any error of readFile, not only that of an absent file, makes #loadShard
\* return no event and start over at 1.
ReadFails ==
    /\ "read" \in Faults
    /\ loaded
    /\ At("idle")
    /\ First(Replay)
    /\ nextSeq' = 1
    /\ Dequeue
    /\ UNCHANGED <<file, disk, up, loaded, callers, counts, visit, snap>>

\* The line is in the file; the caller is refused and the number not consumed.
SyncFails(e) ==
    /\ "sync" \in Faults
    /\ At("written")
    /\ First(e)
    /\ status' = [status EXCEPT ![e] = "refused"]
    /\ Dequeue
    /\ UNCHANGED <<file, disk, up, loaded, nextSeq, calls, counts, visit, snap>>

(* The other process: the three awaits of #loadShard and repairTruncatedTail *)

VisitReads ==
    /\ "visit" \in Faults
    /\ visit = "away"
    /\ TornTail(file)
    /\ snap' = file
    /\ visit' = "read"
    /\ UNCHANGED vars

\* A file that has changed is left alone (EventRepairConflict).
VisitCompares ==
    /\ visit = "read"
    /\ visit' = IF file = snap THEN "compared" ELSE "away"
    /\ UNCHANGED <<vars, snap>>

\* The cut is made at a place in the file, whatever is there by now.
VisitCuts ==
    /\ visit = "compared"
    /\ file' = SubSeq(file, 1, Len(snap) - 1)
    /\ visit' = "away"
    /\ UNCHANGED <<disk, process, callers, counts, snap>>

FaultyInit == Init /\ visit = "away" /\ snap = <<>>

FaultyNext ==
    \/ Operate /\ UNCHANGED <<visit, snap>>
    \/ PowerLoss /\ visit' = "away" /\ UNCHANGED snap
    \/ ReadFails
    \/ \E e \in Event : SyncFails(e)
    \/ VisitReads \/ VisitCompares \/ VisitCuts

FaultySpec == FaultyInit /\ [][FaultyNext]_faultVars
=============================================================================

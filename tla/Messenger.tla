----------------------------- MODULE Messenger -----------------------------
(***************************************************************************)
(* The message channel of a task: daemon/src/messenger/messenger.ts and    *)
(* validate.ts.                                                            *)
(*                                                                         *)
(* send runs at once, but it calls the subscribers and the sink in its     *)
(* middle, and drain calls the handlers one by one: both may call send,    *)
(* register or unregister again. sending is the stack of the sends under   *)
(* way; a send ends (RouteMessage) when it is on top. drain takes the      *)
(* whole queue as its batch.                                               *)
(*                                                                         *)
(* Bounds: MaxSent messages, MaxHandlers handlers registered,              *)
(* MaxHandlerFaults of them that fail, traversals from 0 to MaxTraversal.  *)
(***************************************************************************)
EXTENDS Documents, SequencesExt

CONSTANTS Agents, BroadcastEnabled, MaxSent, MaxHandlers, MaxTraversal, MaxHandlerFaults

VARIABLES handlers,    \* sequence of [agent, handler], in the order of the map
          registered,  \* handlers registered so far
          historyList, deadList, queue, batch, drainScheduled,
          traversals,  \* <<to, ref>> -> highest traversal of the one sender
          failures,    \* deliveries whose handler threw or rejected
          sending,     \* seqs of the sends under way, the innermost last
          calls,       \* history: the entries whose handler was called
          taken        \* history: the dead letters the caller took

vars == <<handlers, registered, historyList, deadList, queue, batch, drainScheduled,
          traversals, failures, sending, calls, taken>>

Refs == {"artifact"}

----------------------------------------------------------------------------
(* validateMsg: the first fault is thrown; unknown fields are ignored *)

ToFault(raw) == raw.to \in Unset

BodyFault(raw) == raw.body \in Unset

TypeFault(raw) ==
    CASE raw.type = "msg.direct" -> ToFault(raw) \/ BodyFault(raw)
      [] raw.type = "msg.broadcast" -> raw.topic \in Unset \/ BodyFault(raw)
      [] OTHER -> \/ ToFault(raw) \/ raw.kind \in Unset \/ raw.ref \in Unset
                  \/ BodyFault(raw) \/ raw.traversal \in Unset

ValidMsg(raw) ==
    /\ raw # Bad
    /\ raw.protocol \notin Unset /\ raw.spec_version \notin Unset /\ raw.type \notin Unset
    /\ raw.id # Bad /\ raw.ts # Bad /\ raw.priority # Bad
    /\ ~TypeFault(raw)

\* What the callers of this model send: whole messages, whose bodies say nothing.
Message(type, to, traversal) ==
    [protocol |-> "1.0", spec_version |-> "1.0", type |-> type, id |-> Absent, ts |-> Absent,
     priority |-> Absent, to |-> to, topic |-> "topic", kind |-> "correction",
     ref |-> "artifact", body |-> "body", traversal |-> traversal]

Messages ==
    {Message("msg.direct", to, Absent) : to \in Agents}
        \cup {Message("msg.broadcast", Absent, Absent)}
        \cup {Message("msg.feedback", to, n) : to \in Agents, n \in 0..MaxTraversal}

----------------------------------------------------------------------------

\* The map of the handlers: an agent has at most one.
Has(agent) == \E i \in DOMAIN handlers : handlers[i].agent = agent
PlaceOf(agent) == CHOOSE i \in DOMAIN handlers : handlers[i].agent = agent

Init ==
    /\ handlers = <<>> /\ registered = 0
    /\ historyList = <<>> /\ deadList = <<>> /\ queue = <<>> /\ batch = <<>>
    /\ drainScheduled = FALSE
    /\ traversals = [key \in Agents \X Refs |-> Absent]
    /\ failures = {} /\ sending = <<>> /\ calls = <<>> /\ taken = {}

\* Registering again replaces the handler where it is.
Register(agent) ==
    /\ registered < MaxHandlers
    /\ registered' = registered + 1
    /\ LET entry == [agent |-> agent, handler |-> registered']
       IN  handlers' = IF Has(agent)
                       THEN [i \in DOMAIN handlers |->
                                IF handlers[i].agent = agent THEN entry ELSE handlers[i]]
                       ELSE Append(handlers, entry)
    /\ UNCHANGED <<historyList, deadList, queue, batch, drainScheduled, traversals,
                   failures, sending, calls, taken>>

Unregister(agent) ==
    /\ Has(agent)
    /\ handlers' = RemoveAt(handlers, PlaceOf(agent))
    /\ UNCHANGED <<registered, historyList, deadList, queue, batch, drainScheduled,
                   traversals, failures, sending, calls, taken>>

\* send up to the subscribers: the message is stamped and remembered. within
\* are the sends whose subscriber or sink makes this one.
Send(raw) ==
    /\ ValidMsg(raw)
    /\ raw.type = "msg.broadcast" => BroadcastEnabled
    /\ Len(historyList) < MaxSent
    /\ historyList' = Append(historyList, [msg |-> raw, within |-> Range(sending)])
    /\ sending' = Append(sending, Len(historyList'))
    /\ UNCHANGED <<handlers, registered, deadList, queue, batch, drainScheduled,
                   traversals, failures, calls, taken>>

Highest(old, new) == IF old = Absent \/ new > old THEN new ELSE old

RecordTraversal(msg) ==
    IF msg.type # "msg.feedback" THEN UNCHANGED traversals
    ELSE traversals' = [traversals EXCEPT ![<<msg.to, msg.ref>>] = Highest(@, msg.traversal)]

\* The handlers of this moment; a broadcast goes to all of them.
Recipients(msg) ==
    CASE msg.type = "msg.broadcast" -> handlers
      [] msg.type # "msg.broadcast" /\ Has(msg.to) -> <<handlers[PlaceOf(msg.to)]>>
      [] OTHER -> <<>>

Undeliverable(seq) ==
    LET msg == historyList[seq].msg
    IN  IF msg.type # "msg.broadcast" /\ ~Has(msg.to) THEN <<seq>> ELSE <<>>

\* Faulty variant: the drain under way is trusted to take it.
ScheduleDrain_NotTwice == drainScheduled' = (drainScheduled \/ batch = <<>>)

ScheduleDrain == drainScheduled' = TRUE

\* Faulty variant: what is sent last is delivered first.
Enqueued_First(entries) == entries \o queue

Enqueued(entries) == queue \o entries

\* The rest of the innermost send, its subscribers and sink having returned.
RouteMessage ==
    /\ sending # <<>>
    /\ LET seq == Last(sending)
           to == Recipients(historyList[seq].msg)
       IN  /\ RecordTraversal(historyList[seq].msg)
           /\ queue' = Enqueued([i \in DOMAIN to |->
                        [seq |-> seq, to |-> to[i].agent, handler |-> to[i].handler]])
           /\ deadList' = deadList \o Undeliverable(seq)
    /\ sending' = Front(sending)
    /\ ScheduleDrain
    /\ UNCHANGED <<handlers, registered, historyList, batch, failures, calls, taken>>

\* The handler of the first entry is called; what it calls are later steps.
CallFirst(entries) ==
    /\ batch' = IF entries = <<>> THEN <<>> ELSE Tail(entries)
    /\ calls' = IF entries = <<>> THEN calls ELSE Append(calls, Head(entries))

\* The microtask of scheduleDrain: it runs when no send and no drain does.
DrainStarts ==
    /\ drainScheduled /\ sending = <<>> /\ batch = <<>>
    /\ drainScheduled' = FALSE
    /\ CallFirst(queue)
    /\ queue' = <<>>
    /\ UNCHANGED <<handlers, registered, historyList, deadList, traversals, failures,
                   sending, taken>>

Deliver ==
    /\ batch # <<>> /\ sending = <<>>
    /\ CallFirst(batch)
    /\ UNCHANGED <<handlers, registered, historyList, deadList, queue, drainScheduled,
                   traversals, failures, sending, taken>>

\* A handler throws, or its promise rejects later on.
HandlerFails(i) ==
    /\ i \notin failures /\ Cardinality(failures) < MaxHandlerFaults
    /\ failures' = failures \cup {i}
    /\ UNCHANGED <<handlers, registered, historyList, deadList, queue, batch,
                   drainScheduled, traversals, sending, calls, taken>>

TakeDeadLetters ==
    /\ deadList # <<>>
    /\ taken' = taken \cup Range(deadList)
    /\ deadList' = <<>>
    /\ UNCHANGED <<handlers, registered, historyList, queue, batch, drainScheduled,
                   traversals, failures, sending, calls>>

Next ==
    \/ \E agent \in Agents : Register(agent) \/ Unregister(agent)
    \/ \E raw \in Messages : Send(raw)
    \/ RouteMessage \/ DrainStarts \/ Deliver \/ TakeDeadLetters
    \/ \E i \in DOMAIN calls : HandlerFails(i)

Spec == Init /\ [][Next]_vars

----------------------------------------------------------------------------
(* Properties *)

Deliveries == calls \o batch \o queue

CountOf(seq) == Cardinality({i \in DOMAIN Deliveries : Deliveries[i].seq = seq})

\* Whatever subscribers and handlers send, register and unregister in the
\* middle of it: a message to one agent, once routed, is handed to one handler
\* or is a dead letter, never both and never neither; a broadcast goes to no
\* agent twice and is no dead letter; and what waits has a drain to come, also
\* when a handler sent it in the middle of one (messenger.ts:11-14, 175-183).
MessagesAccounted ==
    /\ \A seq \in DOMAIN historyList \ Range(sending) :
          LET dead == Cardinality({i \in DOMAIN deadList : deadList[i] = seq})
                          + Cardinality(taken \cap {seq})
          IN  IF historyList[seq].msg.type = "msg.broadcast"
              THEN /\ dead = 0
                   /\ \A i, j \in DOMAIN Deliveries :
                          Deliveries[i].seq = seq /\ Deliveries[j].seq = seq /\ i # j
                              => Deliveries[i].to # Deliveries[j].to
              ELSE CountOf(seq) + dead = 1
    /\ queue # <<>> => drainScheduled

\* Handlers are called in the order of the sends (messenger.ts:6-8), but for a
\* message a subscriber sends while another is being announced: that one
\* overtakes it.
CalledInOrder ==
    \A i, j \in DOMAIN Deliveries :
        i < j /\ Deliveries[i].seq > Deliveries[j].seq
            => Deliveries[j].seq \in historyList[Deliveries[i].seq].within
=============================================================================

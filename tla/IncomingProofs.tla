--------------------------- MODULE IncomingProofs ---------------------------
(***************************************************************************)
(* Incoming for any number of contacts and messages: a message is routed   *)
(* and opens calls as well only across a close, and is denied without      *)
(* having been routed only by a call that came after its read.             *)
(***************************************************************************)
EXTENDS Incoming, TLAPS

\* The theorems of CallQueue, for the calls table.
Proved == INSTANCE CallQueueProofs

\* How far the handling of a message is, and what it still knows of the calls
\* it read: the call it routes to has not moved to another contact nor back
\* into the queue, and where none was read there is none but newcomers.
Handling(m) ==
    LET r == request[m] IN
    /\ r.seen <= lastEvent
    /\ r.pc \in {"new", "route", "trigger"} => r.opened = 0 /\ r.denier = NoCall
    /\ r.pc = "new" => r.active = NoCall
    /\ r.pc = "route" => r.active # NoCall
    /\ r.active # NoCall =>
         /\ status[r.active] \in {"running"} \cup Queue!Final
         /\ Queue!SlotOf(r.active) = From[m]
    /\ r.pc = "trigger" /\ r.active = NoCall =>
         \A c \in Queue!OpenCalls(From[m]) : Queue!EventOf(c) > r.seen

\* What the two properties below say of one message.
Consistent(m) ==
    LET r == request[m] IN
    /\ r.active # NoCall /\ r.opened # 0 => status[r.active] \in Queue!Final
    /\ r.denier # NoCall /\ r.active = NoCall => Queue!EventOf(r.denier) > r.seen

\* The inductive invariant of the handlers.
MessageInv == TypeOK /\ \A m \in Messages : Handling(m) /\ Consistent(m)

----------------------------------------------------------------------------
(* From the theorems of CallQueue to the calls table.                       *)

\* The two instances of CallQueue, here and in Incoming, say the same.
LEMMA SameQueue ==
    /\ Queue!Init <=> Proved!Init
    /\ [Queue!Next]_(Queue!vars) <=> [Proved!Next]_(Proved!vars)
<1>1. Queue!Init <=> Proved!Init
  BY DEF Queue!Init, Queue!Events, Queue!Calls, Proved!Init, Proved!Events, Proved!Calls
<1>2. Queue!Ensure <=> Proved!Ensure
  BY DEF Queue!Ensure, Queue!Requests, Queue!RunsFirst, Queue!EnsureCreate, Queue!EnsureAborted,
     Queue!InsertBatch, Queue!InsertAborted, Queue!NewEvent, Queue!OpenCalls, Queue!Running,
     Queue!Queued, Queue!SlotOf, Queue!EventOf, Queue!Calls, Queue!Events,
     Proved!Ensure, Proved!Requests, Proved!RunsFirst, Proved!EnsureCreate, Proved!EnsureAborted,
     Proved!InsertBatch, Proved!InsertAborted, Proved!NewEvent, Proved!OpenCalls, Proved!Running,
     Proved!Queued, Proved!SlotOf, Proved!EventOf, Proved!Calls, Proved!Events
<1>3. ASSUME NEW c, NEW final
      PROVE  Queue!Complete(c, final) <=> Proved!Complete(c, final)
  BY DEF Queue!Complete, Queue!Promotions, Queue!NextInLine, Queue!CloseAndPromote, Queue!Prio,
     Queue!Queued, Queue!SlotOf, Queue!EventOf, Queue!Calls, Queue!Events, Queue!Final,
     Proved!Complete, Proved!Promotions, Proved!NextInLine, Proved!CloseAndPromote, Proved!Prio,
     Proved!Queued, Proved!SlotOf, Proved!EventOf, Proved!Calls, Proved!Events, Proved!Final
<1>4. ASSUME NEW c
      PROVE  Queue!DeadlinePasses(c) <=> Proved!DeadlinePasses(c)
  BY DEF Queue!DeadlinePasses, Proved!DeadlinePasses
<1> QED
  BY <1>1, <1>2, <1>3, <1>4 DEF Queue!Next, Queue!vars, Queue!Calls, Queue!Events,
     Proved!Next, Proved!vars, Proved!Calls, Proved!Events

\* What the proofs below need of the inductive invariant of CallQueue.
LEMMA QueueFacts ==
    Proved!Inv => /\ Queue!TypeOK
                  /\ Queue!NoOrphanQueue
                  /\ \A c \in Queue!Calls : status[c] # "absent" =>
                        Queue!EventOf(c) \in 1 .. lastEvent
  BY DEF Proved!Inv, Proved!TypeOK, Proved!NoOrphanQueue, Proved!RowsHaveEvents,
     Proved!Calls, Proved!Events, Proved!Status, Proved!Final, Proved!Deadlines, Proved!SlotOf,
     Proved!EventOf, Queue!TypeOK, Queue!NoOrphanQueue, Queue!Calls, Queue!Events,
     Queue!Status, Queue!Final, Queue!Deadlines, Queue!SlotOf, Queue!EventOf

\* The types of the table, from its invariant.
LEMMA QueueFactsPrimed == Proved!Inv' => Queue!TypeOK'
  BY DEF Proved!Inv, Proved!TypeOK, Proved!Calls, Proved!Events, Proved!Status, Proved!Final,
     Proved!Deadlines, Queue!TypeOK, Queue!Calls, Queue!Events, Queue!Status, Queue!Final,
     Queue!Deadlines

\* The invariant of CallQueue at the start.
LEMMA QueueInit == Queue!Init => Proved!Inv
  BY SameQueue, QueueAssumption, Proved!InitInv DEF Proved!InitInv, Proved!PriorityAssumption,
     Proved!EventsAssumption, Proved!SourcesAssumption, Proved!SlotsAssumption

\* The invariant of CallQueue along the steps of CallQueue.
LEMMA QueueNext == Proved!Inv /\ [Queue!Next]_(Queue!vars) => Proved!Inv'
  BY SameQueue, QueueAssumption, Proved!NextInv DEF Proved!NextInv, Proved!PriorityAssumption,
     Proved!EventsAssumption, Proved!SourcesAssumption, Proved!SlotsAssumption

\* What a step of the table does to a row: it stays where it is, a closed call
\* stays closed, a running one is at most closed, and an open call was open
\* before or belongs to a new event.
RowsMove ==
    /\ lastEvent <= lastEvent'
    /\ \A c \in Queue!Calls :
          /\ status[c] # "absent" => slotOf'[Queue!EventOf(c)] = slotOf[Queue!EventOf(c)]
          /\ status[c] \in Queue!Final => status'[c] \in Queue!Final
          /\ status[c] = "running" => status'[c] \in {"running"} \cup Queue!Final
          /\ status'[c] \in {"running", "queued"} =>
               status[c] \in {"running", "queued"} \/ Queue!EventOf(c) = lastEvent + 1

\* The rows move as CallQueue lets them.
LEMMA QueueMoves == Proved!Inv /\ [Queue!Next]_(Queue!vars) => RowsMove
<1> SUFFICES ASSUME Proved!Inv, [Queue!Next]_(Queue!vars) PROVE RowsMove
  OBVIOUS
<1>1. Proved!RowsStay
  BY SameQueue, QueueAssumption, Proved!StepKeepsRows DEF Proved!StepKeepsRows,
     Proved!PriorityAssumption, Proved!EventsAssumption, Proved!SourcesAssumption,
     Proved!SlotsAssumption
<1>2. Proved!LegalTransitions \/ UNCHANGED status
  BY SameQueue, QueueAssumption, Proved!StepLegal DEF Proved!StepLegal, Proved!vars,
     Proved!PriorityAssumption, Proved!EventsAssumption, Proved!SourcesAssumption,
     Proved!SlotsAssumption
<1>3. \A c \in Queue!Calls : status[c] \in Queue!Status
  BY QueueFacts DEF Queue!TypeOK
<1>4. \A c \in Queue!Calls :
         /\ status[c] \in Queue!Final => status'[c] = status[c]
         /\ status[c] = "running" => status'[c] \in {"running"} \cup Queue!Final
  BY <1>2 DEF Proved!LegalTransitions, Proved!Calls, Proved!Events, Proved!Final,
     Queue!Calls, Queue!Events, Queue!Final
<1>5. /\ lastEvent <= lastEvent'
      /\ \A c \in Queue!Calls :
            /\ status[c] # "absent" => slotOf'[Queue!EventOf(c)] = slotOf[Queue!EventOf(c)]
            /\ status[c] = "absent" /\ status'[c] # "absent" => Queue!EventOf(c) = lastEvent + 1
  BY <1>1 DEF Proved!RowsStay, Proved!Calls, Proved!Events, Proved!EventOf,
     Queue!Calls, Queue!Events, Queue!EventOf
<1> QED  BY <1>3, <1>4, <1>5 DEF RowsMove, Queue!Status, Queue!Final

----------------------------------------------------------------------------
(* The steps of the table.                                                  *)

\* A message that opens calls does so by EnsureCreate, and what goes on beside
\* are RPCs too: every step is one of CallQueue or changes no row.
LEMMA StepRefines == TypeOK /\ [Next]_vars => [Queue!Next]_(Queue!vars)
<1> SUFFICES ASSUME TypeOK, [Next]_vars PROVE [Queue!Next]_(Queue!vars)
  OBVIOUS
<1>1. CASE UNCHANGED queueVars
  BY <1>1 DEF queueVars, Queue!vars
<1>2. ASSUME NEW m \in Messages, TriggerOpens(m)
      PROVE  Queue!Next
  BY <1>2, QueueAssumption, FromAssumption DEF TriggerOpens, Queue!Next, Queue!Ensure
<1>3. ASSUME NEW k \in Slots, NEW src \in Sources, NEW s \in Scenarios,
             Queue!EnsureCreate(k, src, {s}, s)
      PROVE  Queue!Next
  <2>1. {s} \in Queue!Requests(src) /\ s \in Queue!RunsFirst({s})
    BY QueueAssumption DEF Queue!Requests, Queue!RunsFirst
  <2> QED  BY <1>3, <2>1 DEF Queue!Next, Queue!Ensure
<1>4. CASE Beside
  BY <1>3, <1>4 DEF Beside, Queue!Next, Queue!Ensure
<1> QED
  BY <1>1, <1>2, <1>4 DEF Next, Handle, Look, RouteDelivered, RouteFailed, TriggerDenied,
     TriggerEmpty, SendInit, queueVars, vars

----------------------------------------------------------------------------
(* MessageInv is inductive.                                                 *)

\* A call that is closed or running when a message is routed stays one or the
\* other, and no open call appears behind the back of a handler that is older
\* than what it has seen: an untouched handling stays consistent.
LEMMA Untouched ==
    ASSUME MessageInv, Queue!TypeOK, Queue!TypeOK', RowsMove,
           NEW m \in Messages, request'[m] = request[m]
    PROVE  Handling(m)' /\ Consistent(m)'
<1> DEFINE r == request[m]
<1>1. /\ r.seen \in Nat /\ lastEvent \in Nat /\ lastEvent' \in Nat /\ lastEvent <= lastEvent'
      /\ r.active \in Queue!Calls \cup {NoCall}
      /\ Handling(m) /\ Consistent(m)
  BY QueueAssumption DEF MessageInv, TypeOK, Queue!TypeOK, RowsMove
<1>2. r.active # NoCall =>
        /\ status'[r.active] \in {"running"} \cup Queue!Final
        /\ slotOf'[Queue!EventOf(r.active)] = From[m]
  <2> SUFFICES ASSUME r.active # NoCall
               PROVE  /\ status'[r.active] \in {"running"} \cup Queue!Final
                      /\ slotOf'[Queue!EventOf(r.active)] = From[m]
    OBVIOUS
  <2>1. /\ r.active \in Queue!Calls /\ status[r.active] \in {"running"} \cup Queue!Final
        /\ slotOf[Queue!EventOf(r.active)] = From[m]
    BY <1>1 DEF Handling, Queue!SlotOf
  <2>2. status[r.active] # "absent"
    BY <2>1 DEF Queue!Final
  <2> QED  BY <2>1, <2>2 DEF RowsMove
<1>3. ASSUME r.pc = "trigger", r.active = NoCall, NEW c \in Queue!OpenCalls(From[m])'
      PROVE  Queue!EventOf(c) > r.seen
  <2>1. /\ c \in Queue!Calls /\ status'[c] \in {"running", "queued"}
        /\ slotOf'[Queue!EventOf(c)] = From[m]
    BY <1>3 DEF Queue!OpenCalls, Queue!Running, Queue!Queued, Queue!SlotOf, Queue!EventOf,
       Queue!Calls, Queue!Events
  <2>2. CASE status[c] \in {"running", "queued"}
    BY <1>1, <1>3, <2>1, <2>2 DEF RowsMove, Handling, Queue!OpenCalls, Queue!Running,
       Queue!Queued, Queue!SlotOf
  <2>3. CASE Queue!EventOf(c) = lastEvent + 1
    BY <1>1, <2>3 DEF Handling
  <2> QED  BY <2>1, <2>2, <2>3 DEF RowsMove
<1>4. Handling(m)'
  <2>1. r.pc = "trigger" /\ r.active = NoCall =>
           \A c \in Queue!OpenCalls(From[m])' : Queue!EventOf(c) > r.seen
    BY <1>3
  <2> QED  BY <1>1, <1>2, <2>1 DEF Handling, Queue!SlotOf, Queue!EventOf
<1>5. Consistent(m)'
  BY <1>1 DEF Consistent, RowsMove, Queue!EventOf
<1> QED  BY <1>4, <1>5

\* A step of the handler of one message, which leaves the other handlings.
LEMMA GotoInv ==
    ASSUME MessageInv, Queue!TypeOK, Queue!TypeOK', RowsMove, NEW m \in Messages, NEW r,
           Goto(m, r),
           r \in [pc : Labels, active : Queue!Calls \cup {NoCall}, seen : 0 .. MaxEvents,
                  routed : {"no", "live", "late"}, opened : 0 .. MaxEvents,
                  denier : Queue!Calls \cup {NoCall}],
           r.routed # "no" => r.active # NoCall,
           Handling(m)' /\ Consistent(m)'
    PROVE  MessageInv'
<1>1. \A n \in Messages : n # m => request'[n] = request[n]
  BY DEF Goto, MessageInv, TypeOK
<1>2. TypeOK'
  BY DEF Goto, MessageInv, TypeOK
<1> QED  BY <1>1, <1>2, Untouched DEF MessageInv

\* What is known of the handling of one message.
LEMMA Facts ==
    ASSUME MessageInv, NEW m \in Messages
    PROVE  /\ request[m] \in [pc : Labels, active : Queue!Calls \cup {NoCall},
                              seen : 0 .. MaxEvents, routed : {"no", "live", "late"},
                              opened : 0 .. MaxEvents, denier : Queue!Calls \cup {NoCall}]
           /\ request[m].routed # "no" => request[m].active # NoCall
           /\ Handling(m) /\ Consistent(m) /\ m \in DOMAIN request
           /\ Queue!TypeOK
  BY DEF MessageInv, TypeOK

\* The read: with no running call there is no open call at all, so nothing
\* older than the read can deny the message.
LEMMA LookInv ==
    ASSUME Proved!Inv, MessageInv, Queue!TypeOK', RowsMove, NEW m \in Messages, Look(m)
    PROVE  MessageInv'
<1> DEFINE r == [request[m] EXCEPT !.seen = lastEvent]
<1>0. UNCHANGED queueVars /\ request[m].pc = "new"
  BY DEF Look
<1>1. CASE Queue!Running(From[m]) = {} /\ Goto(m, [r EXCEPT !.pc = "trigger"])
  <2>1. request'[m] = [r EXCEPT !.pc = "trigger"]
    BY <1>1, Facts DEF Goto
  <2>2. Queue!OpenCalls(From[m])' = {}
    <3>1. Queue!OpenCalls(From[m]) = {}
      BY <1>1, QueueFacts DEF Queue!OpenCalls, Queue!Running, Queue!Queued, Queue!NoOrphanQueue,
         Queue!SlotOf
    <3> QED
      BY <3>1, <1>0 DEF queueVars, Queue!OpenCalls, Queue!Running, Queue!Queued, Queue!SlotOf,
         Queue!EventOf, Queue!Calls, Queue!Events
  <2>3. Handling(m)' /\ Consistent(m)'
    BY <1>0, <2>1, <2>2, Facts, QueueAssumption DEF Handling, Consistent, queueVars, Queue!TypeOK
  <2> QED  BY <1>1, <2>3, Facts, GotoInv DEF Labels, Queue!TypeOK
<1>2. ASSUME NEW c \in Queue!Running(From[m]), Goto(m, [r EXCEPT !.pc = "route", !.active = c])
      PROVE  MessageInv'
  <2>1. request'[m] = [r EXCEPT !.pc = "route", !.active = c]
    BY <1>2, Facts DEF Goto
  <2>2. c \in Queue!Calls /\ status[c] = "running" /\ Queue!SlotOf(c) = From[m] /\ c # NoCall
    BY NoCallAssumption DEF Queue!Running
  <2>3. Handling(m)' /\ Consistent(m)'
    BY <1>0, <2>1, <2>2, Facts, QueueAssumption DEF Handling, Consistent, queueVars, Queue!TypeOK,
       Queue!SlotOf, Queue!EventOf
  <2> QED  BY <1>2, <2>2, <2>3, Facts, GotoInv DEF Labels, Queue!TypeOK
<1> QED  BY <1>1, <1>2 DEF Look

\* The Worker has the message, or has not: the trigger is next either way.
LEMMA RouteInv ==
    ASSUME MessageInv, Queue!TypeOK', RowsMove, NEW m \in Messages,
           RouteDelivered(m) \/ RouteFailed(m)
    PROVE  MessageInv'
<1>1. PICK routed \in {"no", "live", "late"} :
         Goto(m, [request[m] EXCEPT !.pc = "trigger", !.routed = routed])
  <2>1. CASE RouteDelivered(m)
    <3> DEFINE routed == IF request[m].active \in Queue!Running(From[m]) THEN "live" ELSE "late"
    <3>1. routed \in {"no", "live", "late"}
          /\ Goto(m, [request[m] EXCEPT !.pc = "trigger", !.routed = routed])
      BY <2>1 DEF RouteDelivered
    <3> QED  BY <3>1
  <2>2. CASE RouteFailed(m)
    <3>1. request[m].routed \in {"no", "live", "late"}
          /\ [request[m] EXCEPT !.pc = "trigger"]
               = [request[m] EXCEPT !.pc = "trigger", !.routed = request[m].routed]
      BY Facts
    <3> QED  BY <2>2, <3>1 DEF RouteFailed
  <2> QED  BY <2>1, <2>2
<1>2. request'[m] = [request[m] EXCEPT !.pc = "trigger", !.routed = routed]
  BY <1>1, Facts DEF Goto
<1>3. UNCHANGED queueVars /\ request[m].pc = "route" /\ request[m].active # NoCall
  BY Facts DEF RouteDelivered, RouteFailed, Handling
<1>4. Handling(m)' /\ Consistent(m)'
  BY <1>2, <1>3, Facts DEF Handling, Consistent, queueVars, Queue!SlotOf, Queue!EventOf
<1> QED  BY <1>1, <1>3, <1>4, Facts, GotoInv DEF Labels

\* The trigger opens calls only in a slot that has none: the call the message
\* was routed to is closed by now.
LEMMA OpensInv ==
    ASSUME MessageInv, Queue!TypeOK', RowsMove, NEW m \in Messages, TriggerOpens(m)
    PROVE  MessageInv'
<1>1. PICK next \in {"init", "failed"} :
         Goto(m, [request[m] EXCEPT !.pc = next, !.opened = lastEvent + 1])
  BY DEF TriggerOpens
<1>2. /\ request[m].pc = "trigger" /\ Queue!OpenCalls(From[m]) = {}
      /\ lastEvent + 1 \in 0 .. MaxEvents
  BY Facts, QueueAssumption DEF TriggerOpens, Queue!EnsureCreate, Queue!InsertBatch,
     Queue!NewEvent, Queue!TypeOK
<1>3. request'[m] = [request[m] EXCEPT !.pc = next, !.opened = lastEvent + 1]
  BY <1>1, Facts DEF Goto
<1>4. request[m].active # NoCall =>
        /\ status'[request[m].active] \in Queue!Final
        /\ slotOf'[Queue!EventOf(request[m].active)] = From[m]
  <2> SUFFICES ASSUME request[m].active # NoCall
               PROVE  /\ status'[request[m].active] \in Queue!Final
                      /\ slotOf'[Queue!EventOf(request[m].active)] = From[m]
    OBVIOUS
  <2>1. /\ request[m].active \in Queue!Calls
        /\ status[request[m].active] \in {"running"} \cup Queue!Final
        /\ Queue!SlotOf(request[m].active) = From[m]
    BY Facts DEF Handling
  <2>2. status[request[m].active] \in Queue!Final
    BY <1>2, <2>1 DEF Queue!OpenCalls, Queue!Running
  <2>3. status[request[m].active] # "absent"
    BY <2>2 DEF Queue!Final
  <2> QED  BY <2>1, <2>2, <2>3 DEF RowsMove, Queue!SlotOf
<1>5. /\ lastEvent \in Nat /\ lastEvent' \in Nat /\ lastEvent <= lastEvent'
      /\ request[m].seen \in Nat
  BY Facts, QueueAssumption DEF Queue!TypeOK, RowsMove
<1>6. Handling(m)' /\ Consistent(m)'
  BY <1>2, <1>3, <1>4, <1>5, Facts DEF Handling, Consistent, Queue!SlotOf, Queue!EventOf
<1> QED  BY <1>1, <1>2, <1>6, Facts, GotoInv DEF Labels

\* A trigger denied: by a newcomer, if no call was read for the message.
LEMMA DeniedInv ==
    ASSUME MessageInv, Queue!TypeOK', RowsMove, NEW m \in Messages, TriggerDenied(m)
    PROVE  MessageInv'
<1>1. PICK c \in Queue!OpenCalls(From[m]) :
         Goto(m, [request[m] EXCEPT !.pc = "done", !.denier = c])
  BY DEF TriggerDenied
<1>2. request'[m] = [request[m] EXCEPT !.pc = "done", !.denier = c]
  BY <1>1, Facts DEF Goto
<1>3. UNCHANGED queueVars /\ request[m].pc = "trigger" /\ c \in Queue!Calls
  BY DEF TriggerDenied, Queue!OpenCalls, Queue!Running, Queue!Queued
<1>4. Handling(m)' /\ Consistent(m)'
  BY <1>2, <1>3, Facts DEF Handling, Consistent, queueVars, Queue!SlotOf, Queue!EventOf
<1> QED  BY <1>1, <1>3, <1>4, Facts, GotoInv DEF Labels

\* A trigger that opens nothing, or whose init is sent, is over.
LEMMA EmptyInv ==
    ASSUME MessageInv, Queue!TypeOK', RowsMove, NEW m \in Messages,
           TriggerEmpty(m) \/ SendInit(m)
    PROVE  MessageInv'
<1>1. Goto(m, [request[m] EXCEPT !.pc = "done"])
  BY DEF TriggerEmpty, SendInit
<1>2. request'[m] = [request[m] EXCEPT !.pc = "done"]
  BY <1>1, Facts DEF Goto
<1>3. UNCHANGED queueVars
  BY DEF TriggerEmpty, SendInit
<1>4. Handling(m)' /\ Consistent(m)'
  BY <1>2, <1>3, Facts DEF Handling, Consistent, queueVars, Queue!SlotOf, Queue!EventOf
<1> QED  BY <1>1, <1>4, Facts, GotoInv DEF Labels

\* What goes on beside the messages.
LEMMA BesideInv ==
    ASSUME MessageInv, Queue!TypeOK', RowsMove, UNCHANGED request
    PROVE  MessageInv'
<1>1. TypeOK'
  BY DEF MessageInv, TypeOK
<1>2. Queue!TypeOK
  BY DEF MessageInv, TypeOK
<1> QED  BY <1>1, <1>2, Untouched DEF MessageInv

\* No message has arrived at the start.
LEMMA MessageInit == Init => MessageInv
<1> SUFFICES ASSUME Init PROVE MessageInv
  OBVIOUS
<1>1. \A m \in Messages : request[m] = Fresh
  BY DEF Init
<1>2. Queue!TypeOK /\ lastEvent = 0
  BY QueueInit, QueueFacts DEF Init, Queue!Init
<1>3. TypeOK
  <2>1. Fresh \in [pc : Labels, active : Queue!Calls \cup {NoCall}, seen : 0 .. MaxEvents,
                   routed : {"no", "live", "late"}, opened : 0 .. MaxEvents,
                   denier : Queue!Calls \cup {NoCall}]
    BY QueueAssumption DEF Fresh, Labels
  <2>2. Fresh.routed = "no"
    BY DEF Fresh
  <2> QED  BY <1>1, <1>2, <2>1, <2>2 DEF Init, TypeOK
<1>4. \A m \in Messages : Handling(m) /\ Consistent(m)
  BY <1>1, <1>2 DEF Handling, Consistent, Fresh
<1> QED  BY <1>3, <1>4 DEF MessageInv

\* Every step keeps the invariant of the table and that of the messages.
LEMMA MessageNext == Proved!Inv /\ MessageInv /\ [Next]_vars => Proved!Inv' /\ MessageInv'
<1> SUFFICES ASSUME Proved!Inv, MessageInv, [Next]_vars PROVE Proved!Inv' /\ MessageInv'
  OBVIOUS
<1>1. [Queue!Next]_(Queue!vars)
  BY StepRefines DEF MessageInv
<1>2. Proved!Inv' /\ RowsMove
  BY <1>1, QueueNext, QueueMoves
<1>3. Queue!TypeOK'
  BY <1>2, QueueFactsPrimed
<1>4. CASE \E m \in Messages : Handle(m)
  BY <1>2, <1>3, <1>4, LookInv, RouteInv, OpensInv, DeniedInv, EmptyInv DEF Handle
<1>5. CASE UNCHANGED request
  BY <1>2, <1>3, <1>5, BesideInv
<1> QED  BY <1>2, <1>4, <1>5 DEF Next, Beside, vars

\* Both invariants hold for ever.
LEMMA Invariance == Spec => [](Proved!Inv /\ MessageInv)
<1>1. Init => Proved!Inv /\ MessageInv
  BY MessageInit, QueueInit DEF Init
<1> QED  BY <1>1, MessageNext, PTL DEF Spec

----------------------------------------------------------------------------
(* The theorems.                                                            *)

\* The variables keep their types, and only a message for which a call was
\* read is routed.
THEOREM TypeCorrect == Spec => []TypeOK
  BY Invariance, PTL DEF MessageInv

\* While the call a message was routed to is open, the message opens no others.
THEOREM TwiceMeansClosed == Spec => []TwiceOnlyAfterClose
<1>1. MessageInv => TwiceOnlyAfterClose
  BY DEF MessageInv, Consistent, TwiceOnlyAfterClose
<1> QED  BY <1>1, Invariance, PTL

\* A message for which no call was read is denied only by a call that came
\* after the read: nothing that was there before shuts a contact out.
THEOREM NobodyShutOut == Spec => []DeniedByNewcomer
<1>1. MessageInv => DeniedByNewcomer
  BY DEF MessageInv, Consistent, DeniedByNewcomer
<1> QED  BY <1>1, Invariance, PTL

============================================================================

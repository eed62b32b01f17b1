------------------------------ MODULE Incoming ------------------------------
(***************************************************************************)
(* POST /incoming for a message a contact sent: handle_incoming reads the  *)
(* running call of the contact, routes the message to it, and then asks    *)
(* spine_ensure_call whether the message opens calls of its own.  Between  *)
(* the read and the RPC the handler awaits the Worker, and other messages, *)
(* the Scheduler and summaries go on; the RPCs are the steps of CallQueue. *)
(***************************************************************************)
EXTENDS Integers

CONSTANTS Slots, Scenarios, Priority, Sources, Closings, MaxEvents, NoSlot, NoSource,
          Messages,  \* the messages contacts send
          From,      \* From[m]: the slot message m is of
          NoCall

ASSUME FromAssumption == From \in [Messages -> Slots]

\* What CallQueue assumes of its constants.
ASSUME QueueAssumption ==
    /\ Priority \in [Scenarios -> Nat] /\ MaxEvents \in Nat
    /\ "trigger" \in Sources /\ NoSource \notin Sources /\ NoSlot \notin Slots

VARIABLES
    lastEvent, slotOf, sourceOf, status, due,  \* the calls table, as in CallQueue
    request  \* request[m]: the handling of message m

queueVars == <<lastEvent, slotOf, sourceOf, status, due>>
vars      == <<lastEvent, slotOf, sourceOf, status, due, request>>

Queue == INSTANCE CallQueue

ASSUME NoCallAssumption == NoCall \notin Queue!Calls

Labels == {"new", "route", "trigger", "init", "done", "failed"}

\* active: the running call the handler read, and seen: how many events there
\* were then.  routed: whether the Worker took the message for that call, while
\* it was running or too late.  opened: the event the message opened, or 0;
\* denier: an open call that denied it.
Fresh == [pc |-> "new", active |-> NoCall, seen |-> 0, routed |-> "no",
          opened |-> 0, denier |-> NoCall]

Goto(m, r) == request' = [request EXCEPT ![m] = r]

Look_NoCheck(m) ==
    /\ request[m].pc = "new"
    /\ Goto(m, [request[m] EXCEPT !.pc = "route", !.seen = lastEvent])
    /\ UNCHANGED queueVars

\* _load_message and _get_active_call: the running call, if there is one.
Look(m) ==
    /\ request[m].pc = "new"
    /\ LET r == [request[m] EXCEPT !.seen = lastEvent] IN
       \/ /\ Queue!Running(From[m]) = {}
          /\ Goto(m, [r EXCEPT !.pc = "trigger"])
       \/ \E c \in Queue!Running(From[m]) :
             Goto(m, [r EXCEPT !.pc = "route", !.active = c])
    /\ UNCHANGED queueVars

\* send_to_worker with the entryMessage: the Worker takes it.
RouteDelivered(m) ==
    LET r == request[m] IN
    /\ r.pc = "route"
    /\ Goto(m, [r EXCEPT !.pc = "trigger",
                         !.routed = IF r.active \in Queue!Running(From[m])
                                    THEN "live" ELSE "late"])
    /\ UNCHANGED queueVars

\* Or it does not; the handler goes on all the same.
RouteFailed(m) ==
    /\ request[m].pc = "route"
    /\ Goto(m, [request[m] EXCEPT !.pc = "trigger"])
    /\ UNCHANGED queueVars

\* spine_ensure_call without a scenario_id, in a free slot: the message opens
\* all trigger scenarios of the phone.  When the answer is lost the request
\* fails, the calls stay.
TriggerOpens(m) ==
    /\ request[m].pc = "trigger"
    /\ \E batch \in Queue!Requests("trigger") : \E first \in Queue!RunsFirst(batch) :
          Queue!EnsureCreate(From[m], "trigger", batch, first)
    /\ \E next \in {"init", "failed"} :
          Goto(m, [request[m] EXCEPT !.pc = next, !.opened = lastEvent + 1])

\* The same against an open call: denied, and nothing is written.
TriggerDenied(m) ==
    /\ request[m].pc = "trigger"
    /\ \E c \in Queue!OpenCalls(From[m]) :
          Goto(m, [request[m] EXCEPT !.pc = "done", !.denier = c])
    /\ UNCHANGED queueVars

\* The phone has no trigger scenario, or the contact is not active.
TriggerEmpty(m) ==
    /\ request[m].pc = "trigger"
    /\ Goto(m, [request[m] EXCEPT !.pc = "done"])
    /\ UNCHANGED queueVars

\* send_to_worker with the init, whatever the Worker answers.
SendInit(m) ==
    /\ request[m].pc = "init"
    /\ Goto(m, [request[m] EXCEPT !.pc = "done"])
    /\ UNCHANGED queueVars

\* What goes on beside: ensures of one scenario by its id, summaries, sweeps.
Beside ==
    /\ \/ \E k \in Slots, src \in Sources, s \in Scenarios :
             \/ Queue!EnsureCreate(k, src, {s}, s)
             \/ Queue!EnsureAborted(k, src, s)
       \/ \E c \in Queue!Calls, final \in Closings : Queue!Complete(c, final)
    /\ UNCHANGED request

Init == Queue!Init /\ request = [m \in Messages |-> Fresh]

Handle(m) ==
    \/ Look(m)
    \/ RouteDelivered(m)
    \/ RouteFailed(m)
    \/ TriggerOpens(m)
    \/ TriggerDenied(m)
    \/ TriggerEmpty(m)
    \/ SendInit(m)

Next == Beside \/ \E m \in Messages : Handle(m)

Spec == Init /\ [][Next]_vars

----------------------------------------------------------------------------
(* Properties.                                                              *)

\* The types, and that a message is routed only if a call was read for it.
TypeOK ==
    /\ Queue!TypeOK
    /\ request \in [Messages -> [pc : Labels, active : Queue!Calls \cup {NoCall},
                                 seen : 0 .. MaxEvents, routed : {"no", "live", "late"},
                                 opened : 0 .. MaxEvents, denier : Queue!Calls \cup {NoCall}]]
    /\ \A m \in Messages : request[m].routed # "no" => request[m].active # NoCall

\* A message that is routed to a call and opens others does so only when that
\* call was closed in between: while the call a message went to is open, its
\* trigger is denied, however the messages of the contact interleave.
TwiceOnlyAfterClose ==
    \A m \in Messages :
        request[m].active # NoCall /\ request[m].opened # 0 =>
            status[request[m].active] \in Queue!Final

\* A contact is not shut out: a message for which no call was read is denied
\* only by a call that came after the read.  A queue without a running call
\* would be such a shutter: nothing to route to, and every trigger denied
\* (FLOW.md on the summaries before they promoted the queue).
DeniedByNewcomer ==
    \A m \in Messages :
        request[m].denier # NoCall /\ request[m].active = NoCall =>
            Queue!EventOf(request[m].denier) > request[m].seen

----------------------------------------------------------------------------
(* What the documents say and the code does not do.                         *)

\* The head of incoming.py: a message whose trigger is denied is still routed
\* to the running call.
DeniedIsRouted ==
    \A m \in Messages : request[m].denier # NoCall => request[m].active # NoCall

============================================================================

----------------------------- MODULE CallQueue -----------------------------
(***************************************************************************)
(* The calls table as its two RPCs promise it: spine_ensure_call and       *)
(* spine_complete_call, each one atomic step.  A slot is a pair (phone,    *)
(* contact); the calls of a slot run one at a time.  The rows one ensure   *)
(* inserts share an event_id, so a row is named by its event and scenario. *)
(* CallTx shows how transactions under the advisory lock achieve this      *)
(* atomicity, and CallFlow what the Spine's handlers do around it.         *)
(***************************************************************************)
EXTENDS Integers

CONSTANTS
    Slots,      \* the (phone_id, contact_id) pairs
    Scenarios,  \* the active scenarios of a phone
    Priority,   \* Priority[s]: coalesce(s.priority, 100); a low number runs first
    Sources,    \* who may ask for a call
    Closings,   \* the p_status values callers pass, valid or not
    MaxEvents,  \* bound: how many ensures insert rows
    NoSlot,     \* the slot of an event not inserted yet
    NoSource    \* and its source

ASSUME PriorityAssumption == Priority \in [Scenarios -> Nat]
ASSUME EventsAssumption   == MaxEvents \in Nat
ASSUME SourcesAssumption  == "trigger" \in Sources /\ NoSource \notin Sources
ASSUME SlotsAssumption    == NoSlot \notin Slots

Events == 1 .. MaxEvents
Calls  == Events \X Scenarios

Final     == {"completed", "failed", "aborted", "expired", "timeout"}
Status    == {"absent", "queued", "running"} \cup Final
Deadlines == {"none", "ahead", "past"}

VARIABLES
    lastEvent,  \* the number of events inserted so far
    slotOf,     \* slotOf[e]: the slot of event e's rows
    sourceOf,   \* sourceOf[e]: the source of event e's rows
    status,     \* status[c]: calls.status; "absent" when there is no row
    due         \* due[c]: the clock of a running call: its expected_end is ahead
                \* of now() or past.  "none" where expected_end is null, and for
                \* closed rows, whose expected_end nobody reads

vars == <<lastEvent, slotOf, sourceOf, status, due>>

EventOf(c) == c[1]
Prio(c)    == Priority[c[2]]
SlotOf(c)  == slotOf[EventOf(c)]

Running(k) == {c \in Calls : status[c] = "running" /\ SlotOf(c) = k}
Queued(k)  == {c \in Calls : status[c] = "queued" /\ SlotOf(c) = k}

\* The open calls of a slot: what spine_ensure_call looks for under the lock.
OpenCalls_RunningOnly(k) == Running(k)
OpenCalls_QueuedOnly(k)  == Queued(k)
OpenCalls(k) == Running(k) \cup Queued(k)

\* The rows a complete may promote: the least priority number first.  All the
\* queued rows of a slot have one created_at, so a tie is broken at will.
NextInLine_AnyOrder(k) == Queued(k)
NextInLine(k) == {c \in Queued(k) : \A d \in Queued(k) : Prio(c) <= Prio(d)}

\* What a complete promotes, as a set of at most one call.
Promotions_None(k) == {{}}
Promotions(k) == IF Queued(k) = {} THEN {{}} ELSE {{c} : c \in NextInLine(k)}

\* The scenario of a batch that runs at once: again the least priority (the
\* scenarios' created_at, which breaks ties, is not modelled).
RunsFirst(batch) == {s \in batch : \A r \in batch : Priority[s] <= Priority[r]}

----------------------------------------------------------------------------
(* What the statements of the two RPCs write.  CallTx commits these.        *)

NewEvent(k, src) ==
    /\ lastEvent < MaxEvents
    /\ lastEvent' = lastEvent + 1
    /\ slotOf' = [slotOf EXCEPT ![lastEvent + 1] = k]
    /\ sourceOf' = [sourceOf EXCEPT ![lastEvent + 1] = src]

\* Insert a batch: the first scenario is running and its clock starts, the
\* others are queued without a clock.
InsertBatch(k, src, batch, first) ==
    /\ NewEvent(k, src)
    /\ status' = [c \in Calls |->
                    IF EventOf(c) = lastEvent + 1 /\ c[2] \in batch
                    THEN IF c[2] = first THEN "running" ELSE "queued"
                    ELSE status[c]]
    /\ due' = [due EXCEPT ![<<lastEvent + 1, first>>] = "ahead"]

InsertAborted_Queued(k, src, s, cancelled) ==
    /\ NewEvent(k, src)
    /\ status' = [c \in Calls |->
                    IF c \in cancelled THEN "aborted"
                    ELSE IF c = <<lastEvent + 1, s>> THEN "queued"
                    ELSE status[c]]
    /\ UNCHANGED due

InsertAborted_KeepsQueue(k, src, s, cancelled) ==
    /\ NewEvent(k, src)
    /\ status' = [status EXCEPT ![<<lastEvent + 1, s>>] = "aborted"]
    /\ UNCHANGED due

\* Cancel the queue of the slot and record the request itself as aborted.
InsertAborted(k, src, s, cancelled) ==
    /\ NewEvent(k, src)
    /\ status' = [c \in Calls |->
                    IF c \in cancelled \/ c = <<lastEvent + 1, s>>
                    THEN "aborted"
                    ELSE status[c]]
    /\ UNCHANGED due

CloseAndPromote_NoClock(c, final, promoted) ==
    /\ status' = [d \in Calls |-> IF d = c THEN final
                                  ELSE IF d \in promoted THEN "running"
                                  ELSE status[d]]
    /\ due' = [due EXCEPT ![c] = "none"]
    /\ UNCHANGED <<lastEvent, slotOf, sourceOf>>

CloseAndPromote_Requeue(c, final, promoted) ==
    /\ status' = [d \in Calls |-> IF d = c /\ promoted # {} THEN "queued"
                                  ELSE IF d = c THEN final
                                  ELSE IF d \in promoted THEN "running"
                                  ELSE status[d]]
    /\ due' = [d \in Calls |-> IF d \in promoted THEN "ahead"
                               ELSE IF d = c THEN "none" ELSE due[d]]
    /\ UNCHANGED <<lastEvent, slotOf, sourceOf>>

\* Close a running call and start the promoted one; its clock starts now.
CloseAndPromote(c, final, promoted) ==
    /\ status' = [d \in Calls |-> IF d = c THEN final
                                  ELSE IF d \in promoted THEN "running"
                                  ELSE status[d]]
    /\ due' = [d \in Calls |-> IF d \in promoted THEN "ahead"
                               ELSE IF d = c THEN "none" ELSE due[d]]
    /\ UNCHANGED <<lastEvent, slotOf, sourceOf>>

----------------------------------------------------------------------------
(* The RPCs.  An ensure that is refused (contact unknown or not active, no  *)
(* second factor, no scenario, a trigger against an open call) and a        *)
(* complete of a call that is not running change nothing: they stutter.     *)

\* What an ensure may ask for: a trigger all trigger scenarios of the phone,
\* anybody one scenario by its id.
Requests(src) == {b \in SUBSET Scenarios :
                    b # {} /\ (src = "trigger" \/ \E s \in Scenarios : b = {s})}

\* spine_ensure_call with no open call in the slot.
EnsureCreate(k, src, batch, first) ==
    /\ OpenCalls(k) = {}
    /\ InsertBatch(k, src, batch, first)

\* spine_ensure_call for a named scenario with an open call in the slot.
EnsureAborted(k, src, s) ==
    /\ OpenCalls(k) # {}
    /\ InsertAborted(k, src, s, Queued(k))

Complete_AnyStatus(c, final) ==
    /\ status[c] = "running"
    /\ \E promoted \in Promotions(SlotOf(c)) : CloseAndPromote(c, final, promoted)

\* spine_complete_call of a running call; INVALID_STATUS closes nothing.
Complete(c, final) ==
    /\ final \in Final
    /\ status[c] = "running"
    /\ \E promoted \in Promotions(SlotOf(c)) : CloseAndPromote(c, final, promoted)

\* now() passes the expected_end of a running call.
DeadlinePasses(c) ==
    /\ status[c] = "running"
    /\ due[c] = "ahead"
    /\ due' = [due EXCEPT ![c] = "past"]
    /\ UNCHANGED <<lastEvent, slotOf, sourceOf, status>>

Init ==
    /\ lastEvent = 0
    /\ slotOf = [e \in Events |-> NoSlot]
    /\ sourceOf = [e \in Events |-> NoSource]
    /\ status = [c \in Calls |-> "absent"]
    /\ due = [c \in Calls |-> "none"]

Ensure == \E k \in Slots, src \in Sources :
    \/ \E batch \in Requests(src) : \E first \in RunsFirst(batch) :
          EnsureCreate(k, src, batch, first)
    \/ \E s \in Scenarios : EnsureAborted(k, src, s)

Next ==
    \/ Ensure
    \/ \E c \in Calls, final \in Closings : Complete(c, final)
    \/ \E c \in Calls : DeadlinePasses(c)

Spec == Init /\ [][Next]_vars

----------------------------------------------------------------------------
(* Properties.                                                              *)

\* The variables have their types.
TypeOK ==
    /\ lastEvent \in 0 .. MaxEvents
    /\ slotOf \in [Events -> Slots \cup {NoSlot}]
    /\ sourceOf \in [Events -> Sources \cup {NoSource}]
    /\ status \in [Calls -> Status]
    /\ due \in [Calls -> Deadlines]

\* A contact talks to one scenario at a time: a slot has at most one running
\* call.  The SQL leaves this to the advisory lock and the open-call test; the
\* unique index uniq_running_call_per_contact would turn a failure of it into
\* an aborted transaction.
AtMostOneRunning ==
    \A c, d \in Calls : /\ status[c] = "running"
                        /\ status[d] = "running"
                        /\ SlotOf(c) = SlotOf(d)
                        => c = d

\* Nothing waits for nobody: only the close of a running call promotes, so a
\* queued row in a slot without a running one would wait for ever, and would
\* have every later trigger of the contact denied.
NoOrphanQueue ==
    \A c \in Calls : status[c] = "queued" =>
        \E d \in Calls : status[d] = "running" /\ SlotOf(d) = SlotOf(c)

\* The open calls of a slot come from one message: a queue is the rest of the
\* batch its running call is of, and a call somebody asked for by name
\* (scheduler, api, manual) never waits.  (src/README.md:63-68 has a trigger
\* against an open call queued, with 202 CALL_QUEUED.  That is an older policy:
\* the RPC turns it away, ensure sql:119-204, as FLOW.md:25 says.)
QueueIsOneBatch ==
    \A c, d \in Calls :
        status[c] = "queued" /\ status[d] \in {"queued", "running"}
            /\ SlotOf(c) = SlotOf(d)
        => EventOf(c) = EventOf(d) /\ sourceOf[EventOf(c)] = "trigger"

\* A batch runs in order of priority, whatever is cancelled or closed on the
\* way: while a call waits, no call of its batch of a higher number has left
\* the queue.
BatchRunsInPriorityOrder ==
    \A c, d \in Calls :
        EventOf(c) = EventOf(d) /\ status[c] = "queued"
            /\ status[d] \notin {"absent", "queued"}
        => Prio(d) <= Prio(c)

\* The sweeper finds every running call in the end: expected_end is set in the
\* step to running and never before, so a call does not use up its time in the
\* queue (the third correction named at the head of Complete_call.sql).
ClockRunsWithCall ==
    \A c \in Calls : status[c] = "running" <=> due[c] # "none"

\* What a step may do to a row.  A closed call stays as it was closed; a
\* running call is only ever closed; a waiting call starts in the very step
\* that closes the running call of its slot; and when a waiting call is
\* cancelled, no running call is touched.
LegalTransitions ==
    \A c \in Calls :
        /\ status[c] \in Final => status'[c] = status[c]
        /\ status[c] = "running" => status'[c] \in {"running"} \cup Final
        /\ status[c] = "queued" => status'[c] \in {"queued", "running", "aborted"}
        /\ status[c] = "queued" /\ status'[c] = "running" =>
             \E d \in Calls : /\ SlotOf(d) = SlotOf(c)
                              /\ status[d] = "running"
                              /\ status'[d] \in Final
        /\ status[c] = "queued" /\ status'[c] = "aborted" =>
             \A d \in Calls : status[d] = "running" => status'[d] = "running"

RowsMoveLegally == [][LegalTransitions]_vars

\* The RPCs keep the promise of Contact (FLOW.md, the table of who may start):
\* one call at a time, the waiting ones in order and without a gap between two,
\* cancelled only together, and no call that is over ever comes back.  Running
\* rows talk, queued rows wait, closed rows are gone.  (The older table of
\* src/README.md:63-68 promises more to a trigger; see QueueIsOneBatch.)
Serves == INSTANCE Contact WITH
    talking <- [k \in Slots |-> Running(k)],
    waiting <- [k \in Slots |-> Queued(k)],
    gone    <- {c \in Calls : status[c] \in Final},
    Rank    <- Prio

ServesContacts == Serves!Spec

============================================================================

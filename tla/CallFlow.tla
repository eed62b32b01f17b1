------------------------------ MODULE CallFlow ------------------------------
(***************************************************************************)
(* The Spine's handlers around the two RPCs: they create calls, send init  *)
(* to the Worker, release the calls it could not be sent for, take the     *)
(* Worker's summaries and sweep the calls that outlive their expected_end. *)
(* Every await of a handler ends a step, so handlers interleave; a handler *)
(* may die at any of them (an exception or a restart of the Spine).  The   *)
(* Worker is external: the model has the calls it runs and the summaries   *)
(* it owes.                                                                *)
(***************************************************************************)
EXTENDS Integers, FiniteSets

CONSTANTS Slots, Scenarios, Priority, Sources, Closings, MaxEvents, NoSlot, NoSource,
          Handlers,    \* the requests the Spine works on at a time
          Attempts,    \* INIT_RETRY_ATTEMPTS
          MaxChain,    \* MAX_PROMOTE_CHAIN
          SweepLimit,  \* SweepReq.limit
          MaxFaults,   \* bound: how many deaths of handlers and of the Worker
          NoCall

ASSUME BoundsAssumption ==
    /\ Attempts \in Nat \ {0} /\ MaxChain \in Nat \ {0} /\ SweepLimit \in Nat \ {0}
    /\ MaxFaults \in Nat

\* What CallQueue assumes of its constants.
ASSUME QueueAssumption ==
    /\ Priority \in [Scenarios -> Nat] /\ MaxEvents \in Nat
    /\ "trigger" \in Sources /\ NoSource \notin Sources /\ NoSlot \notin Slots

VARIABLES
    lastEvent, slotOf, sourceOf, status, due,  \* the calls table, as in CallQueue
    task,       \* task[h]: what handler h is doing
    worker,     \* worker[c]: the Worker runs c, or has ended it and posts its summary
    notified,   \* notified[c]: the notifications inserted for c
    stranded,   \* history: running calls whose init or summary was given up
    faults      \* the deaths so far

queueVars == <<lastEvent, slotOf, sourceOf, status, due>>
vars == <<lastEvent, slotOf, sourceOf, status, due, task, worker, notified, stranded,
          faults>>

Queue == INSTANCE CallQueue

\* POST /api/calls/ensure, POST /calls, POST /incoming, POST .../summary,
\* POST .../complete and POST .../sweep.
Jobs == {"ensure", "manual", "incoming", "summary", "complete", "sweep"}

\* These go through deliver_init_or_release; the others send init once.
Releasing == {"ensure", "complete", "sweep"}

\* The endpoints a request of a source comes through.  Only an incoming message
\* asks for more than one scenario.
JobsOf(src, batch) ==
    CASE src = "trigger" -> {"incoming"} \cup {j \in {"ensure"} : Cardinality(batch) = 1}
      [] src = "manual"  -> {"manual"}
      [] OTHER           -> {"ensure"}

Labels == {"idle", "send", "release", "close", "notify", "created", "unavailable"}

\* subject: the call the request is about; target: the call whose init the
\* handler has to send; todo: the rows the sweep has still to close.
Idle == [pc |-> "idle", job |-> "none", subject |-> NoCall, target |-> NoCall,
         tries |-> 0, chain |-> 0, todo |-> {}]

Busy(job, c) == [Idle EXCEPT !.job = job, !.subject = c]

\* A call that turned running in the last RPC of the task: its init is next.
Sending(w, c) == [w EXCEPT !.pc = "send", !.target = c, !.tries = 0]

\* What follows when there is no init left to send: a summary notifies, an
\* ensure answers 201 or 503, a sweep goes on with its list.
Finished(w) ==
    CASE w.job = "summary" -> [w EXCEPT !.pc = "notify", !.target = NoCall]
      [] w.job = "ensure"  -> [w EXCEPT !.pc = "unavailable", !.target = NoCall]
      [] w.job = "sweep" /\ w.todo # {} ->
           [Idle EXCEPT !.pc = "close", !.job = "sweep", !.todo = w.todo]
      [] OTHER -> Idle

RunningIn(S) == {c \in S : status[c] = "running"}

Delivering(h, c) == task[h].pc \in {"send", "release"} /\ task[h].target = c

----------------------------------------------------------------------------
(* Creating calls.                                                          *)

\* An ensure whose RPC answered running.
CreateCall(h, k, src, batch, first, job) ==
    /\ task[h].pc = "idle"
    /\ Queue!EnsureCreate(k, src, batch, first)
    /\ task' = [task EXCEPT ![h] =
         Sending(Busy(job, <<lastEvent + 1, first>>), <<lastEvent + 1, first>>)]
    /\ UNCHANGED <<worker, notified, stranded, faults>>

\* An ensure whose RPC answered aborted: the request is over, with a 409.
RefuseCall(k, src, s) ==
    /\ Queue!EnsureAborted(k, src, s)
    /\ UNCHANGED <<task, worker, notified, stranded, faults>>

----------------------------------------------------------------------------
(* send_to_worker with an init.                                             *)

\* The Worker answered 200.
InitDelivered(h) ==
    LET w == task[h] IN
    /\ w.pc = "send"
    /\ worker' = [worker EXCEPT ![w.target] = "runs"]
    /\ task' = [task EXCEPT ![h] =
                  IF w.job = "ensure" /\ w.target = w.subject
                  THEN [w EXCEPT !.pc = "created", !.target = NoCall]
                  ELSE Finished(w)]
    /\ UNCHANGED <<queueVars, notified, stranded, faults>>

InitFailed_OneTooMany(h) ==
    LET w == task[h] IN
    /\ w.pc = "send"
    /\ task' = [task EXCEPT ![h] = IF w.tries + 1 <= Attempts
                                   THEN [w EXCEPT !.tries = @ + 1]
                                   ELSE [w EXCEPT !.pc = "release"]]
    /\ UNCHANGED <<queueVars, worker, notified, stranded, faults>>

\* The Worker did not answer 200: no row of a running worker, a refusal, a
\* failed connection, or an answer lost after the Worker took the call.
InitFailed(h) ==
    LET w == task[h] IN
    /\ w.pc = "send"
    /\ worker' \in {worker, [worker EXCEPT ![w.target] = "runs"]}
    /\ \/ /\ w.job \in Releasing /\ w.tries + 1 < Attempts
          /\ task' = [task EXCEPT ![h].tries = w.tries + 1]
          /\ UNCHANGED stranded
       \/ /\ w.job \in Releasing /\ w.tries + 1 >= Attempts
          /\ task' = [task EXCEPT ![h].pc = "release"]
          /\ UNCHANGED stranded
       \/ /\ w.job \notin Releasing
          /\ task' = [task EXCEPT ![h] = Finished(w)]
          /\ stranded' = stranded \cup RunningIn({w.target})
    /\ UNCHANGED <<queueVars, notified, faults>>

Release_KeepsCall(h) ==
    /\ task[h].pc = "release"
    /\ task' = [task EXCEPT ![h] = Finished(task[h])]
    /\ UNCHANGED <<queueVars, worker, notified, stranded, faults>>

\* deliver_init_or_release gives the call up: complete_call as aborted.  If
\* that promotes the next call, its init is sent in the same way, but no more
\* than MAX_PROMOTE_CHAIN times: the call promoted last is left running.
Release(h) ==
    LET w == task[h] IN
    /\ w.pc = "release"
    /\ IF status[w.target] = "running"
       THEN \E promoted \in Queue!Promotions(Queue!SlotOf(w.target)) :
              /\ Queue!CloseAndPromote(w.target, "aborted", promoted)
              /\ IF promoted # {} /\ w.chain + 1 < MaxChain
                 THEN /\ \E c \in promoted :
                           task' = [task EXCEPT ![h] =
                                      Sending([w EXCEPT !.chain = w.chain + 1], c)]
                      /\ stranded' = stranded \ {w.target}
                 ELSE /\ task' = [task EXCEPT ![h] = Finished(w)]
                      /\ stranded' = (stranded \ {w.target}) \cup promoted
       ELSE /\ task' = [task EXCEPT ![h] = Finished(w)]
            /\ UNCHANGED <<queueVars, stranded>>
    /\ UNCHANGED <<worker, notified, faults>>

\* ensure answers 201, or 503 WORKER_UNAVAILABLE.
Answer(h) ==
    /\ task[h].pc \in {"created", "unavailable"}
    /\ task' = [task EXCEPT ![h] = Idle]
    /\ UNCHANGED <<queueVars, worker, notified, stranded, faults>>

----------------------------------------------------------------------------
(* Closing calls.                                                           *)

StartClose(h, w) ==
    /\ task[h].pc = "idle"
    /\ task' = [task EXCEPT ![h] = [w EXCEPT !.pc = "close"]]
    /\ UNCHANGED <<queueVars, worker, notified, stranded, faults>>

\* The Worker posts a summary, for the first time or again.
PostSummary(h, c) ==
    /\ worker[c] = "ended"
    /\ StartClose(h, Busy("summary", c))

\* POST /api/calls/{id}/complete; of a call that is not running it is void.
PostComplete(h, c) ==
    /\ status[c] = "running"
    /\ StartClose(h, Busy("complete", c))

Stuck_AnyRunning == {c \in Queue!Calls : status[c] = "running"}

\* The rows the sweep selects: running and past their expected_end.
Stuck == {c \in Queue!Calls : status[c] = "running" /\ due[c] = "past"}

\* POST /api/calls/sweep reads its list, the first SweepLimit by expected_end.
\* The Scheduler stops waiting after 60 seconds and the sweep goes on, so two
\* of them may overlap.
PostSweep(h) ==
    /\ Stuck # {}
    /\ \E todo \in SUBSET Stuck :
         /\ \/ Cardinality(todo) = SweepLimit
            \/ Cardinality(todo) < SweepLimit /\ todo = Stuck
         /\ StartClose(h, [Busy("sweep", NoCall) EXCEPT !.todo = todo])

\* The statuses a handler closes a call with.
ClosesWith(job) == IF job = "sweep" THEN {"expired"} ELSE Closings \cap Queue!Final

\* complete_call closes the call and the handler goes on with the promoted one.
CloseRunning(h, v) ==
    /\ status[v.subject] = "running"
    /\ \E final \in ClosesWith(v.job), promoted \in Queue!Promotions(Queue!SlotOf(v.subject)) :
          /\ Queue!CloseAndPromote(v.subject, final, promoted)
          /\ \/ promoted = {} /\ task' = [task EXCEPT ![h] = Finished(v)]
             \/ \E d \in promoted : task' = [task EXCEPT ![h] = Sending(v, d)]
    /\ stranded' = stranded \ {v.subject}

AlreadyClosed_Notifies(h, v) ==
    /\ status[v.subject] # "running"
    /\ task' = [task EXCEPT ![h] = Finished(v)]
    /\ UNCHANGED <<queueVars, stranded>>

AlreadyClosed_Resends(h, v) ==
    /\ status[v.subject] # "running"
    /\ \E d \in Queue!Running(Queue!SlotOf(v.subject)) :
          task' = [task EXCEPT ![h] = Sending(v, d)]
    /\ UNCHANGED <<queueVars, stranded>>

\* complete_call answers CALL_NOT_RUNNING: a summary of a closed call is a
\* repeated one and does not notify; a sweep goes on with its list.
AlreadyClosed(h, v) ==
    /\ status[v.subject] # "running"
    /\ task' = [task EXCEPT ![h] = IF v.job = "summary" THEN Idle ELSE Finished(v)]
    /\ UNCHANGED <<queueVars, stranded>>

\* A handler closes the call of its request, a sweep the calls of its list one
\* after the other (in the order of expected_end, which the model leaves open).
CloseCall(h) ==
    LET w == task[h] IN
    /\ w.pc = "close"
    /\ \E c \in IF w.job = "sweep" THEN w.todo ELSE {w.subject} :
         LET v == [w EXCEPT !.subject = c, !.todo = @ \ {c}] IN
         CloseRunning(h, v) \/ AlreadyClosed(h, v)
    /\ UNCHANGED <<worker, notified, faults>>

\* _notify_summary inserts the notification; the request is over.
Notify(h) ==
    /\ task[h].pc = "notify"
    /\ notified' = [notified EXCEPT ![task[h].subject] = @ + 1]
    /\ task' = [task EXCEPT ![h] = Idle]
    /\ UNCHANGED <<queueVars, worker, stranded, faults>>

----------------------------------------------------------------------------
(* The Worker, the clock and the faults.                                    *)

\* The Worker ends a call and has a summary to post.
WorkerEnds(c) ==
    /\ worker[c] = "runs"
    /\ worker' = [worker EXCEPT ![c] = "ended"]
    /\ UNCHANGED <<queueVars, task, notified, stranded, faults>>

\* The Worker restarts: the calls it ran and the summaries it owed are lost.
WorkerRestarts ==
    /\ faults < MaxFaults
    /\ \E c \in Queue!Calls : worker[c] # "none"
    /\ worker' = [c \in Queue!Calls |-> "none"]
    /\ stranded' = stranded \cup RunningIn({c \in Queue!Calls : worker[c] # "none"})
    /\ faults' = faults + 1
    /\ UNCHANGED <<queueVars, task, notified>>

\* A handler dies: an RPC whose answer is lost raises, and so does a failed
\* read of the row of the promoted call; or the Spine is restarted.
HandlerDies(h) ==
    /\ faults < MaxFaults
    /\ task[h].pc # "idle"
    /\ task' = [task EXCEPT ![h] = Idle]
    /\ stranded' = stranded \cup RunningIn({c \in Queue!Calls : Delivering(h, c)})
    /\ faults' = faults + 1
    /\ UNCHANGED <<queueVars, worker, notified>>

DeadlinePasses(c) ==
    /\ Queue!DeadlinePasses(c)
    /\ UNCHANGED <<task, worker, notified, stranded, faults>>

Init ==
    /\ Queue!Init
    /\ task = [h \in Handlers |-> Idle]
    /\ worker = [c \in Queue!Calls |-> "none"]
    /\ notified = [c \in Queue!Calls |-> 0]
    /\ stranded = {}
    /\ faults = 0

Handle(h) ==
    \/ InitDelivered(h)
    \/ InitFailed(h)
    \/ Release(h)
    \/ Answer(h)
    \/ CloseCall(h)
    \/ Notify(h)

Ensure == \E k \in Slots, src \in Sources :
    \/ \E h \in Handlers, batch \in Queue!Requests(src) :
          \E first \in Queue!RunsFirst(batch), job \in JobsOf(src, batch) :
             CreateCall(h, k, src, batch, first, job)
    \/ \E s \in Scenarios : RefuseCall(k, src, s)

Next ==
    \/ Ensure
    \/ \E h \in Handlers : Handle(h) \/ PostSweep(h) \/ HandlerDies(h)
    \/ \E h \in Handlers, c \in Queue!Calls : PostSummary(h, c) \/ PostComplete(h, c)
    \/ \E c \in Queue!Calls : WorkerEnds(c) \/ DeadlinePasses(c)
    \/ WorkerRestarts

Spec == Init /\ [][Next]_vars

\* Handlers go on, time passes, and the Scheduler asks for sweeps for ever.
\* Nothing is asked of the Worker, nor of whoever posts anything else.
Fairness ==
    /\ \A h \in Handlers : WF_vars(Handle(h))
    /\ SF_vars(\E h \in Handlers : PostSweep(h))
    /\ \A c \in Queue!Calls : WF_vars(DeadlinePasses(c))

FairSpec == Spec /\ Fairness

----------------------------------------------------------------------------
(* Properties.                                                              *)

Tasks == [pc : Labels, job : Jobs \cup {"none"}, subject : Queue!Calls \cup {NoCall},
          target : Queue!Calls \cup {NoCall}, tries : 0 .. Attempts - 1,
          chain : 0 .. MaxChain - 1, todo : SUBSET Queue!Calls]

\* The variables have their types.
TypeOK ==
    /\ Queue!TypeOK
    /\ task \in [Handlers -> Tasks]
    /\ worker \in [Queue!Calls -> {"none", "runs", "ended"}]
    /\ notified \in [Queue!Calls -> Nat]
    /\ stranded \subseteq {c \in Queue!Calls : status[c] = "running"}
    /\ faults \in 0 .. MaxFaults

\* No running call is forgotten: the Worker runs it or owes its summary, or a
\* handler is about to send its init, or it was given up at one of the places
\* that do so: a single send that failed (incoming, manual, summary), the end
\* of a promotion chain, a death.  For those the sweep is the only way out.
RunningIsAttended ==
    \A c \in Queue!Calls : status[c] = "running" =>
        \/ worker[c] # "none"
        \/ c \in stranded
        \/ \E h \in Handlers : Delivering(h, c)

\* The init of a call is sent by one handler: the one whose RPC made the call
\* running, however ensures, completes, summaries and sweeps interleave.
OneSenderPerInit ==
    \A g, h \in Handlers, c \in Queue!Calls :
        Delivering(g, c) /\ Delivering(h, c) => g = h

\* A summary notifies once, though the Worker posts it again, two copies are
\* handled at once, or the sweep is closing the same call.
NotifiedAtMostOnce == \A c \in Queue!Calls : notified[c] <= 1

\* When ensure answers 503 the slot is free of the call it had created, as the
\* head of dispatch.py promises the Scheduler, which is going to try again.
UnavailableIsReleased ==
    \A h \in Handlers : task[h].pc = "unavailable" =>
        status[task[h].subject] \in Queue!Final

\* A sweep never takes a call that still has time: not one promoted while it
\* works down its list, and not when another sweep runs beside it.
SweepSparesCallsOnTime ==
    \A h \in Handlers, c \in Queue!Calls :
        c \in task[h].todo /\ status[c] = "running" => due[c] = "past"

\* The safety net holds: whatever dies, every running call is closed in the
\* end.
EveryCallEnds ==
    \A c \in Queue!Calls : status[c] = "running" ~> status[c] \in Queue!Final

\* And every waiting call gets its turn or is cancelled.
QueueDrains ==
    \A c \in Queue!Calls : status[c] = "queued" ~> status[c] # "queued"

----------------------------------------------------------------------------

\* The head of dispatch.py and deliver_init_or_release say that a call is
\* released if its init was not delivered.  It does not hold: an answer that is
\* lost, or later than the 10 seconds send_to_worker waits, counts as not
\* delivered, and a call the Worker runs is closed as aborted.
ReleasesOnlyUndelivered ==
    \A h \in Handlers :
        task[h].pc = "release" /\ status[task[h].target] = "running"
            => worker[task[h].target] = "none"

============================================================================

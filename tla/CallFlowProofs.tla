--------------------------- MODULE CallFlowProofs ---------------------------
(***************************************************************************)
(* CallFlow for any number of slots, scenarios, events, handlers, retries, *)
(* chains and faults: no running call is forgotten, its init is sent by    *)
(* one handler, its summary notifies once, and a sweep takes nobody who is *)
(* still on time, however the handlers interleave and whatever dies.       *)
(***************************************************************************)
EXTENDS CallFlow, TLAPS

\* The theorems of CallQueue, for the calls table.  Besides the statuses that
\* are posted the Spine closes calls as aborted and expired itself.
Proved == INSTANCE CallQueueProofs WITH Closings <- Closings \cup {"aborted", "expired"}

\* A call that has been started, and may be over by now.
Begun(c) == status[c] \in {"running"} \cup Queue!Final

\* The call whose init the task w has to send or has given up.
Delivers(w, c) == w.pc \in {"send", "release"} /\ w.target = c

\* The closed call whose summary the task w is going to notify.
Announces(w, c) == w.job = "summary" /\ w.pc \in {"send", "notify"} /\ w.subject = c

\* What a handler relies on between two of its steps.
TaskFits(h) ==
    LET w == task[h] IN
    /\ w.pc # "idle" => w.job # "none"
    /\ w.job \notin {"none", "sweep"} => w.subject \in Queue!Calls
    /\ w.pc \in {"send", "release"} => w.target \in Queue!Calls /\ Begun(w.target)
    /\ w.pc = "release" => w.job \in Releasing
    /\ w.pc = "notify" => w.job = "summary"
    /\ w.pc \in {"created", "unavailable"} => w.job = "ensure"
    /\ w.pc = "close" => w.job \in {"summary", "complete", "sweep"}
    /\ w.job = "ensure" /\ w.pc \in {"send", "release"} =>
         w.target = w.subject \/ status[w.subject] \in Queue!Final
    /\ w.pc = "unavailable" => status[w.subject] \in Queue!Final
    /\ \A c \in w.todo : Begun(c) /\ (status[c] = "running" => due[c] = "past")
    /\ \A c \in Queue!Calls : Announces(w, c) => status[c] \in Queue!Final /\ notified[c] = 0

\* One handler at most is going to notify of a call.
OneAnnouncer ==
    \A g, h \in Handlers, c \in Queue!Calls :
        Announces(task[g], c) /\ Announces(task[h], c) => g = h

\* A call is notified of once at most, and only when it is closed.
NotifiedIsClosed ==
    \A c \in Queue!Calls : /\ notified[c] <= 1
                           /\ notified[c] # 0 => status[c] \in Queue!Final

\* The inductive invariant of the handlers.
FlowInv ==
    /\ TypeOK
    /\ \A h \in Handlers : TaskFits(h)
    /\ RunningIsAttended
    /\ OneSenderPerInit
    /\ OneAnnouncer
    /\ NotifiedIsClosed

----------------------------------------------------------------------------
(* From the theorems of CallQueue to the calls table.                       *)

\* Init does not mention Closings: it is the same for both instances.
LEMMA SameInit == Queue!Init <=> Proved!Init
  BY DEF Queue!Init, Queue!Events, Queue!Calls, Proved!Init, Proved!Events, Proved!Calls

\* The RPCs the handlers make are steps of the table.
LEMMA CreateIsRpc ==
    ASSUME NEW k \in Slots, NEW src \in Sources, NEW batch \in Queue!Requests(src),
           NEW first \in Queue!RunsFirst(batch), Queue!EnsureCreate(k, src, batch, first)
    PROVE  Proved!Next
<1>1. /\ batch \in Proved!Requests(src) /\ first \in Proved!RunsFirst(batch)
      /\ Proved!EnsureCreate(k, src, batch, first)
  BY DEF Queue!Requests, Queue!RunsFirst, Queue!EnsureCreate, Queue!InsertBatch, Queue!NewEvent,
     Queue!OpenCalls, Queue!Running, Queue!Queued, Queue!SlotOf, Queue!EventOf, Queue!Calls,
     Queue!Events, Proved!Requests, Proved!RunsFirst, Proved!EnsureCreate, Proved!InsertBatch,
     Proved!NewEvent, Proved!OpenCalls, Proved!Running, Proved!Queued, Proved!SlotOf,
     Proved!EventOf, Proved!Calls, Proved!Events
<1> QED  BY <1>1 DEF Proved!Next, Proved!Ensure

\* The refused call of a manual start is the ensure of CallQueue.
LEMMA RefuseIsRpc ==
    ASSUME NEW k \in Slots, NEW src \in Sources, NEW s \in Scenarios,
           Queue!EnsureAborted(k, src, s)
    PROVE  Proved!Next
<1>1. Proved!EnsureAborted(k, src, s)
  BY DEF Queue!EnsureAborted, Queue!InsertAborted, Queue!NewEvent, Queue!OpenCalls, Queue!Running,
     Queue!Queued, Queue!SlotOf, Queue!EventOf, Queue!Calls, Queue!Events,
     Proved!EnsureAborted, Proved!InsertAborted, Proved!NewEvent, Proved!OpenCalls,
     Proved!Running, Proved!Queued, Proved!SlotOf, Proved!EventOf, Proved!Calls, Proved!Events
<1> QED  BY <1>1 DEF Proved!Next, Proved!Ensure

\* Every close of a handler is a complete of CallQueue.
LEMMA CloseIsRpc ==
    ASSUME NEW c \in Queue!Calls, status[c] = "running",
           NEW final \in (Closings \cap Queue!Final) \cup {"aborted", "expired"},
           NEW promoted \in Queue!Promotions(Queue!SlotOf(c)),
           Queue!CloseAndPromote(c, final, promoted)
    PROVE  Proved!Next
<1>1. /\ c \in Proved!Calls /\ final \in Proved!Final
      /\ final \in Closings \cup {"aborted", "expired"}
  BY DEF Queue!Calls, Queue!Events, Queue!Final, Proved!Calls, Proved!Events, Proved!Final
<1>2. /\ promoted \in Proved!Promotions(Proved!SlotOf(c))
      /\ Proved!CloseAndPromote(c, final, promoted)
  BY DEF Queue!Promotions, Queue!NextInLine, Queue!CloseAndPromote, Queue!Prio, Queue!Queued,
     Queue!SlotOf, Queue!EventOf, Queue!Calls, Queue!Events, Proved!Promotions,
     Proved!NextInLine, Proved!CloseAndPromote, Proved!Prio, Proved!Queued, Proved!SlotOf,
     Proved!EventOf, Proved!Calls, Proved!Events
<1>3. Proved!Complete(c, final)
  BY <1>1, <1>2 DEF Proved!Complete
<1> QED  BY <1>1, <1>3 DEF Proved!Next

\* A deadline that passes is one of CallQueue.
LEMMA ClockIsStep ==
    ASSUME NEW c \in Queue!Calls, Queue!DeadlinePasses(c)
    PROVE  Proved!Next
<1>1. c \in Proved!Calls /\ Proved!DeadlinePasses(c)
  BY DEF Queue!Calls, Queue!Events, Queue!DeadlinePasses, Proved!Calls, Proved!Events,
     Proved!DeadlinePasses
<1> QED  BY <1>1 DEF Proved!Next

\* What the proofs below need of the inductive invariant of CallQueue.
LEMMA QueueFacts ==
    Proved!Inv => /\ Queue!TypeOK
                  /\ \A c \in Queue!Calls : status[c] # "absent" =>
                        Queue!EventOf(c) \in 1 .. lastEvent
  BY DEF Proved!Inv, Proved!TypeOK, Proved!RowsHaveEvents, Proved!Calls, Proved!Events,
     Proved!Status, Proved!Final, Proved!Deadlines, Proved!SlotOf, Proved!EventOf, Queue!TypeOK,
     Queue!Calls, Queue!Events, Queue!Status, Queue!Final, Queue!Deadlines, Queue!SlotOf,
     Queue!EventOf

\* The types of the table, from its invariant.
LEMMA QueueFactsPrimed == Proved!Inv' => Queue!TypeOK'
  BY DEF Proved!Inv, Proved!TypeOK, Proved!Calls, Proved!Events, Proved!Status, Proved!Final,
     Proved!Deadlines, Queue!TypeOK, Queue!Calls, Queue!Events, Queue!Status, Queue!Final,
     Queue!Deadlines

\* The invariant of CallQueue at the start.
LEMMA QueueInit == Queue!Init => Proved!Inv
  BY SameInit, QueueAssumption, Proved!InitInv DEF Proved!InitInv, Proved!PriorityAssumption,
     Proved!EventsAssumption, Proved!SourcesAssumption, Proved!SlotsAssumption

\* The invariant of CallQueue along the steps of CallQueue.
LEMMA QueueNext == Proved!Inv /\ [Proved!Next]_(Proved!vars) => Proved!Inv'
  BY QueueAssumption, Proved!NextInv DEF Proved!NextInv, Proved!PriorityAssumption,
     Proved!EventsAssumption, Proved!SourcesAssumption, Proved!SlotsAssumption

\* What a step of the table does to the call a handler has in hand: a closed
\* call stays closed, a running one is at most closed and its clock not set
\* back, and no call is running that was not running or waiting or new.
RowsMove ==
    \A c \in Queue!Calls :
        /\ status[c] \in Queue!Final => status'[c] \in Queue!Final
        /\ status[c] = "running" => status'[c] \in {"running"} \cup Queue!Final
        /\ status[c] = "running" /\ status'[c] = "running" => due'[c] \in {due[c], "past"}

\* The rows move as CallQueue lets them.
LEMMA QueueMoves == Proved!Inv /\ [Proved!Next]_(Proved!vars) => RowsMove
<1> SUFFICES ASSUME Proved!Inv, [Proved!Next]_(Proved!vars) PROVE RowsMove
  OBVIOUS
<1>1. Proved!RowsStay
  BY QueueAssumption, Proved!StepKeepsRows DEF Proved!StepKeepsRows,
     Proved!PriorityAssumption, Proved!EventsAssumption, Proved!SourcesAssumption,
     Proved!SlotsAssumption
<1>2. Proved!LegalTransitions \/ UNCHANGED status
  BY QueueAssumption, Proved!StepLegal DEF Proved!StepLegal, Proved!vars,
     Proved!PriorityAssumption, Proved!EventsAssumption, Proved!SourcesAssumption,
     Proved!SlotsAssumption
<1>3. \A c \in Queue!Calls :
         /\ status[c] \in Queue!Final => status'[c] = status[c]
         /\ status[c] = "running" => status'[c] \in {"running"} \cup Queue!Final
  BY <1>2 DEF Proved!LegalTransitions, Proved!Calls, Proved!Events, Proved!Final,
     Queue!Calls, Queue!Events, Queue!Final
<1>4. \A c \in Queue!Calls :
         status[c] = "running" /\ status'[c] = "running" => due'[c] \in {due[c], "past"}
  BY <1>1 DEF Proved!RowsStay, Proved!Calls, Proved!Events, Queue!Calls, Queue!Events
<1> QED  BY <1>3, <1>4 DEF RowsMove

\* An RPC that creates or refuses a call leaves the running ones running.
LEMMA EnsureKeepsRunning ==
    ASSUME Proved!Inv, NEW k, NEW src,
           \/ \E batch, first : Queue!EnsureCreate(k, src, batch, first)
           \/ \E s : Queue!EnsureAborted(k, src, s)
    PROVE  \A c \in Queue!Calls : status[c] = "running" => status'[c] = "running"
<1>1. \A c \in Queue!Calls : status[c] = "running" => Queue!EventOf(c) # lastEvent + 1
  BY QueueFacts DEF Queue!TypeOK
<1>2. ASSUME NEW batch, NEW first, Queue!EnsureCreate(k, src, batch, first),
             NEW c \in Queue!Calls, status[c] = "running"
      PROVE  status'[c] = "running"
  BY <1>1, <1>2 DEF Queue!EnsureCreate, Queue!InsertBatch
<1>3. ASSUME NEW s, Queue!EnsureAborted(k, src, s), NEW c \in Queue!Calls, status[c] = "running"
      PROVE  status'[c] = "running"
  <2>1. c # <<lastEvent + 1, s>>
    BY <1>1, <1>3 DEF Queue!EventOf
  <2>2. c \notin Queue!Queued(k)
    BY <1>3 DEF Queue!Queued
  <2> QED  BY <1>3, <2>1, <2>2 DEF Queue!EnsureAborted, Queue!InsertAborted
<1> QED  BY <1>2, <1>3

\* A close ends one running call, starts the calls it promotes, which were
\* waiting, and changes no other row.
LEMMA CloseEffect ==
    ASSUME Queue!TypeOK, NEW c \in Queue!Calls, status[c] = "running",
           NEW final \in Queue!Final, NEW promoted \in Queue!Promotions(Queue!SlotOf(c)),
           Queue!CloseAndPromote(c, final, promoted)
    PROVE  /\ status'[c] \in Queue!Final
           /\ \A d \in promoted : d \in Queue!Calls /\ status[d] = "queued" /\ status'[d] = "running"
           /\ \A d \in Queue!Calls : d # c /\ d \notin promoted => status'[d] = status[d]
           /\ \/ promoted = {}
              \/ \E d \in promoted : promoted = {d}
<1>1. \A d \in promoted : d \in Queue!Calls /\ status[d] = "queued"
  BY DEF Queue!Promotions, Queue!NextInLine, Queue!Queued
<1>2. promoted = {} \/ \E d \in promoted : promoted = {d}
  BY DEF Queue!Promotions
<1> QED  BY <1>1, <1>2 DEF Queue!CloseAndPromote

----------------------------------------------------------------------------
(* The steps of the handlers are steps of the table.                        *)

\* What the invariant says of one handler.
LEMMA HandlerFacts ==
    ASSUME FlowInv, NEW h \in Handlers
    PROVE  /\ task[h] \in Tasks /\ TaskFits(h)
           /\ Queue!TypeOK
           /\ task[h].pc \in {"send", "release"} => task[h].target \in Queue!Calls
           /\ task[h].pc = "close" /\ task[h].job # "sweep" => task[h].subject \in Queue!Calls
           /\ task[h].todo \subseteq Queue!Calls
  BY DEF FlowInv, TypeOK, TaskFits, Tasks

\* The call a handler with the task w is about to close.
InHand(w) == IF w.job = "sweep" THEN w.todo ELSE {w.subject}

\* Work w when the handler has taken c out of its list.
Without(w, c) == [w EXCEPT !.subject = c, !.todo = @ \ {c}]

\* A close takes a call in hand, which is running or closed already.
LEMMA CloseUnfolds ==
    ASSUME FlowInv, NEW h \in Handlers, CloseCall(h)
    PROVE  /\ task[h].pc = "close"
           /\ UNCHANGED <<worker, notified, faults>>
           /\ \E c \in Queue!Calls : /\ c \in InHand(task[h])
                                    /\ \/ CloseRunning(h, Without(task[h], c))
                                       \/ AlreadyClosed(h, Without(task[h], c))
<1>1. task[h].pc = "close" => InHand(task[h]) \subseteq Queue!Calls
  BY HandlerFacts DEF InHand
<1> QED  BY <1>1 DEF CloseCall, InHand, Without

\* A release is a step of the table, or leaves it alone.
LEMMA ReleaseSteps ==
    ASSUME FlowInv, NEW h \in Handlers, Release(h)
    PROVE  Proved!Next \/ UNCHANGED queueVars
<1>1. task[h].target \in Queue!Calls
  BY HandlerFacts DEF Release
<1>2. CASE status[task[h].target] = "running"
  <2>1. PICK promoted \in Queue!Promotions(Queue!SlotOf(task[h].target)) :
           Queue!CloseAndPromote(task[h].target, "aborted", promoted)
    BY <1>2 DEF Release
  <2> QED  BY <1>1, <1>2, <2>1, CloseIsRpc
<1>3. CASE status[task[h].target] # "running"
  BY <1>3 DEF Release
<1> QED  BY <1>2, <1>3

\* A close is a step of the table, or leaves it alone.
LEMMA CloseSteps ==
    ASSUME FlowInv, NEW h \in Handlers, CloseCall(h)
    PROVE  Proved!Next \/ UNCHANGED queueVars
<1>1. PICK c \in Queue!Calls : \/ CloseRunning(h, Without(task[h], c))
                              \/ AlreadyClosed(h, Without(task[h], c))
  BY CloseUnfolds
<1>2. Without(task[h], c).subject = c
  BY HandlerFacts DEF Without, Tasks
<1>3. CASE CloseRunning(h, Without(task[h], c))
  <2>1. PICK final \in ClosesWith(Without(task[h], c).job),
             promoted \in Queue!Promotions(Queue!SlotOf(c)) :
           Queue!CloseAndPromote(c, final, promoted)
    BY <1>2, <1>3 DEF CloseRunning
  <2>2. final \in (Closings \cap Queue!Final) \cup {"aborted", "expired"}
    BY DEF ClosesWith
  <2>3. status[c] = "running"
    BY <1>2, <1>3 DEF CloseRunning
  <2> QED  BY <2>1, <2>2, <2>3, CloseIsRpc
<1>4. CASE AlreadyClosed(h, Without(task[h], c))
  BY <1>4 DEF AlreadyClosed
<1> QED  BY <1>1, <1>3, <1>4

\* Every step of the flow is a step of the calls table or changes no row.
LEMMA StepRefines == FlowInv /\ [Next]_vars => [Proved!Next]_(Proved!vars)
<1> SUFFICES ASSUME FlowInv, [Next]_vars PROVE [Proved!Next]_(Proved!vars)
  OBVIOUS
<1>1. CASE UNCHANGED queueVars
  BY <1>1 DEF queueVars, Proved!vars
<1>2. CASE Ensure
  BY <1>2, CreateIsRpc, RefuseIsRpc DEF Ensure, CreateCall, RefuseCall
<1>3. ASSUME NEW h \in Handlers, Handle(h)
      PROVE  Proved!Next \/ UNCHANGED queueVars
  BY <1>3, ReleaseSteps, CloseSteps DEF Handle, InitDelivered, InitFailed, Answer, Notify
<1>4. ASSUME NEW h \in Handlers, PostSweep(h) \/ HandlerDies(h)
      PROVE  UNCHANGED queueVars
  BY <1>4 DEF PostSweep, HandlerDies, StartClose
<1>5. ASSUME NEW h \in Handlers, NEW c \in Queue!Calls, PostSummary(h, c) \/ PostComplete(h, c)
      PROVE  UNCHANGED queueVars
  BY <1>5 DEF PostSummary, PostComplete, StartClose
<1>6. ASSUME NEW c \in Queue!Calls, WorkerEnds(c) \/ DeadlinePasses(c)
      PROVE  Proved!Next \/ UNCHANGED queueVars
  BY <1>6, ClockIsStep DEF WorkerEnds, DeadlinePasses
<1>7. CASE WorkerRestarts
  BY <1>1, <1>7 DEF WorkerRestarts
<1>8. CASE UNCHANGED vars
  BY <1>1, <1>8 DEF vars, queueVars
<1> QED  BY <1>1, <1>2, <1>3, <1>4, <1>5, <1>6, <1>7, <1>8 DEF Next

----------------------------------------------------------------------------
(* FlowInv is inductive: what steps have in common.                         *)

\* A task nobody touches stays fit, for the calls it has in hand only move on.
LEMMA TaskStaysFit ==
    ASSUME FlowInv, RowsMove, NEW g \in Handlers, task'[g] = task[g],
           \A c \in Queue!Calls : Announces(task[g], c) => notified'[c] = notified[c]
    PROVE  TaskFits(g)'
<1> DEFINE w == task[g]
<1>1. /\ w \in Tasks /\ TaskFits(g)
  BY HandlerFacts
<1>2. \A c \in Queue!Calls : Begun(c) => status'[c] \in {"running"} \cup Queue!Final
  BY DEF Begun, RowsMove
<1>3. \A c \in w.todo : /\ status'[c] \in {"running"} \cup Queue!Final
                        /\ status'[c] = "running" => due'[c] = "past"
  <2> TAKE c \in w.todo
  <2>1. c \in Queue!Calls /\ Begun(c) /\ (status[c] = "running" => due[c] = "past")
    BY <1>1 DEF TaskFits, Tasks
  <2> QED  BY <2>1 DEF Begun, RowsMove, Queue!Final
<1>4. w.job = "ensure" => w.subject \in Queue!Calls
  BY <1>1 DEF TaskFits
<1>5. w.pc = "unavailable" => w.job = "ensure"
  BY <1>1 DEF TaskFits
<1>6. w.job = "ensure" /\ w.pc \in {"send", "release"} =>
        w.target = w.subject \/ status'[w.subject] \in Queue!Final
  BY <1>1, <1>4 DEF TaskFits, RowsMove
<1>7. w.pc = "unavailable" => status'[w.subject] \in Queue!Final
  BY <1>1, <1>4, <1>5 DEF TaskFits, RowsMove
<1>8. \A c \in Queue!Calls : Announces(w, c) => status'[c] \in Queue!Final /\ notified'[c] = 0
  BY <1>1 DEF TaskFits, RowsMove
<1>9. w.pc \in {"send", "release"} => status'[w.target] \in {"running"} \cup Queue!Final
  BY <1>1, <1>2 DEF TaskFits
<1> QED
  BY <1>1, <1>3, <1>6, <1>7, <1>8, <1>9 DEF TaskFits, Begun, Announces, Queue!Calls, Queue!Events

\* A step of handler h, which takes the task w next.  It may deliver a call
\* that only now begins, announce a call that was running, and turn what it
\* announced into a notification; and it leaves no running call behind.
LEMMA HandlerMoves ==
    ASSUME FlowInv, RowsMove, NEW h \in Handlers, NEW w \in Tasks,
           task' = [task EXCEPT ![h] = w],
           Queue!TypeOK', faults' \in 0 .. MaxFaults,
           worker' \in [Queue!Calls -> {"none", "runs", "ended"}],
           notified' \in [Queue!Calls -> Nat],
           stranded' \subseteq {c \in Queue!Calls : status'[c] = "running"},
           TaskFits(h)',
           \A c \in Queue!Calls : Delivers(w, c) => Delivers(task[h], c) \/ ~Begun(c),
           \A c \in Queue!Calls : Announces(w, c) => Announces(task[h], c) \/ status[c] = "running",
           \A c \in Queue!Calls : \/ notified'[c] = notified[c]
                                 \/ /\ Announces(task[h], c) /\ ~Announces(w, c)
                                    /\ notified'[c] = notified[c] + 1,
           \A c \in Queue!Calls : status'[c] = "running" =>
              \/ worker'[c] # "none" \/ c \in stranded' \/ Delivers(w, c)
              \/ /\ status[c] = "running" /\ ~Delivers(task[h], c)
                 /\ worker[c] = "none" /\ c \notin stranded
    PROVE  FlowInv'
<1> USE DEF FlowInv
<1>0. task'[h] = w /\ \A g \in Handlers : g # h => task'[g] = task[g]
  BY DEF TypeOK
<1>1. TypeOK'
  BY DEF TypeOK, Tasks, Queue!Calls, Queue!Events
<1>2. ASSUME NEW g \in Handlers
      PROVE  TaskFits(g)'
  <2>1. CASE g # h
    <3>1. \A c \in Queue!Calls : Announces(task[g], c) => notified'[c] = notified[c]
      BY <2>1 DEF OneAnnouncer
    <3> QED  BY <1>0, <2>1, <3>1, TaskStaysFit
  <2> QED  BY <2>1
<1>3. RunningIsAttended'
  <2> SUFFICES ASSUME NEW c \in Queue!Calls, status'[c] = "running"
               PROVE  \/ worker'[c] # "none" \/ c \in stranded'
                      \/ \E g \in Handlers : Delivers(task'[g], c)
    BY DEF RunningIsAttended, Delivering, Delivers, Queue!Calls, Queue!Events
  <2>1. CASE /\ status[c] = "running" /\ ~Delivers(task[h], c)
             /\ worker[c] = "none" /\ c \notin stranded
    <3>1. PICK g \in Handlers : Delivers(task[g], c)
      BY <2>1 DEF RunningIsAttended, Delivering, Delivers
    <3> QED  BY <2>1, <3>1, <1>0
  <2> QED  BY <2>1, <1>0
<1>4. OneSenderPerInit'
  <2> SUFFICES ASSUME NEW g \in Handlers, NEW i \in Handlers, NEW c \in Queue!Calls,
                      Delivers(task'[g], c), Delivers(task'[i], c)
               PROVE  g = i
    BY DEF OneSenderPerInit, Delivering, Delivers, Queue!Calls, Queue!Events
  <2>1. \A j \in Handlers : Delivers(task[j], c) => Begun(c)
    BY DEF TaskFits, Delivers
  <2>2. \A j, k \in Handlers : Delivers(task[j], c) /\ Delivers(task[k], c) => j = k
    BY DEF OneSenderPerInit, Delivering, Delivers
  <2> QED  BY <1>0, <2>1, <2>2
<1>5. OneAnnouncer'
  <2> SUFFICES ASSUME NEW g \in Handlers, NEW i \in Handlers, NEW c \in Queue!Calls,
                      Announces(task'[g], c), Announces(task'[i], c)
               PROVE  g = i
    BY DEF OneAnnouncer, Announces, Queue!Calls, Queue!Events
  <2>1. \A j \in Handlers : Announces(task[j], c) => status[c] # "running"
    BY DEF TaskFits, Queue!Final
  <2> QED  BY <1>0, <2>1 DEF OneAnnouncer
<1>6. NotifiedIsClosed'
  <2> SUFFICES ASSUME NEW c \in Queue!Calls
               PROVE  notified'[c] <= 1 /\ (notified'[c] # 0 => status'[c] \in Queue!Final)
    BY DEF NotifiedIsClosed, Queue!Calls, Queue!Events, Queue!Final
  <2>1. CASE notified'[c] = notified[c]
    BY <2>1 DEF NotifiedIsClosed, RowsMove
  <2>2. CASE Announces(task[h], c) /\ notified'[c] = notified[c] + 1
    BY <2>2 DEF TaskFits, RowsMove
  <2> QED  BY <2>1, <2>2
<1> QED  BY <1>1, <1>2, <1>3, <1>4, <1>5, <1>6

\* A step nobody's task takes part in.
LEMMA NobodyMoves ==
    ASSUME FlowInv, RowsMove, task' = task, notified' = notified,
           Queue!TypeOK', faults' \in 0 .. MaxFaults,
           worker' \in [Queue!Calls -> {"none", "runs", "ended"}],
           stranded' \subseteq {c \in Queue!Calls : status'[c] = "running"},
           \A c \in Queue!Calls : status'[c] = "running" =>
              \/ worker'[c] # "none" \/ c \in stranded'
              \/ status[c] = "running" /\ worker[c] = "none" /\ c \notin stranded
    PROVE  FlowInv'
<1> USE DEF FlowInv
<1>1. TypeOK'
  BY DEF TypeOK, Tasks, Queue!Calls, Queue!Events
<1>2. \A g \in Handlers : TaskFits(g)'
  BY TaskStaysFit
<1>3. RunningIsAttended'
  BY DEF RunningIsAttended, Delivering, Queue!Calls, Queue!Events
<1>4. OneSenderPerInit' /\ OneAnnouncer'
  BY DEF OneSenderPerInit, OneAnnouncer, Delivering, Announces, Queue!Calls, Queue!Events
<1>5. NotifiedIsClosed'
  BY DEF NotifiedIsClosed, RowsMove, Queue!Calls, Queue!Events, Queue!Final
<1> QED  BY <1>1, <1>2, <1>3, <1>4, <1>5

----------------------------------------------------------------------------
(* FlowInv is inductive: the tasks the steps hand over.                     *)

\* What a sweep still has to close was late when it was read, and remains so.
LEMMA TodoStays ==
    ASSUME FlowInv, RowsMove, NEW h \in Handlers
    PROVE  \A c \in task[h].todo : /\ status'[c] \in {"running"} \cup Queue!Final
                                   /\ status'[c] = "running" => due'[c] = "past"
<1> TAKE c \in task[h].todo
<1>1. c \in Queue!Calls /\ Begun(c) /\ (status[c] = "running" => due[c] = "past")
  BY HandlerFacts DEF TaskFits
<1> QED  BY <1>1 DEF Begun, RowsMove, Queue!Final

\* Counters start in range.
LEMMA Zeros == 0 \in 0 .. Attempts - 1 /\ 0 \in 0 .. MaxChain - 1
  BY BoundsAssumption

\* A handler that waits and one that has just begun.
LEMMA BusyTask ==
    ASSUME NEW job \in Jobs, NEW c \in Queue!Calls \cup {NoCall}
    PROVE  Idle \in Tasks /\ Busy(job, c) \in Tasks
<1>1. Idle \in Tasks
  BY Zeros DEF Idle, Tasks, Labels
<1> QED  BY <1>1 DEF Busy, Tasks

\* A task that turns to the init of d.
LEMMA SendingTask ==
    ASSUME NEW w \in Tasks, NEW d \in Queue!Calls
    PROVE  /\ Sending(w, d) \in Tasks
           /\ Sending(w, d).pc = "send" /\ Sending(w, d).target = d
           /\ Sending(w, d).job = w.job /\ Sending(w, d).subject = w.subject
           /\ Sending(w, d).todo = w.todo
  BY Zeros DEF Sending, Tasks, Labels

\* A task whose chain of inits is at its end, by its job.
LEMMA FinishedTask ==
    ASSUME NEW w \in Tasks
    PROVE  /\ Finished(w) \in Tasks
           /\ Finished(w).pc \in {"idle", "close", "notify", "unavailable"}
           /\ Finished(w).pc = "notify" => w.job = "summary"
           /\ Finished(w).pc = "unavailable" => w.job = "ensure"
           /\ Finished(w).pc = "close" => w.job = "sweep"
           /\ Finished(w).pc # "idle" => Finished(w).job = w.job /\ w.job # "none"
           /\ Finished(w).job \in {w.job, "none"}
           /\ Finished(w).job \notin {"none", "sweep"} => Finished(w).subject = w.subject
           /\ Finished(w).todo \subseteq w.todo
<1>1. CASE w.job = "summary"
  BY <1>1 DEF Finished, Tasks, Labels, Jobs
<1>2. CASE w.job = "ensure"
  BY <1>2 DEF Finished, Tasks, Labels, Jobs
<1>3. CASE w.job = "sweep" /\ w.todo # {}
  BY <1>3, Zeros DEF Finished, Idle, Tasks, Labels, Jobs
<1>4. CASE w.job \notin {"summary", "ensure"} /\ ~(w.job = "sweep" /\ w.todo # {})
  BY <1>4, Zeros DEF Finished, Idle, Tasks, Labels, Jobs
<1> QED  BY <1>1, <1>2, <1>3, <1>4

\* A task with a call to send is fit when the call has begun.
LEMMA SendingFits ==
    ASSUME NEW h \in Handlers, NEW w \in Tasks, NEW d \in Queue!Calls,
           task'[h] = Sending(w, d), status'[d] = "running", w.job # "none",
           w.job # "sweep" => w.subject \in Queue!Calls,
           w.job = "ensure" => d = w.subject \/ status'[w.subject] \in Queue!Final,
           w.job = "summary" => status'[w.subject] \in Queue!Final /\ notified'[w.subject] = 0,
           \A c \in w.todo : /\ status'[c] \in {"running"} \cup Queue!Final
                             /\ status'[c] = "running" => due'[c] = "past"
    PROVE  TaskFits(h)'
  BY SendingTask DEF TaskFits, Announces, Begun, Queue!Calls, Queue!Events, Queue!Final

\* A task with nothing left to send is fit when an ensure has released its call
\* and a summary has closed it.
LEMMA FinishedFits ==
    ASSUME NEW h \in Handlers, NEW w \in Tasks, task'[h] = Finished(w),
           w.job \notin {"none", "sweep"} => w.subject \in Queue!Calls,
           w.job = "ensure" => status'[w.subject] \in Queue!Final,
           w.job = "summary" => status'[w.subject] \in Queue!Final /\ notified'[w.subject] = 0,
           \A c \in w.todo : /\ status'[c] \in {"running"} \cup Queue!Final
                             /\ status'[c] = "running" => due'[c] = "past"
    PROVE  TaskFits(h)'
  BY FinishedTask DEF TaskFits, Announces, Begun, Queue!Calls, Queue!Events, Queue!Final

\* The idle task is fit.
LEMMA IdleFits ==
    ASSUME NEW h \in Handlers, task'[h] = Idle
    PROVE  TaskFits(h)'
  BY DEF TaskFits, Announces, Begun, Idle

----------------------------------------------------------------------------
(* FlowInv is inductive: one lemma per action.                              *)

\* A handler is given its call by the RPC that created it, so nobody else can
\* have it: it had no row.
LEMMA CreateCallInv ==
    ASSUME Proved!Inv, FlowInv, RowsMove, Queue!TypeOK', NEW h \in Handlers, NEW k \in Slots,
           NEW src \in Sources, NEW batch \in Queue!Requests(src),
           NEW first \in Queue!RunsFirst(batch), NEW job \in JobsOf(src, batch),
           CreateCall(h, k, src, batch, first, job)
    PROVE  FlowInv'
<1> DEFINE n == <<lastEvent + 1, first>>
           w == Sending(Busy(job, n), n)
<1>1. /\ task[h].pc = "idle" /\ Queue!EnsureCreate(k, src, batch, first)
      /\ task' = [task EXCEPT ![h] = w]
      /\ UNCHANGED <<worker, notified, stranded, faults>>
  BY DEF CreateCall
<1>2. job \in {"ensure", "manual", "incoming"}
  BY DEF JobsOf
<1>3. n \in Queue!Calls /\ status[n] = "absent"
  <2>1. first \in Scenarios
    BY DEF Queue!RunsFirst, Queue!Requests
  <2>2. lastEvent \in Nat /\ lastEvent + 1 \in Queue!Events
    BY <1>1, QueueFacts, QueueAssumption
       DEF Queue!TypeOK, Queue!EnsureCreate, Queue!InsertBatch, Queue!NewEvent, Queue!Events
  <2>3. n \in Queue!Calls
    BY <2>1, <2>2 DEF Queue!Calls
  <2> QED  BY <2>2, <2>3, QueueFacts DEF Queue!EventOf
<1>4. /\ status'[n] = "running"
      /\ \A c \in Queue!Calls : c # n /\ status'[c] = "running" => status[c] = "running"
  <2>1. first \in batch
    BY DEF Queue!RunsFirst
  <2>2. \A c \in Queue!Calls : c = <<Queue!EventOf(c), c[2]>>
    BY DEF Queue!EventOf, Queue!Calls
  <2> QED  BY <1>1, <1>3, <2>1, <2>2
           DEF Queue!EnsureCreate, Queue!InsertBatch, Queue!EventOf
<1>5. Busy(job, n) \in Tasks /\ w \in Tasks
  BY <1>2, <1>3, BusyTask, SendingTask DEF Jobs
<1>6. /\ w.pc = "send" /\ w.target = n /\ w.job = job
  BY <1>3, <1>5, SendingTask DEF Busy, Idle
<1>7. Busy(job, n).job = job /\ Busy(job, n).subject = n /\ Busy(job, n).todo = {}
  BY DEF Busy, Idle
<1>8. TaskFits(h)'
  <2>1. task'[h] = Sending(Busy(job, n), n)
    BY <1>1 DEF FlowInv, TypeOK
  <2> QED  BY <1>2, <1>3, <1>4, <1>5, <1>7, <2>1, SendingFits
<1>9. \A c \in Queue!Calls : ~Delivers(task[h], c) /\ ~Announces(w, c)
  BY <1>1, <1>2, <1>6 DEF Delivers, Announces
<1>10. \A c \in Queue!Calls : Delivers(w, c) <=> c = n
  BY <1>6 DEF Delivers
<1>11. stranded' \subseteq {c \in Queue!Calls : status'[c] = "running"}
  BY <1>1, EnsureKeepsRunning DEF FlowInv, TypeOK
<1>12. ~Begun(n)
  BY <1>3 DEF Begun, Queue!Final
<1>13. /\ worker' = worker /\ notified' = notified /\ faults' = faults /\ stranded' = stranded
  BY <1>1
<1> HIDE DEF w
<1> QED
  BY <1>1, <1>4, <1>5, <1>8, <1>9, <1>10, <1>11, <1>12, <1>13, HandlerMoves DEF FlowInv, TypeOK

\* An RPC that refuses a call leaves the handlers and the running calls alone.
LEMMA RefuseCallInv ==
    ASSUME Proved!Inv, FlowInv, RowsMove, Queue!TypeOK', NEW k \in Slots, NEW src \in Sources,
           NEW s \in Scenarios, RefuseCall(k, src, s)
    PROVE  FlowInv'
<1>1. \A c \in Queue!Calls : status[c] = "running" => status'[c] = "running"
  BY EnsureKeepsRunning DEF RefuseCall
<1>2. \A c \in Queue!Calls : status'[c] = "running" => status[c] = "running"
  BY DEF RefuseCall, Queue!EnsureAborted, Queue!InsertAborted
<1> QED  BY <1>1, <1>2, NobodyMoves DEF RefuseCall, FlowInv, TypeOK

\* The Worker has the call: it is attended by the Worker now.
LEMMA InitDeliveredInv ==
    ASSUME FlowInv, RowsMove, Queue!TypeOK', NEW h \in Handlers, InitDelivered(h)
    PROVE  FlowInv'
<1> DEFINE t == task[h]
           created == [t EXCEPT !.pc = "created", !.target = NoCall]
           w == IF t.job = "ensure" /\ t.target = t.subject THEN created ELSE Finished(t)
<1>1. /\ t.pc = "send" /\ worker' = [worker EXCEPT ![t.target] = "runs"]
      /\ task' = [task EXCEPT ![h] = w]
      /\ UNCHANGED <<lastEvent, slotOf, sourceOf, status, due, notified, stranded, faults>>
  BY DEF InitDelivered, queueVars
<1>2. /\ t \in Tasks /\ TaskFits(h) /\ t.target \in Queue!Calls
  BY <1>1, HandlerFacts
<1>3. w \in Tasks
  BY <1>2, FinishedTask DEF Tasks, Labels
<1>4. w.pc \in {"created", "idle", "close", "notify", "unavailable"}
  BY <1>2, FinishedTask DEF Tasks
<1>5. \A c \in Queue!Calls : ~Delivers(w, c)
  BY <1>4 DEF Delivers
<1>6. \A c \in Queue!Calls : Announces(w, c) => Announces(t, c)
  BY <1>1, <1>2, <1>4, FinishedTask DEF Announces, Tasks
<1>7. TaskFits(h)'
  <2>1. task'[h] = w
    BY <1>1 DEF FlowInv, TypeOK
  <2>2. CASE t.job = "ensure" /\ t.target = t.subject
    <3>1. /\ task'[h].pc = "created" /\ task'[h].job = "ensure"
          /\ task'[h].subject \in Queue!Calls /\ task'[h].todo = t.todo
      BY <1>2, <2>1, <2>2 DEF Tasks
    <3> QED  BY <3>1, TodoStays DEF TaskFits, Announces, Begun, Queue!Calls, Queue!Events
  <2>3. CASE ~(t.job = "ensure" /\ t.target = t.subject)
    <3>1. task'[h] = Finished(t)
      BY <2>1, <2>3
    <3>2. t.job = "ensure" => status'[t.subject] \in Queue!Final
      BY <1>1, <1>2, <2>3 DEF TaskFits
    <3>3. t.job \notin {"none", "sweep"} => t.subject \in Queue!Calls
      BY <1>2 DEF TaskFits
    <3>4. t.job = "summary" => status'[t.subject] \in Queue!Final /\ notified'[t.subject] = 0
      BY <1>1, <1>2, <3>3 DEF TaskFits, Announces
    <3> QED  BY <1>2, <3>1, <3>2, <3>3, <3>4, TodoStays, FinishedFits
  <2> QED  BY <2>2, <2>3
<1>8. \A c \in Queue!Calls : Delivers(t, c) => worker'[c] = "runs"
  BY <1>1, <1>2 DEF Delivers, FlowInv, TypeOK
<1>9. \A c \in Queue!Calls : worker[c] # "none" => worker'[c] # "none"
  BY <1>1, <1>2 DEF FlowInv, TypeOK
<1>10. worker' \in [Queue!Calls -> {"none", "runs", "ended"}]
  BY <1>1, <1>2 DEF FlowInv, TypeOK
<1>11. /\ stranded' = stranded /\ notified' = notified /\ faults' = faults /\ status' = status
  BY <1>1
<1> HIDE DEF w
<1> QED
  BY <1>1, <1>3, <1>5, <1>6, <1>7, <1>8, <1>9, <1>10, <1>11, HandlerMoves DEF FlowInv, TypeOK

\* The Worker did not answer 200, though it may have the call.  A releasing
\* handler keeps it; another gives it up and leaves it to the sweep.
LEMMA InitFailedInv ==
    ASSUME FlowInv, RowsMove, Queue!TypeOK', NEW h \in Handlers, InitFailed(h)
    PROVE  FlowInv'
<1> DEFINE t == task[h]
<1>1. /\ t.pc = "send"
      /\ worker' \in {worker, [worker EXCEPT ![t.target] = "runs"]}
      /\ UNCHANGED <<lastEvent, slotOf, sourceOf, status, due, notified, faults>>
  BY DEF InitFailed, queueVars
<1>2. /\ t \in Tasks /\ TaskFits(h) /\ t.target \in Queue!Calls
  BY <1>1, HandlerFacts
<1>3. \A c \in Queue!Calls : worker[c] # "none" => worker'[c] # "none"
  BY <1>1, <1>2 DEF FlowInv, TypeOK
<1>4. worker' \in [Queue!Calls -> {"none", "runs", "ended"}]
  BY <1>1, <1>2 DEF FlowInv, TypeOK
<1>5. /\ notified' = notified /\ faults' = faults /\ status' = status /\ due' = due
  BY <1>1
<1>6. ASSUME NEW w \in Tasks, task' = [task EXCEPT ![h] = w], stranded' = stranded,
             w.pc \in {"send", "release"}, w.pc = "release" => t.job \in Releasing,
             w.target = t.target, w.job = t.job, w.subject = t.subject, w.todo = t.todo
      PROVE  FlowInv'
  <2>1. task'[h] = w
    BY <1>6 DEF FlowInv, TypeOK
  <2>2. \A c \in Queue!Calls : Announces(w, c) => Announces(t, c)
    BY <1>1, <1>6 DEF Announces
  <2>3. \A c \in Queue!Calls : Delivers(w, c) <=> Delivers(t, c)
    BY <1>1, <1>6 DEF Delivers
  <2>4. \A c \in Queue!Calls : Announces(w, c) => status'[c] \in Queue!Final /\ notified'[c] = 0
    BY <1>2, <1>5, <2>2 DEF TaskFits
  <2>5. TaskFits(h)'
    <3>1. \A c \in w.todo : c \in Queue!Calls
      BY <1>6 DEF Tasks
    <3> QED  BY <1>1, <1>2, <1>5, <1>6, <2>1, <2>4, <3>1
             DEF TaskFits, Begun, Announces, Queue!Calls, Queue!Events, Queue!Final
  <2> QED
    BY <1>3, <1>4, <1>5, <1>6, <2>2, <2>3, <2>5, HandlerMoves DEF FlowInv, TypeOK
<1>7. CASE t.job \in Releasing /\ t.tries + 1 < Attempts
  <2> DEFINE w == [t EXCEPT !.tries = t.tries + 1]
  <2>1. task' = [task EXCEPT ![h] = w] /\ stranded' = stranded
    <3>1. ~(t.tries + 1 >= Attempts)
      BY <1>2, <1>7, BoundsAssumption DEF Tasks
    <3> QED  BY <1>7, <3>1 DEF InitFailed
  <2>2. t.tries + 1 \in 0 .. Attempts - 1
    BY <1>2, <1>7, BoundsAssumption DEF Tasks
  <2>3. w \in Tasks
    BY <1>2, <2>2 DEF Tasks
  <2>4. /\ w.pc = "send" /\ w.target = t.target /\ w.job = t.job
        /\ w.subject = t.subject /\ w.todo = t.todo
    BY <1>1, <1>2 DEF Tasks
  <2> HIDE DEF w
  <2> QED  BY <1>6, <2>1, <2>3, <2>4
<1>8. CASE t.job \in Releasing /\ t.tries + 1 >= Attempts
  <2> DEFINE w == [t EXCEPT !.pc = "release"]
  <2>1. task' = [task EXCEPT ![h] = w] /\ stranded' = stranded
    <3>1. ~(t.tries + 1 < Attempts)
      BY <1>2, <1>8, BoundsAssumption DEF Tasks
    <3> QED  BY <1>8, <3>1 DEF InitFailed
  <2>2. w \in Tasks
    BY <1>2 DEF Tasks, Labels
  <2>3. /\ w.pc = "release" /\ w.target = t.target /\ w.job = t.job
        /\ w.subject = t.subject /\ w.todo = t.todo
    BY <1>2 DEF Tasks
  <2> HIDE DEF w
  <2> QED  BY <1>6, <1>8, <2>1, <2>2, <2>3
<1>9. CASE t.job \notin Releasing
  <2>1. /\ task' = [task EXCEPT ![h] = Finished(t)]
        /\ stranded' = stranded \cup RunningIn({t.target})
    BY <1>9 DEF InitFailed
  <2>2. task'[h] = Finished(t)
    BY <2>1 DEF FlowInv, TypeOK
  <2>3. t.job \notin {"ensure", "sweep", "none"}
    BY <1>1, <1>2, <1>9 DEF Releasing, TaskFits
  <2>4. \A c \in Queue!Calls : Announces(Finished(t), c) => Announces(t, c)
    BY <1>1, <1>2, <2>3, FinishedTask DEF Announces
  <2>5. t.job = "summary" => status'[t.subject] \in Queue!Final /\ notified'[t.subject] = 0
    BY <1>1, <1>2, <1>5, <2>3 DEF TaskFits, Announces
  <2>6. TaskFits(h)'
    BY <1>2, <2>2, <2>3, <2>5, TodoStays, FinishedFits DEF TaskFits
  <2>7. \A c \in Queue!Calls : ~Delivers(Finished(t), c)
    BY <1>2, FinishedTask DEF Delivers
  <2>8. Finished(t) \in Tasks
    BY <1>2, FinishedTask
  <2>9. stranded' \subseteq {c \in Queue!Calls : status'[c] = "running"}
    BY <1>2, <1>5, <2>1 DEF RunningIn, FlowInv, TypeOK
  <2>10. \A c \in Queue!Calls : status'[c] = "running" /\ Delivers(t, c) => c \in stranded'
    BY <1>5, <2>1 DEF RunningIn, Delivers
  <2>11. stranded \subseteq stranded'
    BY <2>1
  <2> QED
    BY <1>3, <1>4, <1>5, <2>1, <2>4, <2>6, <2>7, <2>8, <2>9, <2>10, <2>11, HandlerMoves
       DEF FlowInv, TypeOK
<1> QED
  <2>1. t.tries + 1 < Attempts \/ t.tries + 1 >= Attempts
    BY <1>2, BoundsAssumption DEF Tasks
  <2> QED  BY <1>7, <1>8, <1>9, <2>1

\* The call that was given up is closed, and the handler goes on with the call
\* this promotes, which nobody delivered while it waited.
LEMMA ReleaseInv ==
    ASSUME FlowInv, RowsMove, Queue!TypeOK', NEW h \in Handlers, Release(h)
    PROVE  FlowInv'
<1> DEFINE t == task[h]
           a == t.target
<1>1. /\ t.pc = "release"
      /\ worker' = worker /\ notified' = notified /\ faults' = faults
  BY DEF Release
<1>2. /\ t \in Tasks /\ TaskFits(h) /\ a \in Queue!Calls /\ Begun(a) /\ t.job \in Releasing
  BY <1>1, HandlerFacts DEF TaskFits
<1>3. t.job \notin {"summary", "none"}
  BY <1>2 DEF Releasing
<1>4. \A c \in Queue!Calls : Delivers(t, c) <=> c = a
  BY <1>1 DEF Delivers
<1>5. \A c \in Queue!Calls : ~Announces(t, c) /\ ~Announces(Finished(t), c)
  BY <1>2, <1>3, FinishedTask DEF Announces
<1>6. \A c \in Queue!Calls : ~Delivers(Finished(t), c)
  BY <1>2, FinishedTask DEF Delivers
<1>7. Finished(t) \in Tasks
  BY <1>2, FinishedTask
<1>8. ASSUME task' = [task EXCEPT ![h] = Finished(t)], status'[a] \in Queue!Final
      PROVE  TaskFits(h)'
  <2>1. task'[h] = Finished(t)
    BY <1>8 DEF FlowInv, TypeOK
  <2>2. t.job = "ensure" => status'[t.subject] \in Queue!Final
    BY <1>1, <1>2, <1>8 DEF TaskFits, RowsMove
  <2> QED  BY <1>2, <1>3, <2>1, <2>2, TodoStays, FinishedFits DEF TaskFits
<1>9. CASE status[a] = "running"
  <2>1. PICK promoted \in Queue!Promotions(Queue!SlotOf(a)) :
           /\ Queue!CloseAndPromote(a, "aborted", promoted)
           /\ IF promoted # {} /\ t.chain + 1 < MaxChain
              THEN /\ \E c \in promoted :
                        task' = [task EXCEPT ![h] =
                                   Sending([t EXCEPT !.chain = t.chain + 1], c)]
                   /\ stranded' = stranded \ {a}
              ELSE /\ task' = [task EXCEPT ![h] = Finished(t)]
                   /\ stranded' = (stranded \ {a}) \cup promoted
    BY <1>9 DEF Release
  <2>2. /\ status'[a] \in Queue!Final
        /\ \A d \in promoted : d \in Queue!Calls /\ status[d] = "queued" /\ status'[d] = "running"
        /\ \A d \in Queue!Calls : d # a /\ d \notin promoted => status'[d] = status[d]
        /\ promoted = {} \/ \E d \in promoted : promoted = {d}
    BY <1>2, <1>9, <2>1, CloseEffect DEF FlowInv, TypeOK, Queue!Final
  <2>3. \A c \in Queue!Calls : status[c] = "queued" => ~Begun(c)
    BY DEF Begun, Queue!Final
  <2>4. status'[a] # "running" /\ a \notin promoted
    BY <1>9, <2>2 DEF Queue!Final
  <2>5. \A c \in Queue!Calls :
           status'[c] = "running" => c \in promoted \/ (c # a /\ status[c] = "running")
    BY <2>2, <2>4
  <2>6. CASE promoted # {} /\ t.chain + 1 < MaxChain
    <3> DEFINE v == [t EXCEPT !.chain = t.chain + 1]
    <3>1. PICK d \in promoted : task' = [task EXCEPT ![h] = Sending(v, d)]
      BY <2>1, <2>6
    <3>2. stranded' = stranded \ {a} /\ promoted = {d}
      BY <2>1, <2>2, <2>6, <3>1
    <3>3. t.chain + 1 \in 0 .. MaxChain - 1
      BY <1>2, <2>6, BoundsAssumption DEF Tasks
    <3>4. v \in Tasks /\ v.job = t.job /\ v.subject = t.subject /\ v.todo = t.todo
      BY <1>2, <3>3 DEF Tasks
    <3> HIDE DEF v
    <3>5. d \in Queue!Calls /\ status[d] = "queued" /\ status'[d] = "running"
      BY <2>2
    <3>6. /\ Sending(v, d) \in Tasks
          /\ \A c \in Queue!Calls : Delivers(Sending(v, d), c) <=> c = d
          /\ \A c \in Queue!Calls : ~Announces(Sending(v, d), c)
      BY <1>3, <3>4, <3>5, SendingTask DEF Delivers, Announces
    <3>7. TaskFits(h)'
      <4>1. task'[h] = Sending(v, d)
        BY <3>1 DEF FlowInv, TypeOK
      <4>2. v.job = "ensure" => status'[v.subject] \in Queue!Final
        BY <1>1, <1>2, <2>2, <3>4 DEF TaskFits, RowsMove
      <4>3. v.job # "sweep" => v.subject \in Queue!Calls
        BY <1>2, <1>3, <3>4 DEF TaskFits
      <4> QED  BY <1>3, <3>4, <3>5, <4>1, <4>2, <4>3, TodoStays, SendingFits
    <3>8. stranded' \subseteq {c \in Queue!Calls : status'[c] = "running"}
      <4>1. promoted \cap stranded = {}
        BY <2>2 DEF FlowInv, TypeOK
      <4> QED  BY <2>2, <3>2, <4>1 DEF FlowInv, TypeOK
    <3>9. \A c \in Queue!Calls : Delivers(Sending(v, d), c) => ~Begun(c)
      BY <2>3, <3>5, <3>6
    <3>10. \A c \in Queue!Calls : status'[c] = "running" =>
              \/ worker'[c] # "none" \/ c \in stranded' \/ Delivers(Sending(v, d), c)
              \/ /\ status[c] = "running" /\ ~Delivers(t, c)
                 /\ worker[c] = "none" /\ c \notin stranded
      BY <1>1, <1>4, <2>5, <3>2, <3>6
    <3> QED
      BY <1>1, <1>5, <3>1, <3>6, <3>7, <3>8, <3>9, <3>10, HandlerMoves DEF FlowInv, TypeOK
  <2>7. CASE ~(promoted # {} /\ t.chain + 1 < MaxChain)
    <3>1. /\ task' = [task EXCEPT ![h] = Finished(t)]
          /\ stranded' = (stranded \ {a}) \cup promoted
      BY <2>1, <2>7
    <3>2. TaskFits(h)'
      BY <1>8, <2>2, <3>1
    <3>3. stranded' \subseteq {c \in Queue!Calls : status'[c] = "running"}
      <4>1. \A c \in stranded \ {a} : c \in Queue!Calls /\ status'[c] = "running"
        BY <2>2 DEF FlowInv, TypeOK
      <4> QED  BY <2>2, <3>1, <4>1
    <3>4. \A c \in Queue!Calls : status'[c] = "running" =>
              \/ worker'[c] # "none" \/ c \in stranded'
              \/ /\ status[c] = "running" /\ ~Delivers(t, c)
                 /\ worker[c] = "none" /\ c \notin stranded
      BY <1>1, <1>4, <2>5, <3>1
    <3> QED
      BY <1>1, <1>5, <1>6, <1>7, <3>1, <3>2, <3>3, <3>4, HandlerMoves DEF FlowInv, TypeOK
  <2> QED  BY <2>6, <2>7
<1>10. CASE status[a] # "running"
  <2>1. /\ task' = [task EXCEPT ![h] = Finished(t)]
        /\ stranded' = stranded /\ status' = status
    BY <1>10 DEF Release, queueVars
  <2>2. TaskFits(h)'
    BY <1>2, <1>8, <1>10, <2>1 DEF Begun
  <2>3. \A c \in Queue!Calls : status'[c] = "running" => ~Delivers(t, c)
    BY <1>4, <1>10, <2>1
  <2> QED
    BY <1>1, <1>5, <1>6, <1>7, <2>1, <2>2, <2>3, HandlerMoves DEF FlowInv, TypeOK
<1> QED  BY <1>9, <1>10

\* ensure answers.
LEMMA AnswerInv ==
    ASSUME FlowInv, RowsMove, Queue!TypeOK', NEW h \in Handlers, Answer(h)
    PROVE  FlowInv'
<1>1. /\ task[h].pc \in {"created", "unavailable"} /\ task' = [task EXCEPT ![h] = Idle]
      /\ status' = status /\ worker' = worker /\ notified' = notified
      /\ stranded' = stranded /\ faults' = faults
  BY DEF Answer, queueVars
<1>2. Idle \in Tasks /\ \A c \in Queue!Calls : ~Delivers(Idle, c) /\ ~Announces(Idle, c)
  BY BusyTask DEF Delivers, Announces, Idle, Jobs
<1>3. TaskFits(h)'
  BY <1>1, IdleFits DEF FlowInv, TypeOK
<1>4. \A c \in Queue!Calls : ~Delivers(task[h], c)
  BY <1>1 DEF Delivers
<1> QED  BY <1>1, <1>2, <1>3, <1>4, HandlerMoves DEF FlowInv, TypeOK

\* A handler takes up a request to close: a call that has a row, or a list of
\* calls that are late.
LEMMA StartCloseInv ==
    ASSUME FlowInv, RowsMove, Queue!TypeOK', NEW h \in Handlers, NEW w \in Tasks,
           StartClose(h, w), w.job \in {"summary", "complete", "sweep"}, w.job # "sweep" => w.subject \in Queue!Calls,
           w.todo \subseteq Stuck
    PROVE  FlowInv'
<1> DEFINE v == [w EXCEPT !.pc = "close"]
<1>1. /\ task[h].pc = "idle" /\ task' = [task EXCEPT ![h] = v]
      /\ status' = status /\ due' = due /\ worker' = worker /\ notified' = notified
      /\ stranded' = stranded /\ faults' = faults
  BY DEF StartClose, queueVars
<1>2. /\ v \in Tasks /\ v.pc = "close" /\ v.job = w.job /\ v.subject = w.subject
      /\ v.todo = w.todo
  BY DEF Tasks, Labels
<1> HIDE DEF v
<1>3. \A c \in Queue!Calls : ~Delivers(v, c) /\ ~Announces(v, c) /\ ~Delivers(task[h], c)
  BY <1>1, <1>2 DEF Delivers, Announces
<1>4. TaskFits(h)'
  <2>1. task'[h] = v
    BY <1>1 DEF FlowInv, TypeOK
  <2> QED  BY <1>1, <1>2, <2>1
           DEF TaskFits, Announces, Begun, Stuck, Queue!Calls, Queue!Events, Queue!Final
<1> QED  BY <1>1, <1>2, <1>3, <1>4, HandlerMoves DEF FlowInv, TypeOK

\* A Worker posts the summary of a call.
LEMMA PostInv ==
    ASSUME FlowInv, RowsMove, Queue!TypeOK', NEW h \in Handlers,
           \/ PostSweep(h)
           \/ \E c \in Queue!Calls : PostSummary(h, c) \/ PostComplete(h, c)
    PROVE  FlowInv'
<1>1. ASSUME NEW c \in Queue!Calls, PostSummary(h, c) \/ PostComplete(h, c)
      PROVE  FlowInv'
  <2>1. PICK job \in {"summary", "complete"} : StartClose(h, Busy(job, c))
    BY <1>1 DEF PostSummary, PostComplete
  <2>2. /\ Busy(job, c) \in Tasks /\ Busy(job, c).job = job /\ Busy(job, c).subject = c
        /\ Busy(job, c).todo = {}
    BY BusyTask DEF Busy, Idle, Jobs
  <2> QED  BY <2>1, <2>2, StartCloseInv
<1>2. CASE PostSweep(h)
  <2>1. PICK todo \in SUBSET Stuck : StartClose(h, [Busy("sweep", NoCall) EXCEPT !.todo = todo])
    BY <1>2 DEF PostSweep
  <2> DEFINE w == [Busy("sweep", NoCall) EXCEPT !.todo = todo]
  <2>2. Busy("sweep", NoCall) \in Tasks
    BY BusyTask DEF Jobs
  <2>3. todo \subseteq Queue!Calls
    BY DEF Stuck
  <2>4. w \in Tasks /\ w.job = "sweep" /\ w.todo = todo
    BY <2>2, <2>3 DEF Busy, Idle, Tasks
  <2> HIDE DEF w
  <2>5. StartClose(h, w)
    BY <2>1 DEF w
  <2> QED  BY <2>4, <2>5, StartCloseInv
<1> QED  BY <1>1, <1>2

\* A summary or a complete or a sweep closes a call: the only way to a task
\* that announces it, and closed calls are not closed again.
LEMMA CloseRunningInv ==
    ASSUME FlowInv, RowsMove, Queue!TypeOK', NEW h \in Handlers, task[h].pc = "close",
           UNCHANGED <<worker, notified, faults>>, NEW a \in Queue!Calls,
           CloseRunning(h, Without(task[h], a))
    PROVE  FlowInv'
<1> DEFINE v == Without(task[h], a)
<1>0. /\ v \in Tasks /\ v.job = task[h].job /\ v.subject = a /\ v.todo \subseteq task[h].todo
      /\ CloseRunning(h, v)
  BY HandlerFacts DEF Without, Tasks
<1> HIDE DEF v
<1>1. status[a] = "running" /\ stranded' = stranded \ {a}
  BY <1>0 DEF CloseRunning
<1>2. PICK final \in ClosesWith(v.job), promoted \in Queue!Promotions(Queue!SlotOf(a)) :
         /\ Queue!CloseAndPromote(a, final, promoted)
         /\ \/ promoted = {} /\ task' = [task EXCEPT ![h] = Finished(v)]
            \/ \E d \in promoted : task' = [task EXCEPT ![h] = Sending(v, d)]
  BY <1>0 DEF CloseRunning
<1>3. final \in Queue!Final
  BY DEF ClosesWith, Queue!Final
<1>4. /\ status'[a] \in Queue!Final
      /\ \A d \in promoted : d \in Queue!Calls /\ status[d] = "queued" /\ status'[d] = "running"
      /\ \A d \in Queue!Calls : d # a /\ d \notin promoted => status'[d] = status[d]
      /\ promoted = {} \/ \E d \in promoted : promoted = {d}
  BY <1>1, <1>2, <1>3, CloseEffect DEF FlowInv, TypeOK
<1>5. status'[a] # "running" /\ a \notin promoted
  BY <1>1, <1>4 DEF Queue!Final
<1>6. \A c \in Queue!Calls :
         status'[c] = "running" => c \in promoted \/ (c # a /\ status[c] = "running")
  BY <1>4, <1>5
<1>7. \A c \in Queue!Calls : ~Delivers(task[h], c)
  BY DEF Delivers
<1>8. stranded' \subseteq {c \in Queue!Calls : status'[c] = "running"}
  <2>1. promoted \cap stranded = {}
    BY <1>4 DEF FlowInv, TypeOK
  <2> QED  BY <1>1, <1>4, <2>1 DEF FlowInv, TypeOK
<1>9. v.job # "none"
  BY <1>0, HandlerFacts DEF TaskFits
<1>10. status'[v.subject] \in Queue!Final /\ notified'[v.subject] = 0
  BY <1>0, <1>1, <1>4 DEF FlowInv, TypeOK, NotifiedIsClosed, Queue!Final
<1>11. CASE promoted = {} /\ task' = [task EXCEPT ![h] = Finished(v)]
  <2>1. TaskFits(h)'
    <3>1. task'[h] = Finished(v)
      BY <1>11 DEF FlowInv, TypeOK
    <3> QED  BY <1>0, <1>10, <3>1, TodoStays, FinishedFits
  <2>2. /\ Finished(v) \in Tasks
        /\ \A c \in Queue!Calls : ~Delivers(Finished(v), c)
        /\ \A c \in Queue!Calls : Announces(Finished(v), c) => c = a
    BY <1>0, FinishedTask DEF Delivers, Announces
  <2> QED
    BY <1>1, <1>6, <1>7, <1>8, <1>11, <2>1, <2>2, HandlerMoves DEF FlowInv, TypeOK
<1>12. ASSUME NEW d \in promoted, task' = [task EXCEPT ![h] = Sending(v, d)]
       PROVE  FlowInv'
  <2>1. /\ d \in Queue!Calls /\ status[d] = "queued" /\ status'[d] = "running"
        /\ promoted = {d}
    BY <1>4
  <2>2. TaskFits(h)'
    <3>1. task'[h] = Sending(v, d)
      BY <1>12 DEF FlowInv, TypeOK
    <3> QED  BY <1>0, <1>9, <1>10, <2>1, <3>1, TodoStays, SendingFits
  <2>3. /\ Sending(v, d) \in Tasks
        /\ \A c \in Queue!Calls : Delivers(Sending(v, d), c) <=> c = d
        /\ \A c \in Queue!Calls : Announces(Sending(v, d), c) => c = a
    BY <1>0, <2>1, SendingTask DEF Delivers, Announces
  <2>4. ~Begun(d)
    BY <2>1 DEF Begun, Queue!Final
  <2> QED
    BY <1>1, <1>6, <1>7, <1>8, <1>12, <2>1, <2>2, <2>3, <2>4, HandlerMoves DEF FlowInv, TypeOK
<1> QED  BY <1>2, <1>11, <1>12

\* The close of a handler, whatever follows it.
LEMMA CloseCallInv ==
    ASSUME FlowInv, RowsMove, Queue!TypeOK', NEW h \in Handlers, CloseCall(h)
    PROVE  FlowInv'
<1>1. /\ task[h].pc = "close"
      /\ UNCHANGED <<worker, notified, faults>>
  BY CloseUnfolds
<1>2. PICK a \in Queue!Calls : /\ a \in InHand(task[h])
                              /\ \/ CloseRunning(h, Without(task[h], a))
                                 \/ AlreadyClosed(h, Without(task[h], a))
  BY CloseUnfolds
<1>3. CASE AlreadyClosed(h, Without(task[h], a))
  <2> DEFINE v == Without(task[h], a)
             w == IF v.job = "summary" THEN Idle ELSE Finished(v)
  <2>1. /\ v \in Tasks /\ v.job = task[h].job /\ v.subject = a /\ v.todo \subseteq task[h].todo
    BY HandlerFacts DEF Without, Tasks
  <2> HIDE DEF v
  <2>2. /\ status[a] # "running" /\ task' = [task EXCEPT ![h] = w]
        /\ status' = status /\ stranded' = stranded
    BY <1>3, <2>1 DEF AlreadyClosed, queueVars, v
  <2>3. TaskFits(h)'
    <3>1. task'[h] = w
      BY <2>2 DEF FlowInv, TypeOK
    <3>2. CASE v.job = "summary"
      BY <3>1, <3>2, IdleFits
    <3>3. CASE v.job # "summary"
      <4>1. v.job = "ensure" => status'[v.subject] \in Queue!Final
        BY <1>1, <2>1, HandlerFacts DEF TaskFits
      <4> QED  BY <2>1, <3>1, <3>3, <4>1, TodoStays, FinishedFits
    <3> QED  BY <3>2, <3>3
  <2>4. /\ w \in Tasks
        /\ \A c \in Queue!Calls : ~Delivers(w, c) /\ ~Announces(w, c)
    <3>1. Idle \in Tasks
      BY BusyTask DEF Jobs
    <3>2. CASE v.job = "summary"
      BY <3>1, <3>2 DEF Delivers, Announces, Idle
    <3>3. CASE v.job # "summary"
      BY <2>1, <3>3, FinishedTask DEF Delivers, Announces
    <3> QED  BY <3>2, <3>3
  <2>5. \A c \in Queue!Calls : ~Delivers(task[h], c)
    BY <1>1 DEF Delivers
  <2> HIDE DEF w
  <2> QED  BY <1>1, <2>2, <2>3, <2>4, <2>5, HandlerMoves DEF FlowInv, TypeOK
<1> QED  BY <1>1, <1>2, <1>3, CloseRunningInv

\* The announced call becomes a notified one, once.
LEMMA NotifyInv ==
    ASSUME FlowInv, RowsMove, Queue!TypeOK', NEW h \in Handlers, Notify(h)
    PROVE  FlowInv'
<1> DEFINE t == task[h]
<1>1. /\ t.pc = "notify" /\ task' = [task EXCEPT ![h] = Idle]
      /\ notified' = [notified EXCEPT ![t.subject] = @ + 1]
      /\ status' = status /\ worker' = worker /\ stranded' = stranded /\ faults' = faults
  BY DEF Notify, queueVars
<1>2. t.job = "summary" /\ t.subject \in Queue!Calls
  BY <1>1, HandlerFacts DEF TaskFits
<1>3. Announces(t, t.subject)
  BY <1>1, <1>2 DEF Announces
<1>4. Idle \in Tasks /\ \A c \in Queue!Calls : ~Delivers(Idle, c) /\ ~Announces(Idle, c)
  BY BusyTask DEF Delivers, Announces, Idle, Jobs
<1>5. TaskFits(h)'
  BY <1>1, IdleFits DEF FlowInv, TypeOK
<1>6. \A c \in Queue!Calls : ~Delivers(t, c)
  BY <1>1 DEF Delivers
<1>7. /\ notified' \in [Queue!Calls -> Nat]
      /\ notified'[t.subject] = notified[t.subject] + 1
      /\ \A c \in Queue!Calls : c # t.subject => notified'[c] = notified[c]
  BY <1>1, <1>2 DEF FlowInv, TypeOK
<1>8. \A c \in Queue!Calls : \/ notified'[c] = notified[c]
                            \/ /\ Announces(t, c) /\ ~Announces(Idle, c)
                               /\ notified'[c] = notified[c] + 1
  BY <1>3, <1>4, <1>7
<1> QED  BY <1>1, <1>4, <1>5, <1>6, <1>7, <1>8, HandlerMoves DEF FlowInv, TypeOK

\* Time passing and the Worker's own steps are no handler's; what the Worker
\* loses when it restarts is given up to the sweep.
LEMMA SurroundingsInv ==
    ASSUME FlowInv, RowsMove, Queue!TypeOK',
           \/ \E c \in Queue!Calls : WorkerEnds(c) \/ DeadlinePasses(c)
           \/ WorkerRestarts
    PROVE  FlowInv'
<1>1. ASSUME NEW c \in Queue!Calls, WorkerEnds(c)
      PROVE  FlowInv'
  <2>1. /\ status' = status /\ task' = task /\ notified' = notified
        /\ stranded' = stranded /\ faults' = faults
    BY <1>1 DEF WorkerEnds, queueVars
  <2>2. /\ worker' \in [Queue!Calls -> {"none", "runs", "ended"}]
        /\ \A d \in Queue!Calls : worker[d] # "none" => worker'[d] # "none"
    BY <1>1 DEF WorkerEnds, FlowInv, TypeOK
  <2> QED  BY <2>1, <2>2, NobodyMoves DEF FlowInv, TypeOK
<1>2. ASSUME NEW c \in Queue!Calls, DeadlinePasses(c)
      PROVE  FlowInv'
  <2>1. /\ status' = status /\ task' = task /\ notified' = notified /\ worker' = worker
        /\ stranded' = stranded /\ faults' = faults
    BY <1>2 DEF DeadlinePasses, Queue!DeadlinePasses
  <2> QED  BY <2>1, NobodyMoves DEF FlowInv, TypeOK
<1>3. CASE WorkerRestarts
  <2>1. /\ status' = status /\ task' = task /\ notified' = notified
        /\ stranded' = stranded \cup RunningIn({c \in Queue!Calls : worker[c] # "none"})
        /\ faults < MaxFaults /\ faults' = faults + 1
        /\ worker' = [c \in Queue!Calls |-> "none"]
    BY <1>3 DEF WorkerRestarts, queueVars
  <2>2. stranded' \subseteq {c \in Queue!Calls : status'[c] = "running"}
    BY <2>1 DEF RunningIn, FlowInv, TypeOK
  <2>3. faults' \in 0 .. MaxFaults
    BY <2>1, BoundsAssumption DEF FlowInv, TypeOK
  <2>4. \A c \in Queue!Calls : status'[c] = "running" =>
           c \in stranded' \/ (status[c] = "running" /\ worker[c] = "none" /\ c \notin stranded)
    BY <2>1 DEF RunningIn
  <2>5. worker' \in [Queue!Calls -> {"none", "runs", "ended"}]
    BY <2>1
  <2> QED  BY <2>1, <2>2, <2>3, <2>4, <2>5, NobodyMoves
<1> QED  BY <1>1, <1>2, <1>3

\* What a handler was to deliver when it died is given up to the sweep.
LEMMA HandlerDiesInv ==
    ASSUME FlowInv, RowsMove, Queue!TypeOK', NEW h \in Handlers, HandlerDies(h)
    PROVE  FlowInv'
<1>1. /\ task' = [task EXCEPT ![h] = Idle]
      /\ stranded' = stranded \cup RunningIn({c \in Queue!Calls : Delivers(task[h], c)})
      /\ status' = status /\ worker' = worker /\ notified' = notified
      /\ faults < MaxFaults /\ faults' = faults + 1
  BY DEF HandlerDies, queueVars, Delivering, Delivers
<1>2. Idle \in Tasks /\ \A c \in Queue!Calls : ~Delivers(Idle, c) /\ ~Announces(Idle, c)
  BY BusyTask DEF Delivers, Announces, Idle, Jobs
<1>3. TaskFits(h)'
  BY <1>1, IdleFits DEF FlowInv, TypeOK
<1>4. stranded' \subseteq {c \in Queue!Calls : status'[c] = "running"}
  BY <1>1 DEF RunningIn, FlowInv, TypeOK
<1>5. faults' \in 0 .. MaxFaults
  BY <1>1, BoundsAssumption DEF FlowInv, TypeOK
<1>6. \A c \in Queue!Calls : status'[c] = "running" /\ Delivers(task[h], c) => c \in stranded'
  BY <1>1 DEF RunningIn
<1>7. stranded \subseteq stranded'
  BY <1>1
<1> QED
  BY <1>1, <1>2, <1>3, <1>4, <1>5, <1>6, <1>7, HandlerMoves DEF FlowInv, TypeOK

----------------------------------------------------------------------------
(* The theorems.                                                            *)

\* Nobody handles anything at the start.
LEMMA FlowInit == Init => Proved!Inv /\ FlowInv
<1> SUFFICES ASSUME Init PROVE Proved!Inv /\ FlowInv
  OBVIOUS
<1>1. Proved!Inv
  BY QueueInit DEF Init
<1>2. /\ Queue!TypeOK
      /\ task = [h \in Handlers |-> Idle] /\ notified = [c \in Queue!Calls |-> 0]
      /\ worker = [c \in Queue!Calls |-> "none"] /\ stranded = {} /\ faults = 0
      /\ \A c \in Queue!Calls : status[c] = "absent"
  BY <1>1, QueueFacts DEF Init, Queue!Init
<1>3. TypeOK
  <2>1. Idle \in Tasks
    BY BusyTask, Zeros DEF Idle, Tasks, Labels
  <2> QED  BY <1>2, <2>1, BoundsAssumption DEF TypeOK
<1>4. \A h \in Handlers : TaskFits(h)
  BY <1>2 DEF TaskFits, Announces, Idle
<1>5. RunningIsAttended /\ NotifiedIsClosed
  BY <1>2 DEF RunningIsAttended, NotifiedIsClosed
<1>6. OneSenderPerInit /\ OneAnnouncer
  BY <1>2 DEF OneSenderPerInit, OneAnnouncer, Delivering, Announces, Idle
<1> QED  BY <1>1, <1>3, <1>4, <1>5, <1>6 DEF FlowInv

\* Every step keeps the invariant of the table and that of the handlers.
LEMMA FlowNext == Proved!Inv /\ FlowInv /\ [Next]_vars => Proved!Inv' /\ FlowInv'
<1> SUFFICES ASSUME Proved!Inv, FlowInv, [Next]_vars PROVE Proved!Inv' /\ FlowInv'
  OBVIOUS
<1>1. Proved!Inv' /\ RowsMove /\ Queue!TypeOK'
  BY StepRefines, QueueNext, QueueMoves, QueueFactsPrimed
<1>2. CASE Ensure
  BY <1>1, <1>2, CreateCallInv, RefuseCallInv DEF Ensure
<1>3. ASSUME NEW h \in Handlers, Handle(h)
      PROVE  FlowInv'
  BY <1>1, <1>3, InitDeliveredInv, InitFailedInv, ReleaseInv, AnswerInv, CloseCallInv, NotifyInv
     DEF Handle
<1>4. ASSUME NEW h \in Handlers, PostSweep(h) \/ HandlerDies(h)
      PROVE  FlowInv'
  BY <1>1, <1>4, PostInv, HandlerDiesInv
<1>5. ASSUME NEW h \in Handlers, NEW c \in Queue!Calls, PostSummary(h, c) \/ PostComplete(h, c)
      PROVE  FlowInv'
  BY <1>1, <1>5, PostInv
<1>6. ASSUME NEW c \in Queue!Calls, WorkerEnds(c) \/ DeadlinePasses(c)
      PROVE  FlowInv'
  BY <1>1, <1>6, SurroundingsInv
<1>7. CASE WorkerRestarts
  BY <1>1, <1>7, SurroundingsInv
<1>8. CASE UNCHANGED vars
  BY <1>1, <1>8, NobodyMoves DEF vars, FlowInv, TypeOK
<1> QED  BY <1>1, <1>2, <1>3, <1>4, <1>5, <1>6, <1>7, <1>8 DEF Next

\* Both invariants hold for ever.
LEMMA Invariance == Spec => [](Proved!Inv /\ FlowInv)
  BY FlowInit, FlowNext, PTL DEF Spec

\* The variables have their types; in particular a task is never one the
\* handlers have no code for, and what is stranded is running.
THEOREM TypeCorrect == Spec => []TypeOK
<1>1. FlowInv => TypeOK
  BY DEF FlowInv
<1> QED  BY <1>1, Invariance, PTL

\* No running call is forgotten, whichever handlers interleave and die: it is
\* with the Worker, with a handler, or left to the sweep at a known place.
THEOREM NobodyForgotten == Spec => []RunningIsAttended
<1>1. FlowInv => RunningIsAttended
  BY DEF FlowInv
<1> QED  BY <1>1, Invariance, PTL

\* The init of a call has one sender: the handler whose RPC made it running.
THEOREM OneSender == Spec => []OneSenderPerInit
<1>1. FlowInv => OneSenderPerInit
  BY DEF FlowInv
<1> QED  BY <1>1, Invariance, PTL

\* A summary notifies once: the close is won by one handler, which notifies of
\* a closed call that nobody can close again.
THEOREM NotifiedOnce == Spec => []NotifiedAtMostOnce
<1>1. FlowInv => NotifiedAtMostOnce
  BY DEF FlowInv, NotifiedIsClosed, NotifiedAtMostOnce
<1> QED  BY <1>1, Invariance, PTL

\* A 503 of ensure means that the call it created is closed.
THEOREM UnavailableMeansReleased == Spec => []UnavailableIsReleased
<1>1. FlowInv => UnavailableIsReleased
  BY DEF FlowInv, TaskFits, UnavailableIsReleased
<1> QED  BY <1>1, Invariance, PTL

\* A sweep takes only calls that are late, also those it reads early and closes
\* after others.
THEOREM SweepSparesPunctual == Spec => []SweepSparesCallsOnTime
<1>1. FlowInv => SweepSparesCallsOnTime
  BY DEF FlowInv, TaskFits, SweepSparesCallsOnTime
<1> QED  BY <1>1, Invariance, PTL

\* Whatever the handlers do, the calls table moves by the RPCs of CallQueue
\* alone, so what is proved of CallQueue is true of it here.
THEOREM HandlersKeepQueue == Spec => Proved!Spec
<1>1. Init => Proved!Init
  BY SameInit DEF Init
<1>2. FlowInv /\ [Next]_vars => [Proved!Next]_(Proved!vars)
  BY StepRefines
<1> QED  BY <1>1, <1>2, Invariance, PTL DEF Spec, Proved!Spec

\* So the promise of Contact is kept whichever handlers meet, give up or die: a
\* contact talks to one scenario at a time and is handed over in order.
THEOREM ContactsAreServed == Spec => Proved!ServesContacts
<1>1. Proved!Spec => Proved!ServesContacts
  BY QueueAssumption, Proved!KeepsPromise DEF Proved!KeepsPromise, Proved!PriorityAssumption,
     Proved!EventsAssumption, Proved!SourcesAssumption, Proved!SlotsAssumption
<1> QED  BY <1>1, HandlersKeepQueue, PTL

============================================================================

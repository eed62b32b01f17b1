-------------------------- MODULE CallQueueProofs --------------------------
(***************************************************************************)
(* The invariants of CallQueue for every set of slots and scenarios, every *)
(* priority and any number of events.                                      *)
(***************************************************************************)
EXTENDS CallQueue, TLAPS

\* A row that exists belongs to an event already inserted, so what an ensure
\* writes on its new event touches no existing row.
RowsHaveEvents ==
    \A c \in Calls : status[c] # "absent" => EventOf(c) \in 1 .. lastEvent

\* The inductive invariant.  No conjunct but the first two is inductive alone:
\* one running call per slot needs the open-call test to see the queue, the
\* queue's owner needs both to be of one batch, and the order of a batch needs
\* all its waiting calls to be in the slot a complete promotes from.
Inv ==
    /\ TypeOK
    /\ RowsHaveEvents
    /\ AtMostOneRunning
    /\ NoOrphanQueue
    /\ QueueIsOneBatch
    /\ BatchRunsInPriorityOrder
    /\ ClockRunsWithCall

\* The first call of a batch is in the batch, and nothing in it runs before it.
LEMMA FirstIsLeast ==
    ASSUME NEW src \in Sources, NEW batch \in Requests(src),
           NEW first \in RunsFirst(batch)
    PROVE  /\ batch \subseteq Scenarios
           /\ first \in batch
           /\ \A s \in batch : Priority[first] <= Priority[s]
  BY DEF Requests, RunsFirst

\* A complete promotes nothing when nothing waits, and otherwise one waiting
\* call of the slot, of the least priority number among those that wait.
LEMMA PromotionShape ==
    ASSUME NEW k, NEW promoted \in Promotions(k)
    PROVE  \/ Queued(k) = {} /\ promoted = {}
           \/ \E p \in Queued(k) : /\ promoted = {p}
                                   /\ \A d \in Queued(k) : Prio(p) <= Prio(d)
<1>1. CASE Queued(k) = {}
  BY <1>1 DEF Promotions
<1>2. CASE Queued(k) # {}
  BY <1>2 DEF Promotions, NextInLine
<1> QED  BY <1>1, <1>2

\* The empty table.
LEMMA InitInv == Init => Inv
<1> SUFFICES ASSUME Init PROVE Inv
  OBVIOUS
<1> USE DEF Init
<1>1. TypeOK
  BY EventsAssumption DEF TypeOK, Status, Deadlines
<1>2. \A c \in Calls : status[c] = "absent"
  OBVIOUS
<1> QED
  BY <1>1, <1>2 DEF Inv, RowsHaveEvents, AtMostOneRunning, NoOrphanQueue,
     QueueIsOneBatch, BatchRunsInPriorityOrder, ClockRunsWithCall

\* An ensure that finds the slot free and inserts a batch.
LEMMA CreateInv ==
    ASSUME Inv, NEW k \in Slots, NEW src \in Sources,
           NEW batch \in Requests(src), NEW first \in RunsFirst(batch),
           EnsureCreate(k, src, batch, first)
    PROVE  Inv'
<1> DEFINE n == lastEvent + 1
           New(c) == EventOf(c) = n /\ c[2] \in batch
<1> USE DEF Inv
<1>f. /\ batch \subseteq Scenarios
      /\ first \in batch
      /\ \A s \in batch : Priority[first] <= Priority[s]
  BY FirstIsLeast
<1>n. /\ n \in Events
      /\ lastEvent \in Nat
      /\ lastEvent' = n
      /\ <<n, first>> \in Calls
  BY <1>f, EventsAssumption DEF EnsureCreate, InsertBatch, NewEvent, TypeOK, Events, Calls
<1>c. \A c \in Calls : EventOf(c) \in Events /\ c = <<EventOf(c), c[2]>> /\ c[2] \in Scenarios
  BY DEF Calls, EventOf
<1>r. \A c \in Calls : status[c] # "absent" => EventOf(c) # n
  BY <1>n DEF RowsHaveEvents
<1>s. \A c \in Calls :
         /\ New(c) => status'[c] = IF c[2] = first THEN "running" ELSE "queued"
         /\ ~New(c) => status'[c] = status[c]
  BY DEF EnsureCreate, InsertBatch
<1>w. /\ \A c \in Calls : EventOf(c) # n => slotOf'[EventOf(c)] = slotOf[EventOf(c)]
      /\ \A c \in Calls : EventOf(c) = n => slotOf'[EventOf(c)] = k
      /\ sourceOf'[n] = src
      /\ \A c \in Calls : EventOf(c) # n => sourceOf'[EventOf(c)] = sourceOf[EventOf(c)]
  BY <1>n, <1>c DEF EnsureCreate, InsertBatch, NewEvent, TypeOK, SlotOf, EventOf
<1>d. /\ due' \in [Calls -> Deadlines]
      /\ due'[<<n, first>>] = "ahead"
      /\ \A c \in Calls : c # <<n, first>> => due'[c] = due[c]
  BY <1>n DEF EnsureCreate, InsertBatch, TypeOK, Deadlines
<1>o. \A c \in Calls : status[c] \in {"running", "queued"} => slotOf[EventOf(c)] # k
  BY DEF EnsureCreate, OpenCalls, Running, Queued, SlotOf
<1>1. TypeOK'
  <2>1. status' \in [Calls -> Status]
    BY <1>s DEF EnsureCreate, InsertBatch, TypeOK, Status
  <2> QED  BY <2>1, <1>n, <1>d DEF EnsureCreate, InsertBatch, NewEvent, TypeOK, Events
<1>2. RowsHaveEvents'
  <2> SUFFICES ASSUME NEW c \in Calls
               PROVE  status'[c] # "absent" => EventOf(c) \in 1 .. lastEvent'
    BY DEF RowsHaveEvents, EventOf
  <2>1. CASE New(c)
    BY <2>1, <1>n, <1>s
  <2>2. CASE ~New(c)
    BY <2>2, <1>n, <1>s, <1>d, <1>f DEF RowsHaveEvents, EventOf
  <2> QED  BY <2>1, <2>2
<1>3. AtMostOneRunning'
  BY <1>s, <1>w, <1>o, <1>r, <1>c DEF AtMostOneRunning, SlotOf, EventOf
<1>4. NoOrphanQueue'
  <2> SUFFICES ASSUME NEW c \in Calls, status'[c] = "queued"
               PROVE  \E d \in Calls : status'[d] = "running" /\ slotOf'[EventOf(d)] = slotOf'[EventOf(c)]
    BY DEF NoOrphanQueue, SlotOf, EventOf
  <2>1. CASE New(c)
    <3>1. status'[<<n, first>>] = "running" /\ slotOf'[n] = k
      BY <1>n, <1>s, <1>w, <1>f DEF EventOf
    <3> QED  BY <2>1, <3>1, <1>n, <1>w DEF EventOf
  <2>2. CASE ~New(c)
    <3>1. PICK d \in Calls : status[d] = "running" /\ slotOf[EventOf(d)] = slotOf[EventOf(c)]
      BY <2>2, <1>s DEF NoOrphanQueue, SlotOf
    <3> QED  BY <3>1, <2>2, <1>s, <1>r, <1>w
  <2> QED  BY <2>1, <2>2
<1>5. QueueIsOneBatch'
  <2> SUFFICES ASSUME NEW c \in Calls, NEW d \in Calls, status'[c] = "queued",
                      status'[d] \in {"queued", "running"}, slotOf'[EventOf(c)] = slotOf'[EventOf(d)]
               PROVE  EventOf(c) = EventOf(d) /\ sourceOf'[EventOf(c)] = "trigger"
    BY DEF QueueIsOneBatch, SlotOf, EventOf
  <2>1. CASE New(c)
    <3>1. EventOf(d) = n
      BY <2>1, <1>s, <1>w, <1>o, <1>r
    <3>2. c[2] # first
      BY <2>1, <1>s
    <3>3. src = "trigger"
      BY <2>1, <3>2, <1>f DEF Requests
    <3> QED  BY <2>1, <3>1, <3>3, <1>w
  <2>2. CASE ~New(c)
    <3>1. status[c] = "queued" /\ EventOf(c) # n
      BY <2>2, <1>s, <1>r
    <3>2. slotOf'[EventOf(c)] # k
      BY <3>1, <1>o, <1>w
    <3>3. ~New(d) /\ status[d] \in {"queued", "running"} /\ EventOf(d) # n
      BY <3>2, <1>s, <1>w, <1>r
    <3> QED  BY <3>1, <3>3, <1>w DEF QueueIsOneBatch, SlotOf
  <2> QED  BY <2>1, <2>2
<1>6. BatchRunsInPriorityOrder'
  <2> SUFFICES ASSUME NEW c \in Calls, NEW d \in Calls, EventOf(c) = EventOf(d),
                      status'[c] = "queued", status'[d] \notin {"absent", "queued"}
               PROVE  Prio(d) <= Prio(c)
    BY DEF BatchRunsInPriorityOrder, EventOf, Prio
  <2>1. CASE New(c)
    <3>1. New(d) /\ d[2] = first
      BY <2>1, <1>s, <1>r
    <3> QED  BY <2>1, <3>1, <1>f DEF Prio
  <2>2. CASE ~New(c)
    <3>1. status[c] = "queued" /\ EventOf(c) # n
      BY <2>2, <1>s, <1>r
    <3>2. status'[d] = status[d]
      BY <3>1, <1>s
    <3> QED  BY <3>1, <3>2 DEF BatchRunsInPriorityOrder
  <2> QED  BY <2>1, <2>2
<1>7. ClockRunsWithCall'
  <2> SUFFICES ASSUME NEW c \in Calls
               PROVE  status'[c] = "running" <=> due'[c] # "none"
    BY DEF ClockRunsWithCall
  <2>1. CASE New(c)
    <3>1. due[c] = "none"
      BY <2>1, <1>r DEF ClockRunsWithCall
    <3> QED  BY <2>1, <3>1, <1>s, <1>d, <1>c
  <2>2. CASE ~New(c)
    <3>1. c # <<n, first>>
      BY <2>2, <1>f DEF EventOf
    <3> QED  BY <2>2, <3>1, <1>s, <1>d DEF ClockRunsWithCall
  <2> QED  BY <2>1, <2>2
<1> QED  BY <1>1, <1>2, <1>3, <1>4, <1>5, <1>6, <1>7

\* An ensure that finds the slot taken: it cancels the queue and records itself.
LEMMA AbortInv ==
    ASSUME Inv, NEW k \in Slots, NEW src \in Sources, NEW s \in Scenarios,
           EnsureAborted(k, src, s)
    PROVE  Inv'
<1> DEFINE n == lastEvent + 1
<1> USE DEF Inv
<1>n. /\ n \in Events
      /\ lastEvent \in Nat
      /\ lastEvent' = n
  BY EventsAssumption DEF EnsureAborted, InsertAborted, NewEvent, TypeOK, Events
<1>c. \A c \in Calls : EventOf(c) \in Events /\ c = <<EventOf(c), c[2]>> /\ c[2] \in Scenarios
  BY DEF Calls, EventOf
<1>r. \A c \in Calls : status[c] # "absent" => EventOf(c) # n
  BY <1>n DEF RowsHaveEvents
<1>t. status' \in [Calls -> Status]
  <2>1. \A c \in Calls : status[c] \in Status
    BY DEF TypeOK
  <2>2. "aborted" \in Status
    BY DEF Status, Final
  <2> QED  BY <2>1, <2>2 DEF EnsureAborted, InsertAborted
<1>s. \A c \in Calls : \/ status'[c] = "aborted" /\ (EventOf(c) = n \/ c \in Queued(k))
                       \/ status'[c] = status[c] /\ c \notin Queued(k)
  BY DEF EnsureAborted, InsertAborted, EventOf
<1>w. /\ \A c \in Calls : EventOf(c) # n => slotOf'[EventOf(c)] = slotOf[EventOf(c)]
      /\ \A c \in Calls : EventOf(c) # n => sourceOf'[EventOf(c)] = sourceOf[EventOf(c)]
  BY <1>n, <1>c DEF EnsureAborted, InsertAborted, NewEvent, TypeOK
<1>q. \A c \in Calls : status'[c] \in {"queued", "running"} =>
         status'[c] = status[c] /\ EventOf(c) # n /\ c \notin Queued(k)
  BY <1>s, <1>r
<1>1. TypeOK'
  BY <1>t, <1>n DEF EnsureAborted, InsertAborted, NewEvent, TypeOK, Events
<1>2. RowsHaveEvents'
  <2> SUFFICES ASSUME NEW c \in Calls
               PROVE  status'[c] # "absent" => EventOf(c) \in 1 .. lastEvent'
    BY DEF RowsHaveEvents, EventOf
  <2>1. c \in Queued(k) => EventOf(c) \in 1 .. lastEvent
    BY DEF RowsHaveEvents, Queued
  <2> QED  BY <2>1, <1>n, <1>s DEF RowsHaveEvents
<1>3. AtMostOneRunning'
  BY <1>q, <1>w DEF AtMostOneRunning, SlotOf, EventOf
<1>4. NoOrphanQueue'
  <2> SUFFICES ASSUME NEW c \in Calls, status'[c] = "queued"
               PROVE  \E d \in Calls : status'[d] = "running" /\ slotOf'[EventOf(d)] = slotOf'[EventOf(c)]
    BY DEF NoOrphanQueue, SlotOf, EventOf
  <2>1. PICK d \in Calls : status[d] = "running" /\ slotOf[EventOf(d)] = slotOf[EventOf(c)]
    BY <1>q DEF NoOrphanQueue, SlotOf
  <2>2. status'[d] = "running" /\ EventOf(d) # n
    BY <2>1, <1>s, <1>r DEF Queued
  <2> QED  BY <2>1, <2>2, <1>q, <1>w
<1>5. QueueIsOneBatch'
  BY <1>q, <1>w DEF QueueIsOneBatch, SlotOf, EventOf
<1>6. BatchRunsInPriorityOrder'
  <2> SUFFICES ASSUME NEW c \in Calls, NEW d \in Calls, EventOf(c) = EventOf(d),
                      status'[c] = "queued", status'[d] \notin {"absent", "queued"}
               PROVE  Prio(d) <= Prio(c)
    BY DEF BatchRunsInPriorityOrder, EventOf, Prio
  <2>1. status[c] = "queued" /\ c \notin Queued(k) /\ EventOf(d) # n
    BY <1>q
  <2>2. d \notin Queued(k)
    BY <2>1 DEF Queued, SlotOf
  <2>3. status[d] = status'[d]
    BY <2>1, <2>2, <1>s
  <2> QED  BY <2>1, <2>3 DEF BatchRunsInPriorityOrder
<1>7. ClockRunsWithCall'
  <2>1. \A c \in Calls : status'[c] = "running" <=> status[c] = "running"
    BY <1>s, <1>r DEF Queued
  <2> QED  BY <2>1 DEF EnsureAborted, InsertAborted, ClockRunsWithCall
<1> QED  BY <1>1, <1>2, <1>3, <1>4, <1>5, <1>6, <1>7

\* A complete of a running call, with the promotion of the next.
LEMMA CompleteInv ==
    ASSUME Inv, NEW c0 \in Calls, NEW final \in Closings, Complete(c0, final)
    PROVE  Inv'
<1> DEFINE k == SlotOf(c0)
<1> USE DEF Inv
<1>0. PICK promoted \in Promotions(k) : CloseAndPromote(c0, final, promoted)
  BY DEF Complete
<1>p. \/ Queued(k) = {} /\ promoted = {}
      \/ \E p \in Queued(k) : /\ promoted = {p}
                              /\ \A d \in Queued(k) : Prio(p) <= Prio(d)
  BY PromotionShape
<1>c. c0 \notin Queued(k) /\ status[c0] = "running" /\ final \in Final
  BY DEF Complete, Queued
<1>u. lastEvent' = lastEvent /\ slotOf' = slotOf /\ sourceOf' = sourceOf
  BY <1>0 DEF CloseAndPromote
<1>s. /\ status'[c0] = final
      /\ \A d \in Calls : d \in promoted => status'[d] = "running" /\ due'[d] = "ahead"
      /\ c0 \notin promoted /\ due'[c0] = "none"
      /\ \A d \in Calls : d # c0 /\ d \notin promoted => due'[d] = due[d]
      /\ \A d \in Calls : d # c0 /\ d \notin promoted => status'[d] = status[d]
  BY <1>0, <1>p, <1>c DEF CloseAndPromote
<1>q. \A d \in Calls : status'[d] = "queued" =>
         status[d] = "queued" /\ d \notin promoted /\ d # c0
  BY <1>s, <1>c DEF Final
<1>r. \A d \in Calls : status'[d] = "running" =>
         \/ d \in promoted
         \/ status[d] = "running" /\ slotOf[EventOf(d)] # k
  BY <1>s, <1>c DEF Final, AtMostOneRunning, SlotOf
<1>1. TypeOK'
  <2>1. status' \in [Calls -> Status]
    BY <1>0, <1>c DEF CloseAndPromote, TypeOK, Status
  <2>2. due' \in [Calls -> Deadlines]
    BY <1>0 DEF CloseAndPromote, TypeOK, Deadlines
  <2> QED  BY <2>1, <2>2, <1>u DEF TypeOK
<1>2. RowsHaveEvents'
  <2> SUFFICES ASSUME NEW c \in Calls
               PROVE  status'[c] # "absent" => EventOf(c) \in 1 .. lastEvent
    BY <1>u DEF RowsHaveEvents, EventOf
  <2>1. CASE c = c0 \/ c \in promoted
    <3>1. status[c] # "absent" /\ status'[c] # "absent"
      BY <2>1, <1>p, <1>c, <1>s DEF Queued, Final
    <3> QED  BY <3>1 DEF RowsHaveEvents
  <2>2. CASE c # c0 /\ c \notin promoted
    BY <2>2, <1>s DEF RowsHaveEvents
  <2> QED  BY <2>1, <2>2
<1>3. AtMostOneRunning'
  BY <1>r, <1>p, <1>u DEF AtMostOneRunning, SlotOf, EventOf, Queued
<1>4. NoOrphanQueue'
  <2> SUFFICES ASSUME NEW c \in Calls, status'[c] = "queued"
               PROVE  \E d \in Calls : status'[d] = "running" /\ slotOf[EventOf(d)] = slotOf[EventOf(c)]
    BY <1>u DEF NoOrphanQueue, SlotOf, EventOf
  <2>1. CASE c \in Queued(k)
    <3>1. PICK p \in Queued(k) : promoted = {p}
      BY <2>1, <1>p
    <3> QED  BY <2>1, <3>1, <1>s DEF Queued, SlotOf
  <2>2. CASE c \notin Queued(k)
    <3>1. PICK d \in Calls : status[d] = "running" /\ slotOf[EventOf(d)] = slotOf[EventOf(c)]
      BY <1>q DEF NoOrphanQueue, SlotOf
    <3>2. d # c0
      BY <2>2, <3>1, <1>q DEF Queued, SlotOf
    <3> QED  BY <3>1, <3>2, <1>s
  <2> QED  BY <2>1, <2>2
<1>5. QueueIsOneBatch'
  <2>1. \A d \in Calls : status'[d] \in {"queued", "running"} => status[d] \in {"queued", "running"}
    BY <1>q, <1>r, <1>p DEF Queued
  <2> QED  BY <2>1, <1>q, <1>u DEF QueueIsOneBatch, SlotOf, EventOf
<1>6. BatchRunsInPriorityOrder'
  <2> SUFFICES ASSUME NEW c \in Calls, NEW d \in Calls, EventOf(c) = EventOf(d),
                      status'[c] = "queued", status'[d] \notin {"absent", "queued"}
               PROVE  Prio(d) <= Prio(c)
    BY DEF BatchRunsInPriorityOrder, EventOf, Prio
  <2>1. CASE d \in promoted
    <3>1. c \in Queued(k)
      BY <2>1, <1>p, <1>q DEF Queued, SlotOf
    <3> QED  BY <2>1, <3>1, <1>p
  <2>2. CASE d \notin promoted
    <3>1. status[d] \notin {"absent", "queued"}
      BY <2>2, <1>s, <1>c
    <3> QED  BY <3>1, <1>q DEF BatchRunsInPriorityOrder
  <2> QED  BY <2>1, <2>2
<1>7. ClockRunsWithCall'
  <2> SUFFICES ASSUME NEW c \in Calls
               PROVE  status'[c] = "running" <=> due'[c] # "none"
    BY DEF ClockRunsWithCall
  <2>1. CASE c = c0
    BY <2>1, <1>s, <1>c DEF Final
  <2>2. CASE c \in promoted
    BY <2>2, <1>s
  <2>3. CASE c # c0 /\ c \notin promoted
    BY <2>3, <1>s DEF ClockRunsWithCall
  <2> QED  BY <2>1, <2>2, <2>3
<1> QED  BY <1>1, <1>2, <1>3, <1>4, <1>5, <1>6, <1>7

\* The clock of a running call runs out.
LEMMA DeadlineInv ==
    ASSUME Inv, NEW c0 \in Calls, DeadlinePasses(c0)
    PROVE  Inv'
<1> USE DEF Inv
<1>1. TypeOK'
  BY DEF DeadlinePasses, TypeOK, Deadlines
<1>2. ClockRunsWithCall'
  BY DEF DeadlinePasses, TypeOK, ClockRunsWithCall
<1> QED
  BY <1>1, <1>2 DEF DeadlinePasses, RowsHaveEvents, AtMostOneRunning, NoOrphanQueue,
     QueueIsOneBatch, BatchRunsInPriorityOrder, SlotOf, EventOf, Prio

\* Inv is inductive.
LEMMA NextInv == Inv /\ [Next]_vars => Inv'
<1> SUFFICES ASSUME Inv, [Next]_vars PROVE Inv'
  OBVIOUS
<1>1. CASE Ensure
  BY <1>1, CreateInv, AbortInv DEF Ensure
<1>2. CASE \E c \in Calls, final \in Closings : Complete(c, final)
  BY <1>2, CompleteInv
<1>3. CASE \E c \in Calls : DeadlinePasses(c)
  BY <1>3, DeadlineInv
<1>4. CASE UNCHANGED vars
  BY <1>4 DEF vars, Inv, TypeOK, RowsHaveEvents, AtMostOneRunning, NoOrphanQueue,
     QueueIsOneBatch, BatchRunsInPriorityOrder, ClockRunsWithCall, SlotOf, EventOf, Prio
<1> QED  BY <1>1, <1>2, <1>3, <1>4 DEF Next

\* The invariant holds for ever.
LEMMA Invariance == Spec => []Inv
  BY InitInv, NextInv, PTL DEF Spec

\* The variables of the call queue keep their types.
THEOREM TypeCorrect == Spec => []TypeOK
  BY Invariance, PTL DEF Inv

\* A contact talks to one scenario at a time: spine_ensure_call and
\* spine_complete_call never leave two running calls in one slot.
THEOREM OneRunning == Spec => []AtMostOneRunning
  BY Invariance, PTL DEF Inv

\* The RPCs never leave a queued call in a slot with no running call to close.
THEOREM NobodyWaitsForNothing == Spec => []NoOrphanQueue
  BY Invariance, PTL DEF Inv

\* The queue of a slot is always the rest of one trigger batch.
THEOREM OneBatch == Spec => []QueueIsOneBatch
  BY Invariance, PTL DEF Inv

\* No call of a batch leaves the queue before one of a lower priority number.
THEOREM PriorityOrder == Spec => []BatchRunsInPriorityOrder
  BY Invariance, PTL DEF Inv

\* A call has an expected_end exactly from the step that makes it running.
THEOREM SweeperSeesRunning == Spec => []ClockRunsWithCall
  BY Invariance, PTL DEF Inv

----------------------------------------------------------------------------
(* What a step may do to a row.                                             *)

\* An ensure changes no row but the queued ones of its slot, which it aborts,
\* and rows that do not exist yet.
LEMMA EnsureLegal ==
    ASSUME Inv, Ensure
    PROVE  LegalTransitions
<1> USE DEF Inv
<1>1. PICK k \in Slots, src \in Sources :
         \/ \E batch \in Requests(src) : \E first \in RunsFirst(batch) :
               EnsureCreate(k, src, batch, first)
         \/ \E s \in Scenarios : EnsureAborted(k, src, s)
  BY DEF Ensure
<1>r. \A c \in Calls : status[c] # "absent" => EventOf(c) # lastEvent + 1
  BY DEF RowsHaveEvents, TypeOK
<1>2. ASSUME NEW batch \in Requests(src), NEW first \in RunsFirst(batch),
             EnsureCreate(k, src, batch, first)
      PROVE  LegalTransitions
  <2>1. \A c \in Calls : status[c] # "absent" => status'[c] = status[c]
    BY <1>2, <1>r DEF EnsureCreate, InsertBatch
  <2> QED  BY <2>1 DEF LegalTransitions, Final
<1>3. ASSUME NEW s \in Scenarios, EnsureAborted(k, src, s)
      PROVE  LegalTransitions
  <2>1. \A c \in Calls : status[c] # "absent" =>
           status'[c] = IF c \in Queued(k) THEN "aborted" ELSE status[c]
    BY <1>3, <1>r DEF EnsureAborted, InsertAborted, EventOf
  <2>2. \A c \in Calls : c \in Queued(k) => status[c] = "queued"
    BY DEF Queued
  <2> QED  BY <2>1, <2>2 DEF LegalTransitions, Final
<1> QED  BY <1>1, <1>2, <1>3

\* spine_complete_call moves rows along the legal transitions.
LEMMA CompleteLegal ==
    ASSUME Inv, NEW c0 \in Calls, NEW final \in Closings, Complete(c0, final)
    PROVE  LegalTransitions
<1> DEFINE k == SlotOf(c0)
<1>1. PICK promoted \in Promotions(k) : CloseAndPromote(c0, final, promoted)
  BY DEF Complete
<1>2. \A p \in promoted : p \in Calls /\ status[p] = "queued" /\ SlotOf(p) = SlotOf(c0)
  BY PromotionShape DEF Queued
<1>3. status[c0] = "running" /\ status'[c0] = final /\ final \in Final
  BY <1>1 DEF Complete, CloseAndPromote
<1>4. \A c \in Calls : c # c0 =>
         status'[c] = IF c \in promoted THEN "running" ELSE status[c]
  BY <1>1 DEF CloseAndPromote
<1>5. ASSUME NEW c \in Calls
      PROVE  /\ status[c] \in Final => status'[c] = status[c]
             /\ status[c] = "running" => status'[c] \in {"running"} \cup Final
             /\ status[c] = "queued" => status'[c] \in {"queued", "running"}
             /\ status[c] = "queued" /\ status'[c] = "running" => SlotOf(c) = SlotOf(c0)
  <2>1. CASE c = c0
    BY <2>1, <1>3 DEF Final
  <2>2. CASE c # c0
    BY <2>2, <1>2, <1>4 DEF Final
  <2> QED  BY <2>1, <2>2
<1> QED  BY <1>3, <1>5 DEF LegalTransitions

\* So does every step.
LEMMA StepLegal == Inv /\ [Next]_vars => [LegalTransitions]_vars
<1> SUFFICES ASSUME Inv, Next PROVE LegalTransitions
  BY DEF vars
<1>1. CASE \E c \in Calls : DeadlinePasses(c)
  BY <1>1 DEF DeadlinePasses, LegalTransitions, Final
<1> QED  BY <1>1, EnsureLegal, CompleteLegal DEF Next

\* Rows are never deleted nor moved to another slot, a new row is one of a new
\* event, and the clock of a running call is never set back.
RowsStay ==
    /\ lastEvent <= lastEvent'
    /\ \A c \in Calls :
          /\ status[c] # "absent" =>
               status'[c] # "absent" /\ slotOf'[EventOf(c)] = slotOf[EventOf(c)]
          /\ status[c] = "absent" /\ status'[c] # "absent" => EventOf(c) = lastEvent + 1
          /\ status[c] = "running" /\ status'[c] = "running" => due'[c] \in {due[c], "past"}

\* No step takes a row away or moves it to another slot.
LEMMA StepKeepsRows == Inv /\ [Next]_vars => RowsStay
<1> SUFFICES ASSUME Inv, [Next]_vars PROVE RowsStay
  OBVIOUS
<1> USE DEF Inv
<1>r. /\ lastEvent \in Nat
      /\ \A c \in Calls : status[c] # "absent" => EventOf(c) # lastEvent + 1
      /\ \A c \in Calls : EventOf(c) \in Events
  BY EventsAssumption DEF RowsHaveEvents, TypeOK, Calls, EventOf
<1>1. ASSUME NEW k \in Slots, NEW src \in Sources, NewEvent(k, src)
      PROVE  /\ lastEvent <= lastEvent'
             /\ \A c \in Calls : status[c] # "absent" => slotOf'[EventOf(c)] = slotOf[EventOf(c)]
  BY <1>1, <1>r DEF NewEvent, TypeOK
<1>2. ASSUME NEW k \in Slots, NEW src \in Sources, NEW batch, NEW first,
             EnsureCreate(k, src, batch, first)
      PROVE  RowsStay
  <2>1. \A c \in Calls : IF EventOf(c) = lastEvent + 1 /\ c[2] \in batch
                         THEN status'[c] # "absent" ELSE status'[c] = status[c]
    BY <1>2 DEF EnsureCreate, InsertBatch
  <2>2. \A c \in Calls : status[c] = "running" => due'[c] = due[c]
    <3>1. \A c \in Calls : c = <<lastEvent + 1, first>> => EventOf(c) = lastEvent + 1
      BY DEF EventOf
    <3> QED  BY <1>2, <1>r, <3>1 DEF EnsureCreate, InsertBatch, TypeOK
  <2> QED  BY <1>1, <1>2, <1>r, <2>1, <2>2 DEF EnsureCreate, InsertBatch, RowsStay
<1>3. ASSUME NEW k \in Slots, NEW src \in Sources, NEW s \in Scenarios, EnsureAborted(k, src, s)
      PROVE  RowsStay
  <2>1. \A c \in Calls : \/ status'[c] = "aborted" /\ status[c] # "absent"
                         \/ status'[c] = "aborted" /\ EventOf(c) = lastEvent + 1
                         \/ status'[c] = status[c]
    BY <1>3 DEF EnsureAborted, InsertAborted, Queued, EventOf
  <2> QED  BY <1>1, <1>3, <1>r, <2>1 DEF EnsureAborted, InsertAborted, RowsStay
<1>4. ASSUME NEW c0 \in Calls, NEW final \in Closings, Complete(c0, final)
      PROVE  RowsStay
  <2>1. PICK promoted \in Promotions(SlotOf(c0)) : CloseAndPromote(c0, final, promoted)
    BY <1>4 DEF Complete
  <2>2. \A p \in promoted : status[p] = "queued"
    BY PromotionShape DEF Queued
  <2>3. \A c \in Calls : IF c = c0 \/ c \in promoted
                         THEN status[c] # "absent" /\ status'[c] # "absent"
                         ELSE status'[c] = status[c]
    BY <1>4, <2>1, <2>2 DEF Complete, CloseAndPromote, Final
  <2>4. \A c \in Calls : status[c] = "running" /\ status'[c] = "running" => due'[c] = due[c]
    BY <1>4, <2>1, <2>2 DEF Complete, CloseAndPromote, Final
  <2> QED  BY <2>1, <2>3, <2>4, <1>r DEF CloseAndPromote, RowsStay
<1>5. CASE UNCHANGED vars
  BY <1>5, <1>r DEF RowsStay, vars
<1>6. ASSUME NEW c \in Calls, DeadlinePasses(c)
      PROVE  RowsStay
  BY <1>6, <1>r DEF DeadlinePasses, TypeOK, RowsStay
<1> QED  BY <1>2, <1>3, <1>4, <1>5, <1>6 DEF Next, Ensure

\* A row once inserted keeps its place, and history is only written forward.
THEOREM RowsAreForEver == Spec => [][RowsStay]_vars
  BY Invariance, StepKeepsRows, PTL DEF Spec

\* A closed call is never changed, a running call is only closed, a waiting
\* call starts in the step that closes its predecessor, and cancelling a queue
\* leaves the running call alone.
THEOREM LegalRows == Spec => RowsMoveLegally
  BY Invariance, StepLegal, PTL DEF Spec, RowsMoveLegally

----------------------------------------------------------------------------
(* The calls table implements Contact.                                      *)

\* An event that has been inserted has its slot.
EventsHaveSlots == \A e \in 1 .. lastEvent : slotOf[e] \in Slots

\* Every event that has been inserted has a slot, for ever.
LEMMA SlotsKnown == Spec => []EventsHaveSlots
<1>1. Init => EventsHaveSlots
  BY DEF Init, EventsHaveSlots
<1>2. Inv /\ EventsHaveSlots /\ [Next]_vars => EventsHaveSlots'
  <2> SUFFICES ASSUME Inv, EventsHaveSlots, [Next]_vars PROVE EventsHaveSlots'
    OBVIOUS
  <2>1. ASSUME NEW k \in Slots, NEW src, NewEvent(k, src) PROVE EventsHaveSlots'
    <3>1. /\ lastEvent \in Nat
          /\ lastEvent' = lastEvent + 1
          /\ lastEvent + 1 \in DOMAIN slotOf
          /\ slotOf' = [slotOf EXCEPT ![lastEvent + 1] = k]
      BY <2>1, EventsAssumption DEF NewEvent, Inv, TypeOK, Events
    <3>2. \A e \in 1 .. lastEvent' : e = lastEvent + 1 \/ e \in 1 .. lastEvent
      BY <3>1
    <3>3. \A e \in 1 .. lastEvent : e # lastEvent + 1 /\ slotOf'[e] = slotOf[e]
      BY <2>1, <3>1, EventsAssumption DEF Inv, TypeOK, Events
    <3> QED  BY <3>1, <3>2, <3>3 DEF EventsHaveSlots
  <2>2. CASE Ensure
    BY <2>1, <2>2 DEF Ensure, EnsureCreate, EnsureAborted, InsertBatch, InsertAborted
  <2>3. CASE lastEvent' = lastEvent /\ slotOf' = slotOf
    BY <2>3 DEF EventsHaveSlots
  <2> QED
    BY <2>2, <2>3 DEF Next, Complete, CloseAndPromote, DeadlinePasses, vars
<1> QED  BY <1>1, <1>2, Invariance, PTL DEF Spec

\* The empty table is that of free contacts.
LEMMA StartsFree == Init => Serves!Init
<1> SUFFICES ASSUME Init PROVE Serves!Init
  OBVIOUS
<1>1. \A c \in Calls : status[c] = "absent"
  BY DEF Init
<1>2. {c \in Calls : status[c] \in Final} = {}
  BY <1>1 DEF Final
<1> QED  BY <1>1, <1>2 DEF Serves!Init, Running, Queued

\* A row that does not exist is a call Contact has never heard of.
LEMMA AbsentIsFresh ==
    ASSUME NEW c \in Calls, status[c] = "absent"
    PROVE  c \in Serves!Fresh
BY DEF Serves!Fresh, Running, Queued, Final

\* What the three views of the table are after a step, from the rows.
LEMMA ViewsAfter ==
    /\ [k \in Slots |-> Running(k)]'
         = [k \in Slots |-> {c \in Calls : status'[c] = "running" /\ slotOf'[EventOf(c)] = k}]
    /\ [k \in Slots |-> Queued(k)]'
         = [k \in Slots |-> {c \in Calls : status'[c] = "queued" /\ slotOf'[EventOf(c)] = k}]
    /\ {c \in Calls : status[c] \in Final}' = {c \in Calls : status'[c] \in Final}
  BY DEF Running, Queued, SlotOf, EventOf

\* An ensure that creates a batch admits it.
LEMMA CreateServes ==
    ASSUME Inv, NEW k \in Slots, NEW src \in Sources,
           NEW batch \in Requests(src), NEW first \in RunsFirst(batch),
           EnsureCreate(k, src, batch, first)
    PROVE  Serves!Admit(k)
<1> DEFINE n == lastEvent + 1
           New(c) == EventOf(c) = n /\ c[2] \in batch
           T == [j \in Slots |-> Running(j)]
           W == [j \in Slots |-> Queued(j)]
           G == {c \in Calls : status[c] \in Final}
           c0 == <<n, first>>
           rest == {c \in Calls : New(c) /\ c # c0}
<1> USE DEF Inv
<1>f. /\ batch \subseteq Scenarios
      /\ first \in batch
      /\ \A s \in batch : Priority[first] <= Priority[s]
  BY FirstIsLeast
<1>n. /\ n \in Events
      /\ lastEvent \in Nat
      /\ c0 \in Calls /\ EventOf(c0) = n /\ c0[2] = first
  BY <1>f, EventsAssumption DEF EnsureCreate, InsertBatch, NewEvent, TypeOK, Events, Calls, EventOf
<1>c. \A c \in Calls : EventOf(c) \in Events /\ c = <<EventOf(c), c[2]>> /\ c[2] \in Scenarios
  BY DEF Calls, EventOf
<1>r. \A c \in Calls : New(c) => status[c] = "absent"
  BY <1>n DEF RowsHaveEvents
<1>s. \A c \in Calls :
         /\ New(c) => status'[c] = IF c = c0 THEN "running" ELSE "queued"
         /\ ~New(c) => status'[c] = status[c]
  BY <1>c, <1>n DEF EnsureCreate, InsertBatch
<1>w. \A c \in Calls : slotOf'[EventOf(c)] = IF EventOf(c) = n THEN k ELSE slotOf[EventOf(c)]
  BY <1>n, <1>c DEF EnsureCreate, InsertBatch, NewEvent, TypeOK
<1>e. \A c \in Calls : ~New(c) /\ EventOf(c) = n => status[c] = "absent"
  BY <1>n DEF RowsHaveEvents
<1>1. Running(k) = {} /\ Queued(k) = {}
  BY DEF EnsureCreate, OpenCalls
<1>2. T' = [T EXCEPT ![k] = {c0}]
  <2>1. ASSUME NEW j \in Slots
        PROVE  {c \in Calls : status'[c] = "running" /\ slotOf'[EventOf(c)] = j}
                 = IF j = k THEN {c0} ELSE Running(j)
    <3>1. ASSUME NEW c \in Calls
          PROVE  status'[c] = "running" /\ slotOf'[EventOf(c)] = j
                   <=> IF j = k THEN c = c0 ELSE c \in Running(j)
      <4>1. CASE New(c)
        BY <4>1, <1>s, <1>w, <1>r DEF Running
      <4>2. CASE ~New(c)
        <5>1. c # c0
          BY <4>2, <1>n, <1>f
        <5>2. status'[c] = status[c]
          BY <4>2, <1>s
        <5>3. status[c] = "running" => slotOf'[EventOf(c)] = slotOf[EventOf(c)]
          BY <4>2, <1>e, <1>w
        <5> QED  BY <5>1, <5>2, <5>3, <1>1 DEF Running, SlotOf
      <4> QED  BY <4>1, <4>2
    <3> QED  BY <3>1, <1>n DEF Running
  <2> QED  BY <2>1, ViewsAfter
<1>3. W' = [W EXCEPT ![k] = rest]
  <2>1. ASSUME NEW j \in Slots
        PROVE  {c \in Calls : status'[c] = "queued" /\ slotOf'[EventOf(c)] = j}
                 = IF j = k THEN rest ELSE Queued(j)
    <3>1. ASSUME NEW c \in Calls
          PROVE  status'[c] = "queued" /\ slotOf'[EventOf(c)] = j
                   <=> IF j = k THEN c \in rest ELSE c \in Queued(j)
      <4>1. CASE New(c)
        BY <4>1, <1>s, <1>w, <1>r DEF Queued
      <4>2. CASE ~New(c)
        <5>2. status'[c] = status[c]
          BY <4>2, <1>s
        <5>3. status[c] = "queued" => slotOf'[EventOf(c)] = slotOf[EventOf(c)]
          BY <4>2, <1>e, <1>w
        <5> QED  BY <4>2, <5>2, <5>3, <1>1 DEF Queued, SlotOf
      <4> QED  BY <4>1, <4>2
    <3> QED  BY <3>1 DEF Queued
  <2> QED  BY <2>1, ViewsAfter
<1>4. G' = G
  BY <1>s, <1>r, ViewsAfter DEF Final
<1>5. \A c \in Calls : New(c) => c \in Serves!Fresh
  BY <1>r, AbsentIsFresh
<1>6. T'[k] = {c0} /\ W'[k] = rest
  BY <1>2, <1>3
<1>7. c0 \in Serves!FirstOf({c0} \cup rest)
  <2>1. \A c \in {c0} \cup rest : Prio(c0) <= Prio(c)
    BY <1>f, <1>n, PriorityAssumption DEF Prio
  <2> QED  BY <2>1 DEF Serves!FirstOf
<1> QED
  BY <1>1, <1>2, <1>3, <1>4, <1>5, <1>6, <1>7, <1>n, <1>f DEF Serves!Admit

\* An ensure that meets an open call turns its request away with the queue.
LEMMA AbortServes ==
    ASSUME Inv, NEW k \in Slots, NEW src \in Sources, NEW s \in Scenarios,
           EnsureAborted(k, src, s)
    PROVE  \E c \in Serves!Fresh : Serves!TurnAway(k, c)
<1> DEFINE n == lastEvent + 1
           T == [j \in Slots |-> Running(j)]
           W == [j \in Slots |-> Queued(j)]
           G == {c \in Calls : status[c] \in Final}
           c0 == <<n, s>>
<1> USE DEF Inv
<1>n. /\ n \in Events
      /\ lastEvent \in Nat
      /\ c0 \in Calls /\ EventOf(c0) = n
  BY EventsAssumption DEF EnsureAborted, InsertAborted, NewEvent, TypeOK, Events, Calls, EventOf
<1>c. \A c \in Calls : EventOf(c) \in Events
  BY DEF Calls, EventOf
<1>r. \A c \in Calls : EventOf(c) = n => status[c] = "absent"
  BY <1>n DEF RowsHaveEvents
<1>s. \A c \in Calls : status'[c] = IF c \in Queued(k) \/ c = c0 THEN "aborted" ELSE status[c]
  BY DEF EnsureAborted, InsertAborted
<1>w. \A c \in Calls : slotOf'[EventOf(c)] = IF EventOf(c) = n THEN k ELSE slotOf[EventOf(c)]
  BY <1>n, <1>c DEF EnsureAborted, InsertAborted, NewEvent, TypeOK
<1>1. Running(k) # {}
  <2>1. CASE Queued(k) = {}
    BY <2>1 DEF EnsureAborted, OpenCalls
  <2>2. CASE Queued(k) # {}
    BY <2>2 DEF NoOrphanQueue, Queued, Running
  <2> QED  BY <2>1, <2>2
<1>2. T' = T
  <2>1. ASSUME NEW c \in Calls, NEW j \in Slots
        PROVE  status'[c] = "running" /\ slotOf'[EventOf(c)] = j <=> c \in Running(j)
    BY <1>s, <1>w, <1>r, <1>n DEF Running, Queued, SlotOf
  <2> QED  BY <2>1, ViewsAfter DEF Running
<1>3. W' = [W EXCEPT ![k] = {}]
  <2>1. ASSUME NEW c \in Calls, NEW j \in Slots
        PROVE  status'[c] = "queued" /\ slotOf'[EventOf(c)] = j
                 <=> IF j = k THEN FALSE ELSE c \in Queued(j)
    BY <1>s, <1>w, <1>r, <1>n DEF Queued, SlotOf
  <2>2. \A j \in Slots : {c \in Calls : status'[c] = "queued" /\ slotOf'[EventOf(c)] = j}
                             = IF j = k THEN {} ELSE Queued(j)
    BY <2>1 DEF Queued
  <2> QED  BY <2>2, ViewsAfter
<1>4. G' = G \cup W[k] \cup {c0}
  BY <1>s, <1>n, ViewsAfter DEF Final, Queued
<1>5. c0 \in Serves!Fresh
  BY <1>r, <1>n, AbsentIsFresh
<1> QED
  BY <1>1, <1>2, <1>3, <1>4, <1>5 DEF Serves!TurnAway

\* A complete hands the contact over.
LEMMA CompleteServes ==
    ASSUME Inv, NEW c0 \in Calls, NEW final \in Closings, Complete(c0, final),
           NEW k \in Slots, SlotOf(c0) = k
    PROVE  Serves!HandOver(k)
<1> DEFINE T == [j \in Slots |-> Running(j)]
           W == [j \in Slots |-> Queued(j)]
           G == {c \in Calls : status[c] \in Final}
<1> USE DEF Inv
<1>0. PICK promoted \in Promotions(k) : CloseAndPromote(c0, final, promoted)
  BY DEF Complete
<1>p. \/ Queued(k) = {} /\ promoted = {}
      \/ \E p \in Queued(k) : /\ promoted = {p}
                              /\ \A d \in Queued(k) : Prio(p) <= Prio(d)
  BY PromotionShape
<1>q. promoted \subseteq Queued(k)
  BY <1>p
<1>c. c0 \notin promoted /\ status[c0] = "running" /\ final \in Final
  BY <1>q DEF Complete, Queued
<1>s. \A d \in Calls : status'[d] = IF d = c0 THEN final
                                   ELSE IF d \in promoted THEN "running" ELSE status[d]
  BY <1>0 DEF CloseAndPromote
<1>w. slotOf' = slotOf
  BY <1>0 DEF CloseAndPromote
<1>1. Running(k) = {c0}
  BY <1>c DEF Running, AtMostOneRunning
<1>2. T' = [T EXCEPT ![k] = promoted]
  <2>1. ASSUME NEW c \in Calls, NEW j \in Slots
        PROVE  status'[c] = "running" /\ slotOf'[EventOf(c)] = j
                 <=> IF j = k THEN c \in promoted ELSE c \in Running(j)
    <3>1. CASE c = c0
      BY <3>1, <1>s, <1>c DEF Running, Final
    <3>2. CASE c # c0
      BY <3>2, <1>s, <1>q, <1>w, <1>1 DEF Running, Queued, SlotOf
    <3> QED  BY <3>1, <3>2
  <2>2. promoted \subseteq Calls
    BY <1>q DEF Queued
  <2>3. \A j \in Slots : {c \in Calls : status'[c] = "running" /\ slotOf'[EventOf(c)] = j}
                             = IF j = k THEN promoted ELSE Running(j)
    BY <2>1, <2>2 DEF Running
  <2> QED  BY <2>3, ViewsAfter
<1>3. W' = [W EXCEPT ![k] = @ \ promoted]
  <2>1. ASSUME NEW c \in Calls, NEW j \in Slots
        PROVE  status'[c] = "queued" /\ slotOf'[EventOf(c)] = j
                 <=> c \in Queued(j) /\ c \notin promoted
    BY <1>s, <1>c, <1>w DEF Queued, SlotOf, Final
  <2>2. \A j \in Slots : j # k => \A c \in Queued(j) : c \notin promoted
    BY <1>q DEF Queued
  <2>3. \A j \in Slots : {c \in Calls : status'[c] = "queued" /\ slotOf'[EventOf(c)] = j}
                             = IF j = k THEN Queued(k) \ promoted ELSE Queued(j)
    BY <2>1, <2>2 DEF Queued
  <2> QED  BY <2>3, ViewsAfter
<1>4. G' = G \cup T[k]
  <2>1. \A c \in promoted : status[c] \notin Final
    BY <1>q DEF Queued, Final
  <2>2. \A c \in Calls : status'[c] \in Final <=> status[c] \in Final \/ c = c0
    BY <2>1, <1>s, <1>c DEF Final
  <2> QED  BY <2>2, <1>1, ViewsAfter
<1>5. CASE Queued(k) = {} /\ promoted = {}
  <2>1. W' = W
    BY <1>5, <1>3
  <2> QED  BY <2>1, <1>5, <1>1, <1>2, <1>4 DEF Serves!HandOver
<1>6. ASSUME NEW p \in Queued(k), promoted = {p}, \A d \in Queued(k) : Prio(p) <= Prio(d)
      PROVE  Serves!HandOver(k)
  <2>1. p \in Serves!FirstOf(W[k])
    BY <1>6 DEF Serves!FirstOf
  <2> QED  BY <2>1, <1>6, <1>1, <1>2, <1>3, <1>4 DEF Serves!HandOver
<1> QED  BY <1>p, <1>5, <1>6

\* Every step of the table is a step of Contact, or changes nothing of it.
LEMMA StepServes == Inv /\ EventsHaveSlots /\ [Next]_vars => [Serves!Next]_(Serves!promise)
<1> SUFFICES ASSUME Inv, EventsHaveSlots, [Next]_vars PROVE [Serves!Next]_(Serves!promise)
  OBVIOUS
<1>1. CASE Ensure
  <2>1. PICK k \in Slots, src \in Sources :
           \/ \E batch \in Requests(src) : \E first \in RunsFirst(batch) :
                 EnsureCreate(k, src, batch, first)
           \/ \E s \in Scenarios : EnsureAborted(k, src, s)
    BY <1>1 DEF Ensure
  <2>2. Serves!Admit(k) \/ \E c \in Serves!Fresh : Serves!TurnAway(k, c)
    BY <2>1, CreateServes, AbortServes
  <2> QED  BY <2>2 DEF Serves!Next
<1>2. CASE \E c \in Calls, final \in Closings : Complete(c, final)
  <2>1. PICK c \in Calls, final \in Closings : Complete(c, final)
    BY <1>2
  <2>2. PICK k \in Slots : SlotOf(c) = k
    BY <2>1 DEF Complete, Inv, RowsHaveEvents, EventsHaveSlots, SlotOf
  <2>3. Serves!HandOver(k)
    BY <2>1, <2>2, CompleteServes
  <2> QED  BY <2>3 DEF Serves!Next
<1>3. CASE status' = status /\ slotOf' = slotOf
  BY <1>3, ViewsAfter DEF Serves!promise, Running, Queued, SlotOf
<1> QED  BY <1>1, <1>2, <1>3 DEF Next, DeadlinePasses, vars

\* The two RPCs keep the promise of Contact, for every instance.
THEOREM KeepsPromise == Spec => ServesContacts
<1>1. Spec => Serves!Init
  BY StartsFree DEF Spec
<1> QED  BY <1>1, Invariance, SlotsKnown, StepServes, PTL DEF Spec, ServesContacts, Serves!Spec

============================================================================

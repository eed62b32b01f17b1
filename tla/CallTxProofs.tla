---------------------------- MODULE CallTxProofs ----------------------------
(***************************************************************************)
(* What the advisory lock achieves, for any number of connections: the     *)
(* statements of a transaction act on what it read, the committed rows     *)
(* change as CallQueue says, and the unique index is never violated.       *)
(***************************************************************************)
EXTENDS CallTx, TLAPS

\* The theorems of CallQueue, for the committed rows.
Proved == INSTANCE CallQueueProofs

\* The labels of a transaction that has taken the lock.
UnderLock == {"look", "cancel", "insert", "close", "promote", "commit"}

\* A transaction that has passed spine_lock_slot holds the lock of its slot.
HoldsLock(t) == pc[t] \in UnderLock => holder[Slot(t)] = t

\* A transaction runs the statements of its own RPC, with arguments the RPC
\* can have; a row that is to be closed exists, in the slot that is locked.
RequestFits(t) ==
    /\ pc[t] # "idle" => req[t] \in EnsureArgs \cup CompleteArgs
    /\ pc[t] \in {"look", "cancel", "insert"} \/ plan[t].kind \in {"create", "abort"}
         => req[t] \in EnsureArgs
    /\ pc[t] \in {"close", "promote"} \/ plan[t].kind = "close" => req[t] \in CompleteArgs
    /\ plan[t].kind = "create" => plan[t].first \in Queue!RunsFirst(req[t].batch)
    /\ pc[t] # "idle" /\ req[t] \in CompleteArgs =>
         status[req[t].call] # "absent" /\ Queue!SlotOf(req[t].call) = Slot(t)

\* What one transaction has read holds, because nobody else writes in the slot it
\* has locked.
Sound(t) == HoldsLock(t) /\ RequestFits(t) /\ DecisionHolds(t)

\* The inductive invariant of the transactions.
TxInv == TypeOK /\ \A t \in Txs : Sound(t)

----------------------------------------------------------------------------
(* From the theorems of CallQueue to the committed rows.                    *)

\* The two instances of CallQueue, here and in CallTx, say the same.
LEMMA SameQueue ==
    /\ Queue!Init <=> Proved!Init
    /\ [Queue!Next]_(Queue!vars) <=> [Proved!Next]_(Proved!vars)
<1>1. Queue!Init <=> Proved!Init
  BY DEF Queue!Init, Queue!Events, Queue!Calls, Proved!Init, Proved!Events, Proved!Calls
<1>2. Queue!Ensure <=> Proved!Ensure
  BY DEF Queue!Ensure, Queue!Requests, Queue!RunsFirst, Queue!EnsureCreate, Queue!EnsureAborted,
     Queue!InsertBatch, Queue!InsertAborted, Queue!NewEvent, Queue!OpenCalls, Queue!Running,
     Queue!Queued, Queue!SlotOf, Queue!EventOf, Queue!Calls, Queue!Events,
     Proved!Ensure, Proved!Requests, Proved!RunsFirst, Proved!EnsureCreate, Proved!EnsureAborted,
     Proved!InsertBatch, Proved!InsertAborted, Proved!NewEvent, Proved!OpenCalls, Proved!Running,
     Proved!Queued, Proved!SlotOf, Proved!EventOf, Proved!Calls, Proved!Events
<1>3. ASSUME NEW c, NEW final
      PROVE  Queue!Complete(c, final) <=> Proved!Complete(c, final)
  BY DEF Queue!Complete, Queue!Promotions, Queue!NextInLine, Queue!CloseAndPromote, Queue!Prio,
     Queue!Queued, Queue!SlotOf, Queue!EventOf, Queue!Calls, Queue!Events, Queue!Final,
     Proved!Complete, Proved!Promotions, Proved!NextInLine, Proved!CloseAndPromote, Proved!Prio,
     Proved!Queued, Proved!SlotOf, Proved!EventOf, Proved!Calls, Proved!Events, Proved!Final
<1>4. ASSUME NEW c
      PROVE  Queue!DeadlinePasses(c) <=> Proved!DeadlinePasses(c)
  BY DEF Queue!DeadlinePasses, Proved!DeadlinePasses
<1> QED
  BY <1>1, <1>2, <1>3, <1>4 DEF Queue!Next, Queue!vars, Queue!Calls, Queue!Events,
     Proved!Next, Proved!vars, Proved!Calls, Proved!Events

\* What the proofs below need of the inductive invariant of CallQueue.
LEMMA QueueFacts ==
    Proved!Inv => /\ Queue!TypeOK
                  /\ Queue!AtMostOneRunning
                  /\ \A c \in Queue!Calls : status[c] # "absent" =>
                        Queue!EventOf(c) \in 1 .. lastEvent
  BY DEF Proved!Inv, Proved!TypeOK, Proved!AtMostOneRunning, Proved!RowsHaveEvents,
     Proved!Calls, Proved!Events, Proved!Status, Proved!Final, Proved!Deadlines, Proved!SlotOf,
     Proved!EventOf, Queue!TypeOK, Queue!AtMostOneRunning, Queue!Calls, Queue!Events,
     Queue!Status, Queue!Final, Queue!Deadlines, Queue!SlotOf, Queue!EventOf

\* The types of the table, from its invariant.
LEMMA QueueFactsPrimed == Proved!Inv' => Queue!TypeOK'
  BY DEF Proved!Inv, Proved!TypeOK, Proved!Calls, Proved!Events, Proved!Status, Proved!Final,
     Proved!Deadlines, Queue!TypeOK, Queue!Calls, Queue!Events, Queue!Status, Queue!Final,
     Queue!Deadlines

\* The invariant of CallQueue at the start.
LEMMA QueueInit == Queue!Init => Proved!Inv
  BY SameQueue, QueueAssumption, Proved!InitInv DEF Proved!InitInv, Proved!PriorityAssumption,
     Proved!EventsAssumption, Proved!SourcesAssumption, Proved!SlotsAssumption

\* The invariant of CallQueue along the steps of CallQueue.
LEMMA QueueNext == Proved!Inv /\ [Queue!Next]_(Queue!vars) => Proved!Inv'
  BY SameQueue, QueueAssumption, Proved!NextInv DEF Proved!NextInv, Proved!PriorityAssumption,
     Proved!EventsAssumption, Proved!SourcesAssumption, Proved!SlotsAssumption

----------------------------------------------------------------------------
(* The shape of requests and plans.                                         *)

\* What is in a request, by its RPC.
LEMMA Args ==
    /\ \A r \in EnsureArgs : /\ r.op = "ensure" /\ r.slot \in Slots /\ r.source \in Sources
                             /\ r.batch \in Queue!Requests(r.source)
    /\ \A r \in CompleteArgs : /\ r.op = "complete" /\ r.slot \in Slots /\ r.call \in Queue!Calls
                               /\ r.final \in Closings /\ r.final \in Queue!Final
  BY DEF EnsureArgs, CompleteArgs

\* What is in a plan, by its kind.
LEMMA Plans ==
    /\ Nothing.kind = "nothing"
    /\ \A p \in Creates : p.kind = "create" /\ p.first \in Scenarios
    /\ \A p \in Aborts : p.kind = "abort" /\ p.cancelled \in SUBSET Queue!Calls
    /\ \A p \in Closes : p.kind = "close" /\ p.promoted \in SUBSET Queue!Calls
  BY DEF Nothing, Creates, Aborts, Closes

\* Only a transaction under a lock has read anything it relies on.
LEMMA ReadersAreUnderLock ==
    ASSUME TypeOK, NEW t \in Txs, pc[t] \notin UnderLock
    PROVE  plan[t] = Nothing /\ HoldsLock(t) /\ DecisionHolds(t)
  BY Plans DEF TypeOK, UnderLock, HoldsLock, DecisionHolds

\* Two transactions are never under the lock of one slot.
LEMMA SlotsApart ==
    ASSUME TxInv, NEW t \in Txs, NEW u \in Txs, t # u,
           pc[t] \in UnderLock, pc[u] \in UnderLock
    PROVE  Slot(t) # Slot(u)
  BY DEF TxInv, Sound, HoldsLock

----------------------------------------------------------------------------
(* What a commit does to the rows of other slots: nothing.                  *)

\* A step changes rows of slot k alone, and takes none away.
TouchesOnly(k) ==
    \A c \in Queue!Calls :
        /\ status[c] # "absent" =>
             status'[c] # "absent" /\ slotOf'[Queue!EventOf(c)] = slotOf[Queue!EventOf(c)]
        /\ status'[c] # status[c] => slotOf'[Queue!EventOf(c)] = k

\* A step changes no row.
RowsAsBefore == status' = status /\ slotOf' = slotOf

\* The reads of another slot would return the same again.
LEMMA SameReads ==
    ASSUME NEW u \in Txs, NEW k, req'[u] = req[u],
           RowsAsBefore \/ (TouchesOnly(k) /\ Slot(u) # k)
    PROVE  /\ Queue!Running(Slot(u))' = Queue!Running(Slot(u))
           /\ Queue!Queued(Slot(u))' = Queue!Queued(Slot(u))
           /\ Queue!OpenCalls(Slot(u))' = Queue!OpenCalls(Slot(u))
           /\ Queue!Promotions(Slot(u))' = Queue!Promotions(Slot(u))
<1>1. ASSUME NEW c \in Queue!Calls, NEW s \in {"running", "queued"}
      PROVE  status'[c] = s /\ slotOf'[Queue!EventOf(c)] = Slot(u)
               <=> status[c] = s /\ slotOf[Queue!EventOf(c)] = Slot(u)
  BY DEF TouchesOnly, RowsAsBefore
<1>2. Slot(u)' = Slot(u)
  BY DEF Slot
<1>3. Queue!Running(Slot(u))' = Queue!Running(Slot(u))
  BY <1>1, <1>2 DEF Queue!Running, Queue!SlotOf, Queue!EventOf, Queue!Calls, Queue!Events
<1>4. Queue!Queued(Slot(u))' = Queue!Queued(Slot(u))
  BY <1>1, <1>2 DEF Queue!Queued, Queue!SlotOf, Queue!EventOf, Queue!Calls, Queue!Events
<1> QED
  BY <1>3, <1>4 DEF Queue!OpenCalls, Queue!Promotions, Queue!NextInLine, Queue!Prio

\* A transaction is undisturbed by steps of others that leave its lock alone
\* and touch no row of its slot.
LEMMA Undisturbed ==
    ASSUME TxInv, NEW u \in Txs, NEW k,
           pc'[u] = pc[u], req'[u] = req[u], plan'[u] = plan[u],
           pc[u] \in UnderLock /\ holder[Slot(u)] = u => holder'[Slot(u)] = u,
           RowsAsBefore \/ (TouchesOnly(k) /\ (pc[u] \in UnderLock => Slot(u) # k))
    PROVE  Sound(u)'
<1> USE DEF TxInv, Sound
<1>1. HoldsLock(u)'
  BY DEF HoldsLock, Slot
<1>2. RequestFits(u)'
  <2>1. ASSUME req[u] \in CompleteArgs, status[req[u].call] # "absent"
        PROVE  /\ status'[req[u].call] # "absent"
               /\ Queue!SlotOf(req[u].call)' = Queue!SlotOf(req[u].call)
    BY <2>1, Args DEF TouchesOnly, RowsAsBefore, Queue!SlotOf, Queue!EventOf
  <2> QED  BY <2>1 DEF RequestFits, Slot, Queue!RunsFirst
<1>3. DecisionHolds(u)'
  <2>1. CASE pc[u] \in UnderLock
    <3>1. /\ Queue!Queued(Slot(u))' = Queue!Queued(Slot(u))
          /\ Queue!OpenCalls(Slot(u))' = Queue!OpenCalls(Slot(u))
          /\ Queue!Promotions(Slot(u))' = Queue!Promotions(Slot(u))
      BY <2>1, SameReads
    <3>2. pc[u] = "promote" \/ plan[u].kind = "close"
            => req[u].call \in Queue!Calls /\ Queue!SlotOf(req[u].call) = Slot(u)
      BY <2>1, Args DEF RequestFits, UnderLock
    <3>3. pc[u] = "promote" \/ plan[u].kind = "close" => status'[req[u].call] = "running"
      BY <2>1, <3>2 DEF TouchesOnly, RowsAsBefore, DecisionHolds, Queue!SlotOf, Queue!EventOf
    <3> QED  BY <3>1, <3>3 DEF DecisionHolds
  <2>2. CASE pc[u] \notin UnderLock
    <3>1. plan[u] = Nothing
      BY <2>2, ReadersAreUnderLock
    <3> QED  BY <2>2, <3>1, Plans DEF DecisionHolds, UnderLock
  <2> QED  BY <2>1, <2>2
<1> QED  BY <1>1, <1>2, <1>3

----------------------------------------------------------------------------
(* The committed rows change as CallQueue says.                             *)

\* The statements before the end of a transaction commit nothing.
LEMMA CommitsNothing ==
    ASSUME NEW t \in Txs,
           \/ \E r \in EnsureArgs : BeginEnsure(t, r)
           \/ \E r \in CompleteArgs : BeginComplete(t, r)
           \/ TakeLock(t) \/ LookForOpenCall(t) \/ CancelQueue(t) \/ InsertRows(t)
           \/ CloseRow(t) \/ PromoteNext(t) \/ CommitNothing(t) \/ Rollback(t)
    PROVE  UNCHANGED queueVars
  BY DEF BeginEnsure, BeginComplete, Begin, TakeLock, LookForOpenCall, CancelQueue, InsertRows,
     CloseRow, PromoteNext, CommitNothing, Rollback, Goto

\* The commit of an ensure that found the slot free is EnsureCreate.
LEMMA CreateIsEnsure ==
    ASSUME TxInv, NEW t \in Txs, CommitCreate(t)
    PROVE  /\ req[t].source \in Sources
           /\ req[t].batch \in Queue!Requests(req[t].source)
           /\ plan[t].first \in Queue!RunsFirst(req[t].batch)
           /\ Slot(t) \in Slots
           /\ Queue!EnsureCreate(Slot(t), req[t].source, req[t].batch, plan[t].first)
<1>1. /\ req[t] \in EnsureArgs
      /\ plan[t].first \in Queue!RunsFirst(req[t].batch)
      /\ Queue!OpenCalls(Slot(t)) = {}
  BY DEF CommitCreate, TxInv, Sound, RequestFits, DecisionHolds
<1> QED  BY <1>1, Args DEF CommitCreate, Queue!EnsureCreate, Slot

\* The commit of a named ensure that found the slot taken is EnsureAborted.
LEMMA AbortIsEnsure ==
    ASSUME TxInv, NEW t \in Txs, CommitAbort(t)
    PROVE  /\ req[t].source \in Sources
           /\ Slot(t) \in Slots
           /\ \E s \in Scenarios : Queue!EnsureAborted(Slot(t), req[t].source, s)
<1>1. /\ req[t] \in EnsureArgs
      /\ plan[t].cancelled = Queue!Queued(Slot(t))
      /\ Queue!OpenCalls(Slot(t)) # {}
  BY DEF CommitAbort, TxInv, Sound, RequestFits, DecisionHolds
<1>2. req[t].batch \subseteq Scenarios
  BY <1>1, Args DEF Queue!Requests
<1> QED  BY <1>1, <1>2, Args DEF CommitAbort, Queue!EnsureAborted, Slot

\* The commit of a complete that closed its call is Complete.
LEMMA CloseIsComplete ==
    ASSUME TxInv, NEW t \in Txs, CommitClose(t)
    PROVE  /\ req[t].call \in Queue!Calls /\ req[t].final \in Closings
           /\ Queue!SlotOf(req[t].call) = Slot(t)
           /\ Queue!Complete(req[t].call, req[t].final)
<1>1. /\ req[t] \in CompleteArgs
      /\ Queue!SlotOf(req[t].call) = Slot(t)
      /\ status[req[t].call] = "running"
      /\ plan[t].promoted \in Queue!Promotions(Slot(t))
  BY DEF CommitClose, TxInv, Sound, RequestFits, DecisionHolds
<1> QED  BY <1>1, Args DEF CommitClose, Queue!Complete

\* Every step of a transaction is a step of CallQueue or changes no row.
LEMMA StepRefines == TxInv /\ [Next]_vars => [Queue!Next]_(Queue!vars)
<1> SUFFICES ASSUME TxInv, [Next]_vars PROVE [Queue!Next]_(Queue!vars)
  OBVIOUS
<1>1. CASE UNCHANGED queueVars
  BY <1>1 DEF queueVars, Queue!vars
<1>2. ASSUME NEW t \in Txs, CommitCreate(t) \/ CommitAbort(t)
      PROVE  Queue!Next
  BY <1>2, CreateIsEnsure, AbortIsEnsure DEF Queue!Next, Queue!Ensure
<1>3. ASSUME NEW t \in Txs, CommitClose(t)
      PROVE  Queue!Next
  BY <1>3, CloseIsComplete DEF Queue!Next
<1>4. ASSUME NEW c \in Queue!Calls, DeadlinePasses(c)
      PROVE  Queue!Next
  BY <1>4 DEF DeadlinePasses, Queue!Next
<1>5. CASE UNCHANGED vars
  BY <1>5 DEF vars, Queue!vars
<1> QED  BY <1>1, <1>2, <1>3, <1>4, <1>5, CommitsNothing DEF Next, Step

----------------------------------------------------------------------------
(* TxInv is inductive.                                                      *)

\* t goes on to its next statement: what it relies on from now on is to be
\* shown by the statement, the others are undisturbed.
LEMMA GotoInv ==
    ASSUME TxInv, Queue!TypeOK', NEW t \in Txs, NEW l \in Labels,
           NEW p \in Creates \cup Aborts \cup Closes \cup {Nothing},
           p # Nothing => l = "commit",
           Goto(t, l, p), Sound(t)'
    PROVE  TxInv'
<1>1. RowsAsBefore
  BY DEF Goto, queueVars, RowsAsBefore
<1>2. ASSUME NEW u \in Txs, u # t PROVE Sound(u)'
  <2>1. pc'[u] = pc[u] /\ req'[u] = req[u] /\ plan'[u] = plan[u] /\ holder' = holder
    BY <1>2 DEF Goto, TxInv, TypeOK
  <2> QED  BY <2>1, <1>1, Undisturbed
<1>3. TypeOK'
  BY DEF Goto, TxInv, TypeOK
<1> QED  BY <1>2, <1>3 DEF TxInv

\* t ends: its lock is free, and whatever it has committed is in its slot.
LEMMA EndInv ==
    ASSUME TxInv, Queue!TypeOK', NEW t \in Txs, End(t),
           RowsAsBefore \/ (TouchesOnly(Slot(t)) /\ pc[t] \in UnderLock)
    PROVE  TxInv'
<1>1. ASSUME NEW u \in Txs, u # t PROVE Sound(u)'
  <2>1. pc'[u] = pc[u] /\ req'[u] = req[u] /\ plan'[u] = plan[u]
    BY <1>1 DEF End, TxInv, TypeOK
  <2>2. pc[u] \in UnderLock /\ holder[Slot(u)] = u => holder'[Slot(u)] = u
    <3>1. pc[u] \in UnderLock => Slot(u) \in Slots
      BY Args DEF TxInv, Sound, RequestFits, UnderLock, Slot
    <3> QED  BY <3>1, <1>1 DEF End, TxInv, TypeOK
  <2>3. RowsAsBefore \/ (TouchesOnly(Slot(t)) /\ (pc[u] \in UnderLock => Slot(u) # Slot(t)))
    BY <1>1, SlotsApart
  <2> QED  BY <2>1, <2>2, <2>3, Undisturbed
<1>2. Sound(t)'
  <2>1. pc'[t] = "idle" /\ plan'[t] = Nothing
    BY DEF End, TxInv, TypeOK
  <2> QED  BY <2>1, Plans DEF Sound, HoldsLock, RequestFits, DecisionHolds, UnderLock
<1>3. TypeOK'
  <2>1. holder' \in [Slots -> Txs \cup {NoTx}]
    BY DEF End, TxInv, TypeOK
  <2> QED  BY <2>1 DEF End, TxInv, TypeOK, Labels
<1> QED  BY <1>1, <1>2, <1>3 DEF TxInv

\* A connection begins a transaction.
LEMMA BeginInv ==
    ASSUME TxInv, Queue!TypeOK', NEW t \in Txs, NEW r \in EnsureArgs \cup CompleteArgs,
           Begin(t, r),
           r \in CompleteArgs => status[r.call] # "absent" /\ r.slot = Queue!SlotOf(r.call)
    PROVE  TxInv'
<1>1. ASSUME NEW u \in Txs, u # t PROVE Sound(u)'
  <2>1. /\ pc'[u] = pc[u] /\ req'[u] = req[u] /\ plan'[u] = plan[u] /\ holder' = holder
        /\ RowsAsBefore
    BY <1>1 DEF Begin, TxInv, TypeOK, queueVars, RowsAsBefore
  <2> QED  BY <2>1, Undisturbed
<1>2. Sound(t)'
  <2>1. pc'[t] = "lock" /\ req'[t] = r /\ plan'[t] = Nothing
    BY Plans DEF Begin, TxInv, TypeOK
  <2>2. status' = status /\ slotOf' = slotOf
    BY DEF Begin, queueVars
  <2> QED
    BY <2>1, <2>2, Plans DEF Sound, HoldsLock, RequestFits, DecisionHolds, UnderLock, Slot,
       Queue!SlotOf, Queue!EventOf
<1>3. TypeOK'
  BY DEF Begin, TxInv, TypeOK, Labels
<1> QED  BY <1>1, <1>2, <1>3 DEF TxInv

\* Who gets the lock finds that nobody else of the slot is past it.
LEMMA TakeLockInv ==
    ASSUME TxInv, Queue!TypeOK', NEW t \in Txs, TakeLock(t)
    PROVE  TxInv'
<1>1. /\ req[t] \in EnsureArgs \cup CompleteArgs /\ Slot(t) \in Slots
      /\ plan[t] = Nothing
  BY Args, Plans DEF TakeLock, TxInv, Sound, RequestFits, Slot, TypeOK
<1>2. ASSUME NEW u \in Txs, u # t PROVE Sound(u)'
  <2>1. pc'[u] = pc[u] /\ req'[u] = req[u] /\ plan'[u] = plan[u] /\ RowsAsBefore
    BY <1>2 DEF TakeLock, TxInv, TypeOK, queueVars, RowsAsBefore
  <2>2. holder[Slot(u)] = u => holder'[Slot(u)] = u
    BY <1>1, <1>2, TxsAssumption DEF TakeLock, TxInv, TypeOK
  <2> QED  BY <2>1, <2>2, Undisturbed
<1>3. Sound(t)'
  <2>1. pc'[t] = AfterLock(t) /\ req' = req /\ plan' = plan /\ holder'[Slot(t)] = t
    BY <1>1 DEF TakeLock, TxInv, TypeOK
  <2>2. status' = status /\ slotOf' = slotOf
    BY DEF TakeLock, queueVars
  <2>3. \/ pc'[t] = "look" /\ req[t] \in EnsureArgs
        \/ pc'[t] = "close" /\ req[t] \in CompleteArgs
    BY <2>1, <1>1, Args DEF AfterLock
  <2>4. RequestFits(t)
    BY DEF TxInv, Sound
  <2> QED
    BY <1>1, <2>1, <2>2, <2>3, <2>4, Plans DEF Sound, HoldsLock, RequestFits, DecisionHolds, Slot,
       TakeLock, Queue!SlotOf, Queue!EventOf
<1>4. TypeOK'
  <2>1. pc' \in [Txs -> Labels]
    BY DEF TakeLock, AfterLock, TxInv, TypeOK, Labels
  <2>2. holder' \in [Slots -> Txs \cup {NoTx}]
    BY DEF TakeLock, TxInv, TypeOK
  <2> QED  BY <1>1, <2>1, <2>2 DEF TakeLock, TxInv, TypeOK
<1> QED  BY <1>2, <1>3, <1>4 DEF TxInv

\* What a transaction knows after a statement that committed nothing.
LEMMA AfterGoto ==
    ASSUME TxInv, NEW t \in Txs, NEW l, NEW p, Goto(t, l, p)
    PROVE  /\ pc'[t] = l /\ plan'[t] = p /\ req'[t] = req[t] /\ holder' = holder
           /\ Slot(t)' = Slot(t) /\ status' = status
           /\ Queue!SlotOf(req[t].call)' = Queue!SlotOf(req[t].call)
           /\ Queue!OpenCalls(Slot(t))' = Queue!OpenCalls(Slot(t))
           /\ Queue!Queued(Slot(t))' = Queue!Queued(Slot(t))
           /\ Queue!Promotions(Slot(t))' = Queue!Promotions(Slot(t))
<1>1. pc'[t] = l /\ plan'[t] = p /\ req' = req /\ holder' = holder /\ RowsAsBefore
  BY DEF Goto, TxInv, TypeOK, queueVars, RowsAsBefore
<1> QED  BY <1>1, SameReads DEF RowsAsBefore, Slot, Queue!SlotOf, Queue!EventOf

\* What is read under the lock is true when it is read.
LEMMA LookInv ==
    ASSUME TxInv, Queue!TypeOK', NEW t \in Txs, LookForOpenCall(t)
    PROVE  TxInv'
<1> DEFINE l == IF Queue!OpenCalls(Slot(t)) = {} THEN "insert"
                ELSE IF req[t].named THEN "cancel" ELSE "commit"
<1>1. pc[t] = "look" /\ Goto(t, l, Nothing) /\ l \in Labels
  BY DEF LookForOpenCall, Labels
<1>2. HoldsLock(t) /\ RequestFits(t)
  BY DEF TxInv, Sound
<1>3. Sound(t)'
  <2> HIDE DEF l
  <2>1. l \in {"insert", "cancel", "commit"} /\ (l = "insert" <=> Queue!OpenCalls(Slot(t)) = {})
    BY DEF l
  <2> QED
    BY <2>1, <1>1, <1>2, AfterGoto, Plans DEF Sound, HoldsLock, RequestFits, DecisionHolds,
       UnderLock
<1> QED  BY <1>1, <1>3, GotoInv

\* The UPDATE that cancels the queue, in the plan of its transaction.
LEMMA CancelInv ==
    ASSUME TxInv, Queue!TypeOK', NEW t \in Txs, CancelQueue(t)
    PROVE  TxInv'
<1> DEFINE p == [kind |-> "abort", cancelled |-> Queue!Queued(Slot(t))]
<1>1. pc[t] = "cancel" /\ Goto(t, "commit", p)
  BY DEF CancelQueue
<1>2. HoldsLock(t) /\ RequestFits(t) /\ DecisionHolds(t)
  BY DEF TxInv, Sound
<1>3. p \in Aborts /\ p.kind = "abort" /\ p.cancelled = Queue!Queued(Slot(t))
  BY DEF Aborts, Queue!Queued
<1>4. Sound(t)'
  BY <1>1, <1>2, <1>3, AfterGoto DEF Sound, HoldsLock, RequestFits, DecisionHolds, UnderLock
<1> QED  BY <1>1, <1>3, <1>4, GotoInv DEF Labels

\* The INSERT, in the plan of its transaction.
LEMMA InsertInv ==
    ASSUME TxInv, Queue!TypeOK', NEW t \in Txs, InsertRows(t)
    PROVE  TxInv'
<1>1. PICK first \in Queue!RunsFirst(req[t].batch) :
         Goto(t, "commit", IF Queue!Running(Slot(t)) = {}
                           THEN [kind |-> "create", first |-> first] ELSE Nothing)
  BY DEF InsertRows
<1> DEFINE p == IF Queue!Running(Slot(t)) = {}
                THEN [kind |-> "create", first |-> first] ELSE Nothing
<1>2. HoldsLock(t) /\ RequestFits(t) /\ DecisionHolds(t) /\ pc[t] = "insert"
  BY DEF TxInv, Sound, InsertRows
<1>3. first \in Scenarios
  BY <1>2, Args DEF RequestFits, Queue!RunsFirst, Queue!Requests
<1>4. \/ p \in Creates /\ p.kind = "create" /\ p.first = first
      \/ p = Nothing
  BY <1>3 DEF Creates
<1>5. Goto(t, "commit", p)
  BY <1>1
<1>6. Sound(t)'
  <2> HIDE DEF p
  <2> QED
    BY <1>2, <1>4, <1>5, AfterGoto, Plans DEF Sound, HoldsLock, RequestFits, DecisionHolds,
       UnderLock, Queue!RunsFirst
<1> QED  BY <1>4, <1>5, <1>6, GotoInv DEF Labels

\* The UPDATE that closes the row.
LEMMA CloseRowInv ==
    ASSUME TxInv, Queue!TypeOK', NEW t \in Txs, CloseRow(t)
    PROVE  TxInv'
<1> DEFINE l == IF status[req[t].call] = "running" THEN "promote" ELSE "commit"
<1>1. pc[t] = "close" /\ Goto(t, l, Nothing) /\ l \in Labels
  BY DEF CloseRow, Labels
<1>2. HoldsLock(t) /\ RequestFits(t)
  BY DEF TxInv, Sound
<1>3. Sound(t)'
  <2> HIDE DEF l
  <2>1. l \in {"promote", "commit"} /\ (l = "promote" <=> status[req[t].call] = "running")
    BY DEF l
  <2> QED
    BY <2>1, <1>1, <1>2, AfterGoto, Plans DEF Sound, HoldsLock, RequestFits, DecisionHolds,
       UnderLock
<1> QED  BY <1>1, <1>3, GotoInv

\* The UPDATE that promotes the next row.
LEMMA PromoteInv ==
    ASSUME TxInv, Queue!TypeOK', NEW t \in Txs, PromoteNext(t)
    PROVE  TxInv'
<1>1. PICK promoted \in Queue!Promotions(Slot(t)) :
         \/ Goto(t, "commit", [kind |-> "close", promoted |-> promoted])
         \/ End(t) /\ UNCHANGED queueVars
  BY DEF PromoteNext
<1> DEFINE p == [kind |-> "close", promoted |-> promoted]
<1>2. HoldsLock(t) /\ RequestFits(t) /\ DecisionHolds(t) /\ pc[t] = "promote"
  BY DEF TxInv, Sound, PromoteNext
<1>3. CASE Goto(t, "commit", p)
  <2>1. p \in Closes /\ p.kind = "close" /\ p.promoted = promoted
    BY DEF Closes, Queue!Promotions, Queue!NextInLine, Queue!Queued
  <2> HIDE DEF p
  <2>2. Sound(t)'
    BY <1>2, <1>3, <2>1, AfterGoto DEF Sound, HoldsLock, RequestFits, DecisionHolds, UnderLock
  <2> QED  BY <1>3, <2>1, <2>2, GotoInv DEF Labels
<1>4. CASE End(t) /\ UNCHANGED queueVars
  BY <1>4, EndInv DEF queueVars, RowsAsBefore
<1> QED  BY <1>1, <1>3, <1>4

\* What the three commits that write touch: new rows, and rows of their slot.
LEMMA EnsureTouches ==
    ASSUME Proved!Inv, NEW k \in Slots, NEW src \in Sources,
           \/ \E batch, first : Queue!InsertBatch(k, src, batch, first)
           \/ \E s : Queue!InsertAborted(k, src, s, Queue!Queued(k))
    PROVE  TouchesOnly(k)
<1>1. /\ Queue!TypeOK
      /\ \A c \in Queue!Calls : status[c] # "absent" => Queue!EventOf(c) # lastEvent + 1
  BY QueueFacts DEF Queue!TypeOK
<1>2. \A c \in Queue!Calls : Queue!EventOf(c) \in Queue!Events
  BY DEF Queue!Calls, Queue!EventOf
<1>3. \A c \in Queue!Calls : slotOf'[Queue!EventOf(c)] =
          IF Queue!EventOf(c) = lastEvent + 1 THEN k ELSE slotOf[Queue!EventOf(c)]
  BY <1>1, <1>2 DEF Queue!TypeOK, Queue!InsertBatch, Queue!InsertAborted, Queue!NewEvent
<1>4. \A c \in Queue!Calls :
         /\ status'[c] # status[c] => Queue!EventOf(c) = lastEvent + 1 \/ c \in Queue!Queued(k)
         /\ status[c] # "absent" => status'[c] # "absent"
  <2>1. ASSUME NEW batch, NEW first, Queue!InsertBatch(k, src, batch, first), NEW c \in Queue!Calls
        PROVE  /\ status'[c] # status[c] => Queue!EventOf(c) = lastEvent + 1
               /\ status[c] # "absent" => status'[c] # "absent"
    BY <1>1, <2>1 DEF Queue!InsertBatch
  <2>2. ASSUME NEW s, Queue!InsertAborted(k, src, s, Queue!Queued(k)), NEW c \in Queue!Calls
        PROVE  /\ status'[c] # status[c] => Queue!EventOf(c) = lastEvent + 1 \/ c \in Queue!Queued(k)
               /\ status[c] # "absent" => status'[c] # "absent"
    <3>1. c = <<lastEvent + 1, s>> => Queue!EventOf(c) = lastEvent + 1
      BY DEF Queue!EventOf
    <3> QED  BY <1>1, <2>2, <3>1 DEF Queue!InsertAborted
  <2> QED  BY <2>1, <2>2
<1> QED  BY <1>1, <1>3, <1>4 DEF TouchesOnly, Queue!Queued, Queue!SlotOf

\* A complete changes rows of its own slot alone.
LEMMA CompleteTouches ==
    ASSUME NEW c \in Queue!Calls, NEW final, NEW k, Queue!SlotOf(c) = k, Queue!Complete(c, final)
    PROVE  TouchesOnly(k)
<1>1. PICK promoted \in Queue!Promotions(k) : Queue!CloseAndPromote(c, final, promoted)
  BY DEF Queue!Complete
<1>2. \A d \in promoted : Queue!SlotOf(d) = k
  BY DEF Queue!Promotions, Queue!NextInLine, Queue!Queued
<1>3. \A d \in Queue!Calls : status'[d] = IF d = c THEN final
                                   ELSE IF d \in promoted THEN "running" ELSE status[d]
  BY <1>1 DEF Queue!CloseAndPromote
<1>4. slotOf' = slotOf /\ final \in Queue!Final
  BY <1>1 DEF Queue!CloseAndPromote, Queue!Complete
<1> QED  BY <1>2, <1>3, <1>4 DEF TouchesOnly, Queue!SlotOf, Queue!Final

\* A commit: nobody else was past the lock of the slot.
LEMMA CommitInv ==
    ASSUME TxInv, Proved!Inv, Queue!TypeOK', NEW t \in Txs,
           CommitNothing(t) \/ CommitCreate(t) \/ CommitAbort(t) \/ CommitClose(t)
    PROVE  TxInv'
<1>1. End(t) /\ pc[t] \in UnderLock
  BY DEF CommitNothing, CommitCreate, CommitAbort, CommitClose, UnderLock
<1>2. CASE CommitNothing(t)
  BY <1>1, <1>2, EndInv DEF CommitNothing, queueVars, RowsAsBefore
<1>3. CASE CommitCreate(t)
  <2>1. TouchesOnly(Slot(t))
    BY <1>3, CreateIsEnsure, EnsureTouches DEF Queue!EnsureCreate
  <2> QED  BY <1>1, <2>1, EndInv
<1>4. CASE CommitAbort(t)
  <2>1. TouchesOnly(Slot(t))
    BY <1>4, AbortIsEnsure, EnsureTouches DEF Queue!EnsureAborted
  <2> QED  BY <1>1, <2>1, EndInv
<1>5. CASE CommitClose(t)
  <2>1. TouchesOnly(Slot(t))
    BY <1>5, CloseIsComplete, CompleteTouches
  <2> QED  BY <1>1, <2>1, EndInv
<1> QED  BY <1>2, <1>3, <1>4, <1>5

\* A deadline passes, or nothing happens.
LEMMA RestInv ==
    ASSUME TxInv, Queue!TypeOK',
           (\E c \in Queue!Calls : DeadlinePasses(c)) \/ UNCHANGED vars
    PROVE  TxInv'
<1>1. RowsAsBefore /\ UNCHANGED txVars
  BY DEF DeadlinePasses, Queue!DeadlinePasses, vars, txVars, RowsAsBefore
<1>2. \A u \in Txs : Sound(u)'
  BY <1>1, Undisturbed DEF txVars
<1>3. TypeOK'
  BY <1>1 DEF TxInv, TypeOK, txVars
<1> QED  BY <1>2, <1>3 DEF TxInv

\* Nobody has a transaction at the start.
LEMMA TxInit == Init => TxInv
<1> SUFFICES ASSUME Init PROVE TxInv
  OBVIOUS
<1>1. /\ holder \in [Slots -> Txs \cup {NoTx}]
      /\ pc \in [Txs -> Labels] /\ \A t \in Txs : pc[t] = "idle"
      /\ req \in [Txs -> EnsureArgs \cup CompleteArgs \cup {NoReq}]
      /\ plan \in [Txs -> Creates \cup Aborts \cup Closes \cup {Nothing}]
      /\ \A t \in Txs : plan[t] = Nothing
  BY DEF Init, Labels
<1>2. Queue!TypeOK
  BY QueueInit, QueueFacts DEF Init
<1>3. TypeOK
  BY <1>1, <1>2 DEF TypeOK
<1>4. \A t \in Txs : Sound(t)
  BY <1>1, Plans DEF Sound, HoldsLock, RequestFits, DecisionHolds, UnderLock
<1> QED  BY <1>3, <1>4 DEF TxInv

\* Every step keeps the invariant of the table and that of the transactions.
LEMMA TxNext == Proved!Inv /\ TxInv /\ [Next]_vars => Proved!Inv' /\ TxInv'
<1> SUFFICES ASSUME Proved!Inv, TxInv, [Next]_vars PROVE Proved!Inv' /\ TxInv'
  OBVIOUS
<1>1. Proved!Inv'
  BY StepRefines, QueueNext
<1>2. Queue!TypeOK'
  BY <1>1, QueueFactsPrimed
<1>3. ASSUME NEW t \in Txs, NEW r \in EnsureArgs, BeginEnsure(t, r)
      PROVE  TxInv'
  BY <1>2, <1>3, BeginInv, Args DEF BeginEnsure
<1>4. ASSUME NEW t \in Txs, NEW r \in CompleteArgs, BeginComplete(t, r)
      PROVE  TxInv'
  BY <1>2, <1>4, BeginInv DEF BeginComplete, Queue!SlotOf
<1>5. ASSUME NEW t \in Txs, Step(t)
      PROVE  TxInv'
  BY <1>2, <1>5, LookInv, CancelInv, InsertInv, CloseRowInv, PromoteInv, CommitInv DEF Step
<1>6. ASSUME NEW t \in Txs, Rollback(t)
      PROVE  TxInv'
  BY <1>2, <1>6, EndInv DEF Rollback, queueVars, RowsAsBefore
<1> QED
  BY <1>1, <1>2, <1>3, <1>4, <1>5, <1>6, TakeLockInv, RestInv DEF Next

\* Both invariants hold for ever.
LEMMA Invariance == Spec => [](Proved!Inv /\ TxInv)
<1>1. Init => Proved!Inv /\ TxInv
  BY TxInit, QueueInit DEF Init
<1> QED  BY <1>1, TxNext, PTL DEF Spec

----------------------------------------------------------------------------
(* The theorems.                                                            *)

\* The variables keep their types, and nobody has uncommitted writes but a
\* transaction about to commit.
THEOREM TypeCorrect == Spec => []TypeOK
  BY Invariance, PTL DEF TxInv

\* Between the open-call test of spine_ensure_call (or the UPDATE of
\* spine_complete_call) and the commit, nobody changes what the decision rests
\* on, however many connections run the two RPCs.
THEOREM DecisionsStand == Spec => []DecisionsHold
<1>1. TxInv => DecisionsHold
  BY DEF TxInv, Sound, DecisionsHold
<1> QED  BY <1>1, Invariance, PTL

\* The RPCs appear atomic: the committed rows behave as CallQueue.
THEOREM Atomic == Spec => RefinesQueue
<1>1. Init => Queue!Init
  BY DEF Init
<1> QED  BY <1>1, Invariance, StepRefines, PTL DEF Spec, RefinesQueue, Queue!Spec

\* A transaction about to write a running row finds the unique index without
\* another: the handler of unique_violation is dead code under the lock.
THEOREM IndexFreeOfConflicts == Spec => []IndexNeverViolated
<1>1. Proved!Inv /\ TxInv => IndexNeverViolated
  <2> SUFFICES ASSUME Proved!Inv, TxInv, NEW t \in Txs
               PROVE  /\ pc[t] = "insert" => Queue!Running(Slot(t)) = {} /\ IndexFree(t, Slot(t))
                      /\ pc[t] = "promote" => Queue!Running(Slot(t)) = {req[t].call}
    BY DEF IndexNeverViolated
  <2>1. RequestFits(t) /\ DecisionHolds(t)
    BY DEF TxInv, Sound
  <2>2. ASSUME pc[t] = "insert"
        PROVE  Queue!Running(Slot(t)) = {} /\ IndexFree(t, Slot(t))
    <3>1. Queue!Running(Slot(t)) = {}
      BY <2>1, <2>2 DEF DecisionHolds, Queue!OpenCalls
    <3>2. ASSUME NEW u \in Txs \ {t}
          PROVE  ~Claims(u, Slot(t))
      <4>1. plan[u] # Nothing => Slot(u) # Slot(t)
        BY <2>2, <3>2, SlotsApart DEF TxInv, TypeOK, UnderLock
      <4> QED  BY <4>1, Plans DEF Claims
    <3> QED  BY <3>1, <3>2 DEF IndexFree, RowsFree
  <2>3. ASSUME pc[t] = "promote"
        PROVE  Queue!Running(Slot(t)) = {req[t].call}
    <3>1. /\ req[t].call \in Queue!Calls /\ status[req[t].call] = "running"
          /\ Queue!SlotOf(req[t].call) = Slot(t)
      BY <2>1, <2>3, Args DEF RequestFits, DecisionHolds
    <3> QED  BY <3>1, QueueFacts DEF Queue!Running, Queue!AtMostOneRunning
  <2> QED  BY <2>2, <2>3
<1> QED  BY <1>1, Invariance, PTL

\* So the transactions keep the promise of Contact: whatever the connections
\* do, a contact talks to one scenario at a time and is handed over in order.
THEOREM ContactsAreServed == Spec => Proved!ServesContacts
<1>1. Queue!Spec => Proved!Spec
  BY SameQueue, PTL DEF Queue!Spec, Proved!Spec
<1>2. Proved!Spec => Proved!ServesContacts
  BY QueueAssumption, Proved!KeepsPromise DEF Proved!KeepsPromise, Proved!PriorityAssumption,
     Proved!EventsAssumption, Proved!SourcesAssumption, Proved!SlotsAssumption
<1> QED  BY <1>1, <1>2, Atomic, PTL DEF RefinesQueue

============================================================================

------------------------------- MODULE CallTx -------------------------------
(***************************************************************************)
(* spine_ensure_call and spine_complete_call as PostgreSQL runs them: each *)
(* is one READ COMMITTED transaction of several statements, on one of the  *)
(* connections PostgREST holds, and both take the advisory lock of their   *)
(* slot before they look at the calls.  What a transaction has written is  *)
(* its plan until it commits; the others see only committed rows, wait for *)
(* the rows it has updated, and wait for its entries in the unique index   *)
(* uniq_running_call_per_contact.  The committed rows implement CallQueue. *)
(***************************************************************************)
EXTENDS Integers, FiniteSets

CONSTANTS Slots, Scenarios, Priority, Sources, Closings, MaxEvents, NoSlot, NoSource,
          Txs,   \* the database connections
          NoTx   \* the holder of a free lock

ASSUME TxsAssumption == NoTx \notin Txs

\* What CallQueue assumes of its constants.
ASSUME QueueAssumption ==
    /\ Priority \in [Scenarios -> Nat] /\ MaxEvents \in Nat
    /\ "trigger" \in Sources /\ NoSource \notin Sources /\ NoSlot \notin Slots

VARIABLES
    lastEvent, slotOf, sourceOf, status, due,  \* the committed rows
    holder,  \* holder[k]: the transaction that holds the advisory lock of slot k
    pc,      \* pc[t]: the statement transaction t is at
    req,     \* req[t]: the call of the RPC that t runs
    plan     \* plan[t]: what t has written and not committed

queueVars == <<lastEvent, slotOf, sourceOf, status, due>>
txVars    == <<holder, pc, req, plan>>
vars      == <<lastEvent, slotOf, sourceOf, status, due, holder, pc, req, plan>>

\* The two RPCs as atomic steps on the committed rows.
Queue == INSTANCE CallQueue

\* The arguments of the RPCs.  A named ensure has a scenario_id, the other is
\* a trigger.  A complete knows its slot from the row it closes.
EnsureArgs == {r \in [op : {"ensure"}, slot : Slots, source : Sources,
                      named : BOOLEAN, batch : SUBSET Scenarios] :
                 /\ r.batch \in Queue!Requests(r.source)
                 /\ r.named => \E s \in Scenarios : r.batch = {s}
                 /\ ~r.named => r.source = "trigger"}
CompleteArgs_AnyStatus == [op : {"complete"}, call : Queue!Calls, slot : Slots,
                           final : Closings]

\* INVALID_STATUS is answered before anything is read.
CompleteArgs == {r \in [op : {"complete"}, call : Queue!Calls, slot : Slots,
                        final : Closings] : r.final \in Queue!Final}

NoReq   == [op |-> "none"]
Nothing == [kind |-> "nothing"]
Creates == [kind : {"create"}, first : Scenarios]
Aborts  == [kind : {"abort"}, cancelled : SUBSET Queue!Calls]
Closes  == [kind : {"close"}, promoted : SUBSET Queue!Calls]

Slot(t) == req[t].slot

\* The committed rows that t has updated or locked FOR UPDATE.
RowsHeld(t) ==
    CASE pc[t] = "promote"        -> {req[t].call}
      [] plan[t].kind = "abort"   -> plan[t].cancelled
      [] plan[t].kind = "close"   -> {req[t].call} \cup plan[t].promoted
      [] OTHER                    -> {}

\* t has an uncommitted running row in slot k.
Claims(t, k) ==
    \/ plan[t].kind = "create" /\ Slot(t) = k
    \/ plan[t].kind = "close" /\ plan[t].promoted # {} /\ Slot(t) = k

\* No other transaction is in the way of t's writing these rows, or of a
\* running row in slot k.
RowsFree(t, rows) == \A u \in Txs \ {t} : RowsHeld(u) \cap rows = {}
IndexFree(t, k)   == /\ \A u \in Txs \ {t} : ~Claims(u, k)
                     /\ RowsFree(t, Queue!Running(k))

\* What t does next, and what it has written by then.
Goto(t, l, p) ==
    /\ pc' = [pc EXCEPT ![t] = l]
    /\ plan' = [plan EXCEPT ![t] = p]
    /\ UNCHANGED <<queueVars, holder, req>>

End_SessionLock(t) ==
    /\ pc' = [pc EXCEPT ![t] = "idle"]
    /\ req' = [req EXCEPT ![t] = NoReq]
    /\ plan' = [plan EXCEPT ![t] = Nothing]
    /\ UNCHANGED holder

\* The end of a transaction releases its lock, if it has it.
End(t) ==
    /\ holder' = [k \in Slots |-> IF holder[k] = t THEN NoTx ELSE holder[k]]
    /\ pc' = [pc EXCEPT ![t] = "idle"]
    /\ req' = [req EXCEPT ![t] = NoReq]
    /\ plan' = [plan EXCEPT ![t] = Nothing]

----------------------------------------------------------------------------
(* The statements up to the lock.                                           *)

Begin(t, r) ==
    /\ pc[t] = "idle"
    /\ pc' = [pc EXCEPT ![t] = "lock"]
    /\ req' = [req EXCEPT ![t] = r]
    /\ UNCHANGED <<queueVars, holder, plan>>

\* spine_ensure_call has found contact and scenario in order.  The bound on
\* events counts the ensures on their way.
BeginEnsure(t, r) ==
    /\ lastEvent + Cardinality({u \in Txs : req[u].op = "ensure"}) < MaxEvents
    /\ Begin(t, r)

\* spine_complete_call has read phone and contact of an existing row.
BeginComplete(t, r) ==
    /\ status[r.call] # "absent"
    /\ r.slot = slotOf[Queue!EventOf(r.call)]
    /\ Begin(t, r)

AfterLock(t) == IF req[t].op = "ensure" THEN "look" ELSE "close"

TakeLock_NotTaken(t) ==
    /\ pc[t] = "lock"
    /\ Goto(t, AfterLock(t), Nothing)

\* spine_lock_slot: pg_advisory_xact_lock waits for the holder to end.
TakeLock(t) ==
    /\ pc[t] = "lock"
    /\ holder[Slot(t)] = NoTx
    /\ holder' = [holder EXCEPT ![Slot(t)] = t]
    /\ pc' = [pc EXCEPT ![t] = AfterLock(t)]
    /\ UNCHANGED <<queueVars, req, plan>>

----------------------------------------------------------------------------
(* spine_ensure_call under the lock.                                        *)

\* The SELECT of an open call: none, and the rows are inserted; one, and a
\* trigger is denied, while a named request goes on to cancel the queue.
LookForOpenCall(t) ==
    /\ pc[t] = "look"
    /\ Goto(t, IF Queue!OpenCalls(Slot(t)) = {} THEN "insert"
               ELSE IF req[t].named THEN "cancel" ELSE "commit", Nothing)

\* The UPDATE of the queued rows and the INSERT of the aborted one.
CancelQueue(t) ==
    /\ pc[t] = "cancel"
    /\ RowsFree(t, Queue!Queued(Slot(t)))
    /\ Goto(t, "commit", [kind |-> "abort", cancelled |-> Queue!Queued(Slot(t))])

\* The loop of INSERTs.  A running row in the index raises unique_violation:
\* the handler undoes the loop and denies the request.
InsertRows(t) ==
    /\ pc[t] = "insert"
    /\ IndexFree(t, Slot(t))
    /\ \E first \in Queue!RunsFirst(req[t].batch) :
          Goto(t, "commit", IF Queue!Running(Slot(t)) = {}
                            THEN [kind |-> "create", first |-> first]
                            ELSE Nothing)

----------------------------------------------------------------------------
(* spine_complete_call under the lock.                                      *)

\* The UPDATE of the call; of a row that is not running it updates nothing,
\* and the RPC answers CALL_NOT_RUNNING.
CloseRow(t) ==
    /\ pc[t] = "close"
    /\ RowsFree(t, {req[t].call})
    /\ Goto(t, IF status[req[t].call] = "running" THEN "promote" ELSE "commit", Nothing)

\* The SELECT FOR UPDATE of the next call and its UPDATE to running.  A second
\* running row in the index would fail the whole transaction.
PromoteNext(t) ==
    /\ pc[t] = "promote"
    /\ RowsFree(t, Queue!Queued(Slot(t)))
    /\ \E promoted \in Queue!Promotions(Slot(t)) :
          IF promoted = {} \/ Queue!Running(Slot(t)) = {req[t].call}
          THEN Goto(t, "commit", [kind |-> "close", promoted |-> promoted])
          ELSE End(t) /\ UNCHANGED queueVars

----------------------------------------------------------------------------
(* The end of a transaction.                                                *)

\* A transaction that wrote nothing ends with the rows as they are.
CommitNothing(t) ==
    /\ pc[t] = "commit"
    /\ plan[t].kind = "nothing"
    /\ End(t)
    /\ UNCHANGED queueVars

CommitCreate(t) ==
    /\ pc[t] = "commit"
    /\ plan[t].kind = "create"
    /\ Queue!InsertBatch(Slot(t), req[t].source, req[t].batch, plan[t].first)
    /\ End(t)

CommitAbort(t) ==
    /\ pc[t] = "commit"
    /\ plan[t].kind = "abort"
    /\ \E s \in req[t].batch :
          Queue!InsertAborted(Slot(t), req[t].source, s, plan[t].cancelled)
    /\ End(t)

CommitClose(t) ==
    /\ pc[t] = "commit"
    /\ plan[t].kind = "close"
    /\ Queue!CloseAndPromote(req[t].call, req[t].final, plan[t].promoted)
    /\ End(t)

\* The connection drops or a statement times out: nothing was written.
Rollback(t) ==
    /\ pc[t] # "idle"
    /\ End(t)
    /\ UNCHANGED queueVars

DeadlinePasses(c) == Queue!DeadlinePasses(c) /\ UNCHANGED txVars

Init ==
    /\ Queue!Init
    /\ holder = [k \in Slots |-> NoTx]
    /\ pc = [t \in Txs |-> "idle"]
    /\ req = [t \in Txs |-> NoReq]
    /\ plan = [t \in Txs |-> Nothing]

Step(t) ==
    \/ LookForOpenCall(t)
    \/ CancelQueue(t)
    \/ InsertRows(t)
    \/ CloseRow(t)
    \/ PromoteNext(t)
    \/ CommitNothing(t)
    \/ CommitCreate(t)
    \/ CommitAbort(t)
    \/ CommitClose(t)

Next ==
    \/ \E t \in Txs :
          \/ \E r \in EnsureArgs : BeginEnsure(t, r)
          \/ \E r \in CompleteArgs : BeginComplete(t, r)
          \/ TakeLock(t)
          \/ Step(t)
          \/ Rollback(t)
    \/ \E c \in Queue!Calls : DeadlinePasses(c)

Spec == Init /\ [][Next]_vars

\* A transaction that can go on does, and PostgreSQL grants a lock in the
\* order it was asked for, so nobody is passed over for ever.
Fairness == \A t \in Txs : WF_vars(Step(t)) /\ SF_vars(TakeLock(t))

FairSpec == Spec /\ Fairness

----------------------------------------------------------------------------
(* Properties.                                                              *)

Labels == {"idle", "lock", "look", "cancel", "insert", "close", "promote", "commit"}

\* The types, and that a plan is only ever that of a transaction about to
\* commit the RPC it belongs to.
TypeOK ==
    /\ Queue!TypeOK
    /\ holder \in [Slots -> Txs \cup {NoTx}]
    /\ pc \in [Txs -> Labels]
    /\ req \in [Txs -> EnsureArgs \cup CompleteArgs \cup {NoReq}]
    /\ plan \in [Txs -> Creates \cup Aborts \cup Closes \cup {Nothing}]
    /\ \A t \in Txs : plan[t] # Nothing => pc[t] = "commit"

\* What a transaction has read under the lock still holds when it acts on it,
\* many statements later: the slot is as free, or the queue as long, or the
\* call as much running, as when its plan was made.
DecisionHolds(t) ==
    /\ pc[t] = "insert" \/ plan[t].kind = "create" => Queue!OpenCalls(Slot(t)) = {}
    /\ pc[t] = "cancel" \/ plan[t].kind = "abort" => Queue!OpenCalls(Slot(t)) # {}
    /\ plan[t].kind = "abort" => plan[t].cancelled = Queue!Queued(Slot(t))
    /\ pc[t] = "promote" \/ plan[t].kind = "close" => status[req[t].call] = "running"
    /\ plan[t].kind = "close" => plan[t].promoted \in Queue!Promotions(Slot(t))

\* What each transaction has seen under the lock still stands when it writes.
DecisionsHold == \A t \in Txs : DecisionHolds(t)

\* Whenever a transaction is about to write a running row, the unique index
\* has no other: the handler of unique_violation (CALL_ALREADY_ACTIVE) is
\* never reached, and no complete fails on the index.
IndexNeverViolated ==
    \A t \in Txs :
        /\ pc[t] = "insert" => Queue!Running(Slot(t)) = {} /\ IndexFree(t, Slot(t))
        /\ pc[t] = "promote" => Queue!Running(Slot(t)) = {req[t].call}

\* The RPCs appear atomic: the committed rows change as CallQueue says.
RefinesQueue == Queue!Spec

\* No transaction waits for ever: it takes one advisory lock, and no row its
\* holder has not locked the slot for, so there is no cycle to wait in.
TransactionsEnd == \A t \in Txs : pc[t] # "idle" ~> pc[t] = "idle"

============================================================================

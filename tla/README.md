# ICR: the calls of the Spine, in TLA+

ICR runs scripted conversations ("scenarios") with contacts over WhatsApp. This
directory holds TLA+ modules of the part that decides who talks to whom, and when:
the calls table, the two RPCs that change it and the handlers of the Spine around
them. TLC checks the modules on small instances; TLAPS proves the theorems of the
`*Proofs.tla` modules for every value of the constants.

## The system

| component | state it keeps | operations | model |
|---|---|---|---|
| `spine_ensure_call`, `spine_complete_call` (PL/pgSQL) | rows of `calls`: slot (phone, contact), status, priority, source, `event_id`, `expected_end` | create a batch, deny, abort and cancel the queue; close and promote | `CallQueue` |
| `spine_sla_deadline`, the sweep's list, the end of a call | `expected_end`, `ended_at` | deadline arithmetic, sweep, three writes of a summary | `Closing` |
| transactions, `spine_lock_slot`, `uniq_running_call_per_contact` | advisory locks, row locks, uncommitted rows | the statements of the two RPCs, commit, rollback | `CallTx` |
| `dispatch.py`, `services/calls.py` | nothing but the request being handled | ensure, complete, sweep; init with retries, release | `CallFlow` |
| `worker_events.py` summary | statistics on the row, notifications | close, promote, init of the next call, end marker, notify | `CallFlow`; ended_at and the sending of the end marker in `Closing` |
| `routers/calls.py` | - | manual ensure with one send | `CallFlow` |
| `incoming.py` | - | route a message to the running call, then trigger; end marker and leaf links of outgoing messages | `Incoming` (a contact's messages), `LeafLinks`; not the end marker that comes back |
| `send.py`, leaves in `worker_events.py` | `spine_leaves`, `spine_leaf_messages` | upsert and patch of links | `LeafLinks` (sent messages) |
| Scheduler | `schedules` | poll, fire, next run; ask for sweeps | `Scheduler`; the sweeps are in `CallFlow` |
| provisioner, heartbeat | `phone_workers` | reconcile, heartbeat, `worker_url` | `WorkerRegistry` |
| Worker, HostAgent, PostgreSQL | outside this repository | | as their callers see them |
| `promote.py`, `Promote_call.sql`, `queue_service.py`, `sla_service.py` | - | an older promotion path | not modelled: not registered, not scheduled |
| `recording_service.py`, `cron_service.py`, `main.py` registration, `active_chats.py`, scripts | - | one UPDATE, a library call, one upsert, reads | not modelled |

How they interact. HostAgent posts every message to `/incoming`; the Scheduler posts
`/api/calls/ensure` and `/api/calls/sweep`; a person posts `/calls` or
`/api/calls/{id}/complete`. Each of these calls one RPC, and the answer says which
call, if any, has just become running. The handler sends that call's init to the
Worker of the phone. The Worker runs the scenario and ends it with
`/calls/{id}/summary`, which closes the call and so promotes the next of the queue.

What is hard about it:

* Two RPCs of a contact at the same time: the test and the writes of an RPC are
  separate statements under READ COMMITTED.
* Handlers await the Worker and the database in the middle; what they have read may
  not hold afterwards, and they may die at any await. Only the answer of an RPC says
  whose init is to be sent, so a lost answer is a call without a session.
* An init that is not answered may still have been taken, and an RPC whose answer is lost
  may have been committed: a 503 or a 500 does not say that nobody was called.
* The Worker posts summaries again, sweeps overlap, and both meet the release.
* Three handlers write the link between a leaf and its message, in any order, one of
  them from what it read before.
* The Scheduler stops waiting for an ensure the Spine goes on with, and may be restarted
  before it has noted the answer.
* The Worker dies, and only the sweep closes its calls; one RPC that raises ends a sweep.
* The provisioner acts on rows it has read earlier, takes a failed read for an empty
  table and forgets a failed write, while heartbeats write the same rows.

What makes the components correct: a contact talks to one scenario at a time; a queue
never outlives what it waits for, and runs in order; each init has one sender; nobody
is told twice of a summary; every running call ends, not before its time; the time the
row gives for its end is the one reported, and no end marker is sent before it; an active
phone has its Worker. PROJECT.json lists the hazards at their lines.

## Modules

**CallQueue** is the specification of the calls table: the two RPCs as atomic steps.
A row is `<<event, scenario>>`, as the rows of one ensure share an `event_id`. `status`
and `due` (whether `expected_end` has passed) are per row, `slotOf` and `sourceOf` per
event. Requests that are refused change nothing and are stutters. Times other than the
deadline, snapshots and messages are left out. The operators `InsertBatch`,
`InsertAborted` and `CloseAndPromote` say what the statements write, without the
guards, and `CallTx` commits exactly these.

**Contact** is what those steps promise a contact: `talking`, at most one call, `waiting`,
those that follow it in order of rank, and `gone`, those that are over. A batch is
admitted by a free contact, a call asked for by name is turned away from a busy one and
takes the waiting ones with it, and the one that ends hands over to the first that waits
in the same step. There are no rows, events or deadlines. `ServesContacts` says that
`CallQueue` implements it: running rows talk, queued rows wait, closed rows are gone;
`DeadlinePasses` and refused requests are stutters.

**CallTx** has the same two RPCs as transactions: take the advisory lock, look, write,
commit. What a transaction has written is its `plan` until it commits; a statement
waits for rows and index entries that others hold uncommitted. A transaction may roll
back anywhere. `RefinesQueue` says that the committed rows change as `CallQueue` allows
(the refinement mapping is the identity on the five variables of the table).

**CallFlow** takes the RPCs as the atomic steps `CallTx` justifies and has the handlers
around them. `task[h]` is what a handler is doing between two awaits:

| label | code |
|---|---|
| `send` | `send_to_worker` with an init; `InitFailed` covers no worker row, a refusal, a failed connection and a lost answer |
| `release` | `complete_call(…, UNDELIVERED_STATUS)` in `deliver_init_or_release` |
| `close` | `complete_call` of a summary, a complete, or one row of a sweep |
| `notify` | from the end marker to `_notify_summary` |
| `created`, `unavailable` | ensure answers 201 or 503 |

`worker[c]` is what the Worker does with a call: it may end it and post a summary any
number of times, or lose everything in a restart. `stranded` is a history variable:
the running calls that the code knowingly gives up (one send that failed, the end of
the promotion chain) or that a death left behind.

**Incoming** is the handling of a contact's messages: `Look` (`_get_active_call`),
`Route…`, `Trigger…`, `SendInit`, with other requests and completes beside it.

**LeafLinks** has, for each leaf, the Worker that posts it, sends its message and reports
its status, HostAgent that sends, stores and announces the message, and the three handlers
that write the link: `send` (POST /send, which writes it also when HostAgent answers an
error together with a WhatsApp id: `SendRejected`), `hook` (POST /incoming) and `patch`
(PATCH /leaves/status, between its look at `messages` and its upsert). A link is absent,
open (`message_id` null) or complete. Retries of the Worker are left out.

**Scheduler** is the poll of the schedules. `list` is what the poll has read and not yet
gone through, `due` what the next one would read, in order of `next_run`.
`request[s, "live"]` is the ensure the Scheduler waits for; when it stops waiting the
request becomes `"late"` and the Spine goes on with it. Contacts have open calls of
schedules (`owners`) and of others (`others`), which come and go. What the Spine does with
a request is what `CallFlow` and the RPC leave possible:

| action | code |
|---|---|
| `RpcCreates`, `RpcRefuses` | no open call; an open one, the schedule's own among them: 409 |
| `RpcForbids` | `CONTACT_NOT_ACTIVE`, `TWO_FACTOR_REQUIRED`: 409 as well, with or without an open call |
| `RpcFails` | 404, or 500 with nothing created |
| `InitDelivered` | 201 |
| `InitGivenUp` | 503 after the release; a Worker may have taken an init whose answer was lost |
| `EnsureRaises` | 500, or none: the answer of the RPC is lost after its commit, or the release raises; the call may stay open |

A `"manual"` schedule is a once schedule that becomes due again when somebody plays it
(`schedule_run_now`, outside `src/`). `starts`, `refused` and `faults` are history
variables: the calls a Worker took for a schedule since it became due, what the Spine
last refused it for, and how often an answer was lost, a process died or a release raised on its
account. `MaxFaults` bounds the latter for each schedule. At most one request of a
schedule is left behind at a time.

**WorkerRegistry** is the provisioner's `reconcile`, one read, Docker command or upsert at
a time, and the heartbeats. `job` is the reconcile under way: what it read (`phones`,
`found`), which loop it is in (`at`, `left`) and the upsert it is about to make (`write`).
`posts` are heartbeats on their way, `service` what Docker runs, `row` the table. Any
request may fail, the provisioner may restart, a container may restart and say goodbye,
somebody may remove a service by hand: `MaxFaults` of these. `steady` and `blind` are
history variables for `OnlyBlindStops`. Service names do not change, as phone numbers
do not; the age of a heartbeat is not modelled (`worker_url` does not look at it, and
`Scheduler` has `worker_is_active` as active or not).

**Closing** has time as a clock and deadlines as integers. `Deadline` is
`spine_sla_deadline`: `safe_int`, the default, the buffer and an addition that raises
(`Fits`). A complete raises when the call it would promote has no deadline (`Raises`), and
everything it did is undone. The sweep is its read (`Lists`: oldest first, up to the limit),
one close per row, and the release of a promoted call whose init was not delivered. A
summary (`post[n]`) writes the statistics, closes, writes `ended_at` again and sends the end
marker, in four steps between which it may die. `endedAt` says who wrote it: nobody, the
Worker's report or the RPC. `markers` is a history variable, the calls for which a summary
has had an end marker sent. One clock stands for `now()` of the database, which sets
deadlines, and of the Spine's host, which compares them: that the two agree is an
assumption, about which ERD.md:222-231 warns (timestamps without a time zone). The batches
exist from the start: what an ensure does to a slot is in `CallQueue`, inits and their
senders in `CallFlow`. (An ensure that cancels the queue frees a contact whose next call has
no deadline; it is left out here, so `Hidden` may last for ever.)

`MC*.tla` give the constants values. Operators named `X_Something` next to an operator
`X` are slips one could make in `X`; no specification uses them. Each of the checked
properties fails with the one PROJECT.json names for it.

## Runs

| run | bounds | shows |
|---|---|---|
| `CallQueue.cfg` | 2 contacts, 3 scenarios (two tie), 3 inserting ensures, closings valid and invalid | one running call, no orphan queue, one batch per queue, priority order, deadlines, legal transitions, `Contact` implemented |
| `CallTx.cfg` | 2 connections, 2 contacts, 2 scenarios, 2 ensures | decisions under the lock hold, the index is never violated, the RPCs appear atomic, no transaction waits for ever |
| `CallFlow.cfg` | 2 handlers, 1 contact, 2 scenarios, 2 ensures, 2 attempts, chain of 2, sweeps of one row, one death | one sender, at most one notification, 503 means released, no early sweep |
| `CallFlowLive.cfg` | the same with a batch of 3 scenarios, one ensure and a chain of 1 | nobody forgotten without a trace in `stranded`, every running call ends, every queue drains |
| `Incoming.cfg` | 2 messages of a contact, 2 scenarios, 3 ensures | how far routing and trigger may disagree |
| `LeafLinks.cfg` | 2 leaves, requests may fail | a PATCH that finds the message completes the link for good; only one that does not find it undoes it |
| `Scheduler.cfg` | one contact; a once schedule that may meet one fault, a manual one, a cron schedule of an inactive scenario, one of unknown type; limit of 2 | one start, and one more for each fault; completed only after an answer; everyone due has a turn |
| `WorkerRegistry.cfg` | 2 phones, 2 faults | nothing but a failed read of the phones stops the Worker of an active phone; active phones come to be served, inactive ones stopped |
| `Closing.cfg` | batches of 3 and 1, estimates unreadable, too large, negative; clock to 2, sweeps of one row, 2 summaries, one death | ended_at is the reported time, no end marker before the end, nobody is swept early, everybody not behind a raising row is swept |
| `CallFlowRelease.cfg` | as `CallFlow.cfg` | fails: a call the Worker runs is released as undelivered |
| `IncomingDropped.cfg` | as `Incoming.cfg`, two ensures | fails: a denied message goes to nobody |
| `LeafLinksOrder.cfg` | 1 leaf, no request fails | fails: a link that was complete ends without its message |

Why the bounds are enough. Slots do not share rows, locks or index entries, so two show what
slots can do to each other. Three scenarios are a batch with a tie and a queue that is
promoted from twice. Two transactions, handlers or messages are what a race needs; a third
adds another of the same kind. Two attempts reach both branches of the retry (the code has
4). A release promotes somebody only from a queue, which needs a batch of three:
`CallFlowLive.cfg` has one, and with a chain of one it reaches the end of the chain with a
call just promoted, for which only the sweep is left. That a release goes on to the init of
the call it promoted needs a longer chain, and both together a batch of four, which is out
of reach with liveness; that branch is covered by the theorems of `CallFlowProofs` alone,
which are about any chain (the code has 5). The queue takes a third event only to show that
rows of older events stay as they are. One schedule that the Spine refuses for ever and a
limit of two show the head of the list occupied and one place free; with as many such
schedules as the limit (50 by default in the code) nobody else would have a turn, and
`DueIsHandled` would fail. One fault is enough for a second start, for the schedule's own
call to be in its way, and for a request left behind to race with the next one. Faults of
the schedules that come again (manual, cron) are left to the theorems, as they add the same
faults to more rounds. Two phones show a reconcile in the middle of its list; two faults are
a failure and a second one while the first is being repaired. In `Closing` the default is 0
and the buffer 1, so that a clock of 2 sees deadlines ahead, reached and past, and the limit
of one row makes every sweep choose; the batch of three is promoted from twice, its second
call overflowing or not, and the batch of one has a deadline before or after the other's.
`CHECK_DEADLOCK FALSE` stands everywhere: when the bound on ensures is reached and all calls
are closed, the models, unlike the system, have nothing more to do.

The three runs that fail are disagreements between the code and what its documents say;
PROJECT.json quotes the lines. `DeniedByNewcomer` says what remains true of the one about
messages. Two more disagreements show in the models without a run of their own. A call
that is closed between the routing of a message and its trigger lets the message act
twice (FLOW.md:54 says only one of them can): `TwiceOnlyAfterClose` says that nothing else
does. And a trigger that names its scenario, as `POST /api/calls/ensure` allows, preempts the
queue and leaves a row (dispatch.py:38 says it leaves none): `EnsureAborted` takes it as
the RPC does.

One document is of an earlier policy. The table of src/README.md:63-68, and the sentence
after it (line 71), have a trigger against an active call queued by priority, with 202
`CALL_QUEUED`. The RPC turns such a trigger away (spine_ensure_call_2fa.sql:119-138), no
code answers `CALL_QUEUED`, and FLOW.md:25 and its policy table say the same as the code.
`QueueIsOneBatch` and `ServesContacts` are properties of the code and of FLOW.md; under the
older table both would be wrong, as a queue would mix messages.

`Closing` and `WorkerRegistry` show three limits of the code in what their properties
exempt. While a row whose promotion raises is stuck, every row with a later deadline is
out of the sweep's reach (`Hidden`). A reconcile that cannot read the phones stops the
Worker of each of them (`blind`); the next one starts them again. And a service whose
upsert failed has no row: if its phone is switched off then, nobody removes it.

## Fairness

* `CallTx`: a transaction that can take its next statement does (WF of `Step`), and one
  that asks for a lock again and again gets it (SF of `TakeLock`), as PostgreSQL queues
  the waiters of a lock. Nothing is assumed of clients.
* `CallFlow`: handlers go on (WF of `Handle`; awaits have timeouts of 10 and 15
  seconds), deadlines pass, and sweeps are asked for again and again (SF, as both
  handlers of the model may be busy when the Scheduler's minute comes; the Spine has
  no such bound). Nothing is assumed of the Worker, of summaries or of whoever posts
  completes; a bounded number of deaths is allowed at any time.
* `Scheduler`: polls go on (APScheduler's interval job), the one under way goes on with
  its head, and for each schedule that is not refused for ever: a Worker that is active
  again and again gets asked for it, the RPC decides (creates, refuses or forbids), an init
  is delivered in the end (SF). Nothing is assumed of requests left behind, of contacts or of other calls.
* `WorkerRegistry`: the provisioner loops for ever (WF of `Reconcile`), and a Worker whose
  service exists reports, its heartbeats arriving in some order (WF). Nothing is assumed
  of the owners' switches; after the bounded faults every request succeeds.
* `Closing`: the Scheduler asks for sweeps and a sweep goes on (WF of `Sweep`). Nothing is
  assumed of Workers, summaries, markers or the clock.
* In `CallFlow` every call ends although its Worker never answers. A database that fails
  for ever, or an RPC that fails on one row each time, is outside the assumption; the
  latter is what `Closing` is about.

## Proofs

Every safety invariant and every action property that a passing run checks is proved,
for every value of the constants, and so are the two refinements; only liveness is left to
TLC. `CallQueueProofs` is the base. The modules about transactions, handlers and
messages take an instance of it, prove that their steps are steps of `CallQueue`, and then
use its inductive invariant and its theorems. In each of the other modules an inductive
invariant is established by one lemma per action, which `NextInv` (or `TxNext`, `FlowNext`,
`MessageNext`) and `Invariance` put together.

| module | theorem | property |
|---|---|---|
| `CallQueueProofs` | `TypeCorrect` | `TypeOK` |
| | `OneRunning` | `AtMostOneRunning` |
| | `NobodyWaitsForNothing` | `NoOrphanQueue` |
| | `OneBatch` | `QueueIsOneBatch` |
| | `PriorityOrder` | `BatchRunsInPriorityOrder` |
| | `SweeperSeesRunning` | `ClockRunsWithCall` |
| | `LegalRows` | `RowsMoveLegally` |
| | `RowsAreForEver` | rows stay, and in their slots (of steps, no run checks it) |
| | `KeepsPromise` | `ServesContacts`, the refinement of `Contact` |
| `CallTxProofs` | `TypeCorrect` | `TypeOK` |
| | `DecisionsStand` | `DecisionsHold` |
| | `IndexFreeOfConflicts` | `IndexNeverViolated` |
| | `Atomic` | `RefinesQueue`, the refinement of `CallQueue` |
| | `ContactsAreServed` | `ServesContacts` of the committed rows |
| `CallFlowProofs` | `TypeCorrect` | `TypeOK` |
| | `NobodyForgotten` | `RunningIsAttended` |
| | `OneSender` | `OneSenderPerInit` |
| | `NotifiedOnce` | `NotifiedAtMostOnce` |
| | `UnavailableMeansReleased` | `UnavailableIsReleased` |
| | `SweepSparesPunctual` | `SweepSparesCallsOnTime` |
| | `HandlersKeepQueue`, `ContactsAreServed` | the table is that of `CallQueue`, and so keeps the promise of `Contact` |
| `IncomingProofs` | `TypeCorrect` | `TypeOK` |
| | `TwiceMeansClosed` | `TwiceOnlyAfterClose` |
| | `NobodyShutOut` | `DeniedByNewcomer` |
| `LeafLinksProofs` | `TypeCorrect` | `TypeOK` |
| | `FoundCompletes` | `FoundStatusCompletes` |
| | `OnlyBlindReopens` | `OnlyBlindStatusReopens` |
| `SchedulerProofs` | `TypeCorrect` | `TypeOK` |
| | `StartsArePaidFor` | `OneStartPerFault` |
| | `NotCompletedUnheard` | `CompletedWasAnswered` |
| `WorkerRegistryProofs` | `TypeCorrect` | `TypeOK` |
| | `BlindStopsOnly` | `OnlyBlindStops` |
| `ClosingProofs` | `TypeCorrect` | `TypeOK` |
| | `MarkersTellTheTruth` | `MarkerMeansClosed` |
| | `ReportsPrevail` | `ReportedTimeWins` |
| | `EverybodyHasItsTime` | `SweptAfterItsTime` |

**CallQueueProofs**, for any slots, scenarios, priorities and bound. The theorems rest on the
four named assumptions on the constants (priorities are naturals,
"trigger" is a source, the null values are not members). The inductive invariant `Inv`
is the conjunction of the state properties with `RowsHaveEvents`: a row exists only for
an event inserted already, whose slot and source are recorded. Without it a fresh
event could find old rows under its number. The properties need each other:
`AtMostOneRunning` survives a promotion because the closed call was the only running
one; `NoOrphanQueue` survives the close because the promotion takes one of the queue
and leaves the rest with it; `BatchRunsInPriorityOrder` survives a create because a
queue is of one batch and that batch is new. `InitInv` and one lemma per action
(`CreateInv`, `AbortInv`, `CompleteInv`, `DeadlineInv`) establish it, `NextInv` and
`Invariance` put them together. `FirstIsLeast` and `PromotionShape` say what
`RunsFirst` and `Promotions` return. `LegalRows` is proved of each step from `Inv`.

`KeepsPromise` maps the initial states (`StartsFree`) and then each action: `CreateServes`
needs that no row carries the new event's number (`AbsentIsFresh`, from `RowsHaveEvents`),
`AbortServes` that a queue has a running call (`NoOrphanQueue`), `CompleteServes` that it is
the only one (`AtMostOneRunning`);
`ViewsAfter` computes what one step makes of the mapped variables. `EventsHaveSlots` is the
further invariant they rest on, that a row's event is recorded with a slot of `Slots`.

**CallTxProofs**, for any number of connections. `QueueAssumption`, here and in `Incoming` and `CallFlow`, is what
`CallQueue` assumes of its constants. The inductive invariant says of a transaction that it
holds the lock of its slot once it is past `spine_lock_slot` (`HoldsLock`), that its
arguments and its plan are those of its RPC (`RequestFits`), and that what it has read is
still so (`DecisionHolds`). The three are proved together. A commit touches rows of its
own slot alone (`EnsureTouches`, `CompleteTouches`), whoever else is past its lock has
another slot (`SlotsApart`), and so what it has read is as it was (`SameReads`,
`Undisturbed`). That a decision stands is what makes a commit a step of `CallQueue`
(`CreateIsEnsure`, `AbortIsEnsure`, `CloseIsComplete`), and every other statement changes no
row: `StepRefines`, and so `Atomic`.

**CallFlowProofs**, for any number of handlers, contacts, attempts, releases in a chain,
rows of a sweep and deaths. The invariant `FlowInv` adds to the properties what a handler relies on between
two awaits (`TaskFits`): the call whose init it sends has been started, the call ensure
created is the one it delivers or is closed already, what a sweep has in its list has been
started and is late if it still runs, and the call a summary is going to notify of is
closed and not notified of yet. `OneAnnouncer` says that only one handler is going to
notify of a call: the one whose RPC closed it, as a closed call cannot be closed again
(`LegalRows`). `OneSenderPerInit` survives a promotion because the promoted call was waiting,
and nobody has a call that waits in hand. The Spine itself closes calls as aborted and expired, so
the instance of `CallQueueProofs` has these two among its `Closings`.

**IncomingProofs**, for any contacts, messages and other requests. What a message knows of
the table it has read before (`Handling`): the call it is routed to is running or closed and
of the same contact, as rows do not wait again and do not move (`LegalRows`, `RowsAreForEver`); and
where it read none, every open call has an event later than its read. The latter needs
`NoOrphanQueue`: a contact without a running call has no queue either. `NoCallAssumption` (the
null call is no call) is a matter of the representation.

**LeafLinksProofs**, for any leaves. A step is of one leaf and keeps the others
(`LeafStep`). The PATCH acts on what it read before; `PatchRemembers` says that a message it
found is stored, that it is blind exactly when it found none, and that a link it completed
stays complete, as the upsert of POST /send leaves an existing row alone and the webhook
only completes open ones. The Worker reports once, so no second PATCH comes.

**SchedulerProofs**, for any schedules, contacts, limit and number of faults. The invariant
keeps books for each schedule (`Books`): the calls started for it since it became due, plus
the one a request left behind may still start, plus the one its turn may start, are at most
one more than its own faults. Leaving a request behind is a fault and pays for the next one;
so is an init that was taken and not heard of, and an ensure that raises; a schedule becomes
due again only after it was advanced. `OwnCall` says when a schedule finds its own call
open: a once schedule only after a fault, as its call is there only while its request is
being answered, or once that answer has been recorded and the schedule is over. `Lists` has
the list of a poll as one of due schedules without repetition, so that whoever is waited for
is still due. The lemmas on `RemoveFirst`, `Tail`, `SubSeq` and `Append` of such lists come
first; `Advance` is written with `RemoveFirst` as nothing can be proved of `SelectSeq`,
which the library defines by recursion.

**WorkerRegistryProofs**, for any phones and any bound on the faults. `OnlyBlindStops` is a property of steps; what
it needs of the states is `KnowsSteady`: unless its read failed, the reconcile has in
`phones` everyone who has been active ever since, and so none of them in `left` once it has
come to the removals. Switches only take phones out of `steady`, and what was read as
running does not matter.

**ClosingProofs**, for any batches, estimates, limits and numbers of summaries, from the
named assumptions (default and buffer fit together, an estimate is an integer of the
database or none). The invariant ties a summary to its row: from `patch` on
its call is closed (`ClosedForPosts`), a closed call has let the next one go (`NextIsGone`),
and the post that closed a call is one of that call and past its close (`ClosersKnown`), so
that nobody else's close can write its `ended_at` again. `CloseShape` says what a close
makes of the rows; that a deadline stays in range there rests on `DeadlineInRange`.

`EverybodyHasItsTime` needs two more facts (`TimesInv`): the deadline of a call that has
started is its own start plus its seconds and the buffer (`OwnDeadline`), and what is in the list of
a sweep was past its deadline when it was read and still is (`ListIsLate`), as a close gives
a deadline only to a call that waits, and those are not in the list.

Each of these invariants was checked with TLC on the instance of its run before it was
proved. Only model-checked: the liveness properties (`TransactionsEnd`, `EveryCallEnds`,
`QueueDrains`, `DueIsHandled`, `ActiveIsServed`, `InactiveIsStopped`, `StuckIsSwept`), as the
prover handles neither ENABLED nor fairness, and the three disagreements, which are
counterexamples and not theorems.

## Plan

1. The order of a batch across its whole life, in terms of `Contact`: nobody talks before
   somebody of a lower rank who waited with it.
2. An `ensure` of `CallFlow` as the outcomes `Scheduler` takes for granted (201, 409, 503,
   an exception), as a refinement.
3. An abstract specification of a leaf link that `LeafLinks` implements where no PATCH is blind.

## Not modelled

`promote.py`, `Promote_call.sql`, `queue_service.py`, `sla_service.py` and
`spine_expire_stale_calls.sql` are an older promotion path that neither service registers
or schedules. `recording_service.py` is one UPDATE of a status that nothing else uses;
`cron_service.py` calls a library; the webhook registration in `main.py` is one idempotent
upsert; `active_chats.py` and the GETs read only. `POST /events` appends a row that nothing
reads back.

The way of an end marker after it was sent is not modelled. HostAgent is given the chat and
the text (send.py:92) and no call; what `call_id` it writes on the message decides which
row gets `last_message_id` (incoming.py:126-143), the next call of the batch for instance,
and `is_call_end_marker` (calls.py:220-249) takes every outgoing text that equals the emoji
for a marker. Nothing in the Spine reads that column to decide anything.

The UI, the deployment scripts, the Worker, HostAgent and PostgreSQL are seen
through the code that uses them.

------------------------------ MODULE Closing ------------------------------
(***************************************************************************)
(* How a call comes to its end: the deadline it gets when it starts, the   *)
(* sweep that goes down the list of those past it, and the summary, which  *)
(* writes the row before, in and after the close and then sends the end    *)
(* marker.  Time is a clock and deadlines are integers, so that the sum of *)
(* spine_sla_deadline may fail to fit.  The batches have been created; who *)
(* sends which init is in CallFlow.                                        *)
(***************************************************************************)
EXTENDS Integers, FiniteSets

CONSTANTS
    Slots,       \* the contacts
    Batch,       \* Batch[k]: how many calls the batch of contact k has
    Estimates,   \* Estimates[c]: what estimated_time.totalSeconds of c may be,
                 \* NotInt or an integer
    NotInt,      \* a text safe_int does not take for an integer
    Default,     \* sla.default_estimated_seconds
    Buffer,      \* sla.buffer_seconds
    IntMax,      \* the largest integer of PostgreSQL
    Limit,       \* of a sweep
    MaxTime,     \* bound: the clock
    MaxPosts,    \* bound: summaries posted
    MaxDeaths    \* bound: handlers that die

ASSUME TimesAssumption ==
    /\ {Default, Buffer, IntMax} \subseteq Nat
    /\ Default + Buffer <= IntMax
ASSUME BatchAssumption  == Batch \in [Slots -> Nat \ {0}]
ASSUME BoundsAssumption == {Limit, MaxTime, MaxPosts, MaxDeaths} \subseteq Nat

\* Call <<k, i>> is the one that is i-th by priority in the batch of contact k.
Calls == UNION {{<<k, i>> : i \in 1 .. Batch[k]} : k \in Slots}
Snapshots == {e \in [Calls -> UNION {Estimates[c] : c \in Calls}] :
                 \A c \in Calls : e[c] \in Estimates[c]}
First == {c \in Calls : c[2] = 1}
Posts == 1 .. MaxPosts

ASSUME EstimatesAssumption ==
    \A c \in Calls : \A e \in Estimates[c] \ {NotInt} : e \in Int /\ e <= IntMax

NoCall == <<>>
Unset  == 0    \* a time that is null and that nobody reads
Nobody == -1
Other  == 0
\* Where the ended_at of a row comes from: nobody wrote it, the Worker reported
\* it, or it is the now() of the RPC.
Ends   == {"null", "reported", "now"}

VARIABLES
    clock,        \* now(), the same for the database and the host of the Spine
    estimate,     \* estimate[c]: what c's snapshot says
    status,       \* status[c]: queued, running or closed; which final status it
                  \* is does not matter here
    expectedEnd,  \* expectedEnd[c]: its deadline, Unset while it waits
    endedAt,      \* endedAt[c]: where calls.ended_at comes from
    finished,     \* the calls their Workers have finished
    post,         \* post[n]: the n-th summary posted and how far it is
    sweep,        \* the calls a sweep has yet to close, and the promoted one whose
                  \* init it could not deliver
    markers,      \* history: the calls for which a summary has had HostAgent send
                  \* the end marker
    began,        \* history: when the call started to run
    closedBy,     \* history: the post that closed the call, or Other
    deaths        \* handlers that died so far

row     == <<status, expectedEnd, endedAt, began, closedBy>>
history == <<estimate, clock, deaths>>
vars == <<clock, estimate, status, expectedEnd, endedAt, finished, post, sweep,
          markers, began, closedBy, deaths>>

----------------------------------------------------------------------------
(* Deadlines.                                                               *)

\* safe_int and coalesce: what cannot be read counts as the default.
Seconds(c) == IF estimate[c] = NotInt THEN Default ELSE estimate[c]

Fits_Always(c) == Seconds(c) \in Int

\* The addition of two integers raises "integer out of range".
Fits(c) == Seconds(c) + Buffer <= IntMax

Deadline_FromCreation(c) == Seconds(c) + Buffer
Deadline(c) == clock + Seconds(c) + Buffer

\* The call a complete of c promotes.
NextOf(c) == {d \in Calls : d = <<c[1], c[2] + 1>> /\ status[d] = "queued"}

\* spine_complete_call raises on this call: everything it did is undone.
Raises(c) == status[c] = "running" /\ \E d \in NextOf(c) : ~Fits(d)

CloseCall_Twice(c, by) ==
    /\ ~Raises(c)
    /\ endedAt' = [endedAt EXCEPT ![c] = "now"]
    /\ status' = [d \in Calls |-> IF d = c THEN "closed"
                                  ELSE IF d \in NextOf(c) THEN "running" ELSE status[d]]
    /\ expectedEnd' = [d \in Calls |-> IF d \in NextOf(c) THEN Deadline(d)
                                       ELSE expectedEnd[d]]
    /\ began' = [d \in Calls |-> IF d \in NextOf(c) THEN clock ELSE began[d]]
    /\ closedBy' = [closedBy EXCEPT ![c] = by]

\* spine_complete_call of a call that is running, and does not raise: it ends
\* now, and the time of the next one counts from now.
CloseCall(c, by) ==
    /\ status[c] = "running"
    /\ ~Raises(c)
    /\ endedAt' = [endedAt EXCEPT ![c] = "now"]
    /\ status' = [d \in Calls |-> IF d = c THEN "closed"
                                  ELSE IF d \in NextOf(c) THEN "running" ELSE status[d]]
    /\ expectedEnd' = [d \in Calls |-> IF d \in NextOf(c) THEN Deadline(d)
                                       ELSE expectedEnd[d]]
    /\ began' = [d \in Calls |-> IF d \in NextOf(c) THEN clock ELSE began[d]]
    /\ closedBy' = [closedBy EXCEPT ![c] = by]

----------------------------------------------------------------------------
(* The sweep.                                                               *)

NoSweep == [list |-> {}, release |-> NoCall]

Stuck == {c \in Calls : status[c] = "running" /\ expectedEnd[c] < clock}

Oldest(set) == {c \in set : \A d \in set : expectedEnd[c] <= expectedEnd[d]}

\* What the query may return: as many of the stuck calls as the limit allows,
\* those with the oldest deadlines.
Lists_Unordered ==
    {l \in SUBSET Stuck : l = Stuck \/ Cardinality(l) = Limit}
Lists ==
    {l \in SUBSET Stuck :
        /\ l = Stuck \/ Cardinality(l) = Limit
        /\ Cardinality(l) <= Limit
        /\ \A c \in l, d \in Stuck \ l : expectedEnd[c] <= expectedEnd[d]}

ReadStuck ==
    /\ sweep = NoSweep
    /\ Stuck # {}
    /\ \E l \in Lists : sweep' = [NoSweep EXCEPT !.list = l]
    /\ UNCHANGED <<row, history, finished, post, markers>>

\* complete_call of c by the sweep.  After a close, the init of the promoted
\* call is delivered, or the call is to be released, or the chain of releases is
\* at its end.  An RPC that raises ends the sweep.
SweepClose(c, rest) ==
    /\ \/ /\ CloseCall(c, Other)
          /\ \E d \in {NoCall} \cup NextOf(c) : sweep' = [list |-> rest, release |-> d]
       \/ /\ status[c] = "closed"
          /\ sweep' = [list |-> rest, release |-> NoCall]
          /\ UNCHANGED row
       \/ /\ Raises(c)
          /\ sweep' = NoSweep
          /\ UNCHANGED row
    /\ UNCHANGED <<history, finished, post, markers>>

\* The next call of the list.
SweepHead ==
    /\ sweep.release = NoCall
    /\ \E c \in Oldest(sweep.list) : SweepClose(c, sweep.list \ {c})

\* deliver_init_or_release closes the call whose init was not delivered.
SweepRelease ==
    /\ sweep.release # NoCall
    /\ SweepClose(sweep.release, sweep.list)

Sweep == ReadStuck \/ SweepHead \/ SweepRelease

----------------------------------------------------------------------------
(* The summary.                                                             *)

\* The Worker ends a call it runs; from then on it may post its summary, with
\* finished_at, and post it again when the answer is late.
Finish(c) ==
    /\ status[c] = "running"
    /\ c \notin finished
    /\ finished' = finished \cup {c}
    /\ UNCHANGED <<row, history, post, sweep, markers>>

PostSummary(n, c) ==
    /\ post[n].at = "unsent"
    /\ \A m \in Posts : m < n => post[m].at # "unsent"
    /\ c \in finished
    /\ post' = [post EXCEPT ![n] = [call |-> c, at |-> "save"]]
    /\ UNCHANGED <<row, history, finished, sweep, markers>>

GoesTo(n, at) == post' = [post EXCEPT ![n].at = at]

\* The statistics, ended_at among them, whatever the status of the row is; none
\* of them when scenario, phone or contact are not those of the row.
SaveStats(n) ==
    /\ post[n].at = "save"
    /\ \/ endedAt' = [endedAt EXCEPT ![post[n].call] = "reported"]
       \/ UNCHANGED endedAt
    /\ GoesTo(n, "close")
    /\ UNCHANGED <<status, expectedEnd, began, closedBy, history, finished, sweep,
                   markers>>

CloseBySummary_GoesOn(n) ==
    /\ post[n].at = "close"
    /\ LET c == post[n].call IN
       \/ CloseCall(c, n) /\ GoesTo(n, "patch")
       \/ (status[c] = "closed" \/ Raises(c)) /\ GoesTo(n, "marker") /\ UNCHANGED row
    /\ UNCHANGED <<history, finished, sweep, markers>>

\* complete_call: the first summary closes the call, a repeated one finds it
\* closed; an RPC that raises ends the handler.
CloseBySummary(n) ==
    /\ post[n].at = "close"
    /\ LET c == post[n].call IN
       \/ CloseCall(c, n) /\ GoesTo(n, "patch")
       \/ status[c] = "closed" /\ GoesTo(n, "marker") /\ UNCHANGED row
       \/ Raises(c) /\ GoesTo(n, "failed") /\ UNCHANGED row
    /\ UNCHANGED <<history, finished, sweep, markers>>

PatchEnd_Dropped(n) ==
    /\ post[n].at = "patch"
    /\ GoesTo(n, "marker")
    /\ UNCHANGED <<row, history, finished, sweep, markers>>

\* The RPC wrote ended_at = now(): put the reported time back.
PatchEnd(n) ==
    /\ post[n].at = "patch"
    /\ endedAt' = [endedAt EXCEPT ![post[n].call] = "reported"]
    /\ GoesTo(n, "marker")
    /\ UNCHANGED <<status, expectedEnd, began, closedBy, history, finished, sweep,
                   markers>>

\* After the init of the next call, the end marker of this one: HostAgent is
\* given the chat and the text, and not the call.  A failure is logged only.
SendMarker(n) ==
    /\ post[n].at = "marker"
    /\ \/ markers' = markers \cup {post[n].call}
       \/ UNCHANGED markers
    /\ GoesTo(n, "answered")
    /\ UNCHANGED <<row, history, finished, sweep>>

Summary(n) == SaveStats(n) \/ CloseBySummary(n) \/ PatchEnd(n) \/ SendMarker(n)

----------------------------------------------------------------------------

\* The Spine dies: what a summary or a sweep had left to do is lost.
HandlerDies ==
    /\ deaths < MaxDeaths
    /\ deaths' = deaths + 1
    /\ \/ sweep # NoSweep /\ sweep' = NoSweep /\ UNCHANGED post
       \/ /\ \E n \in Posts : /\ post[n].at \notin {"unsent", "answered", "failed"}
                              /\ GoesTo(n, "failed")
          /\ UNCHANGED sweep
    /\ UNCHANGED <<row, clock, estimate, finished, markers>>

Tick ==
    /\ clock < MaxTime
    /\ clock' = clock + 1
    /\ UNCHANGED <<row, estimate, deaths, finished, post, sweep, markers>>

\* Every contact's batch has just been created; a batch whose first call has no
\* deadline is not, as its ensure raises.
Init ==
    /\ clock = 0
    /\ estimate \in Snapshots
    /\ \A c \in First : Fits(c)
    /\ status = [c \in Calls |-> IF c \in First THEN "running" ELSE "queued"]
    /\ expectedEnd = [c \in Calls |-> IF c \in First THEN Deadline(c) ELSE Unset]
    /\ began = [c \in Calls |-> IF c \in First THEN clock ELSE Unset]
    /\ endedAt = [c \in Calls |-> "null"]
    /\ finished = {}
    /\ post = [n \in Posts |-> [call |-> NoCall, at |-> "unsent"]]
    /\ sweep = NoSweep
    /\ markers = {}
    /\ closedBy = [c \in Calls |-> Nobody]
    /\ deaths = 0

Next ==
    \/ Tick
    \/ Sweep
    \/ \E c \in Calls : Finish(c) \/ \E n \in Posts : PostSummary(n, c)
    \/ \E n \in Posts : Summary(n)
    \/ HandlerDies

Spec == Init /\ [][Next]_vars

\* The Scheduler asks for sweeps for ever and a sweep goes on (its requests have
\* timeouts).  Nothing is assumed of Workers and of summaries.
FairSpec == Spec /\ WF_vars(Sweep)

----------------------------------------------------------------------------
(* Properties.                                                              *)

TypeOK ==
    /\ clock \in 0 .. MaxTime
    /\ estimate \in Snapshots
    /\ status \in [Calls -> {"queued", "running", "closed"}]
    /\ expectedEnd \in [Calls -> Int]
    /\ \A c \in Calls : expectedEnd[c] <= clock + IntMax
    /\ endedAt \in [Calls -> Ends]
    /\ finished \subseteq Calls
    /\ post \in [Posts -> [call : Calls \cup {NoCall},
                           at : {"unsent", "save", "close", "patch", "marker",
                                 "answered", "failed"}]]
    /\ sweep \in [list : SUBSET Calls, release : Calls \cup {NoCall}]
    /\ markers \subseteq Calls
    /\ began \in [Calls -> 0 .. MaxTime]
    /\ closedBy \in [Calls -> {Nobody, Other} \cup Posts]
    /\ deaths \in 0 .. MaxDeaths

\* The sweep takes no call before it has had its estimated time and the buffer,
\* counted from its own start and not from the creation of its batch.
SweptAfterItsTime ==
    [][\A c \in sweep.list :
          closedBy'[c] = Other /\ closedBy[c] = Nobody /\ sweep.release = NoCall
          => clock > began[c] + Seconds(c) + Buffer]_vars

\* When the RPC raises on a call, the sweep ends there, and so does every later
\* one: it hides the stuck calls with later deadlines, of whatever contact.
Hidden(c) == \E d \in Stuck : Raises(d) /\ expectedEnd[d] <= expectedEnd[c]

\* Every other stuck call is closed in the end, however short the limit is and
\* whatever its Worker, its summaries and those who die do (dispatch.py:168-172).
StuckIsSwept ==
    \A c \in Calls : c \in Stuck /\ ~Hidden(c) ~> status[c] = "closed" \/ Hidden(c)

\* The time the Worker reports prevails over the now() of the RPC
\* (worker_events.py:616-617): once the summary that closed a call is past its
\* writes, ended_at is what was reported, whatever a repeated summary and the
\* sweep write before, between and after.
ReportedTimeWins ==
    \A c \in Calls :
        closedBy[c] \in Posts /\ post[closedBy[c]].at \in {"marker", "answered"}
        => endedAt[c] = "reported"

\* The contact is told of no end that has not come: when a summary, the first
\* one or a repeated one, has the end marker sent for a call, the call is closed
\* and the next of its batch is no longer waiting, though the RPC may have
\* raised and undone both.
MarkerMeansClosed ==
    \A c \in markers : status[c] = "closed" /\ NextOf(c) = {}

============================================================================

----------------------------- MODULE Scheduler ------------------------------
(***************************************************************************)
(* The Scheduler's poll: it reads the schedules that are due, asks the     *)
(* Spine for a call for each in turn, and advances those the Spine has     *)
(* taken or refused.  The Spine goes on with a request the Scheduler has   *)
(* stopped waiting for.  What the Spine does with a request is the ensure  *)
(* of CallFlow: refused, created and delivered, created and released, or   *)
(* created and left behind by a handler that raises.                       *)
(***************************************************************************)
EXTENDS Integers, Sequences, SequencesExt

CONSTANTS
    Schedules,
    Kind,      \* Kind[s]: "once", "manual", "cron" or anything else
    Broken,    \* the schedules whose scenario is not active: the Spine answers 404
    Contacts,
    ContactOf, \* ContactOf[s]: the contact a schedule calls
    Limit,     \* MAX_SCHEDULES_PER_POLL
    MaxFaults  \* bound: MaxFaults[s] is how many faults befall s

ASSUME KindAssumption == Kind \in [Schedules -> STRING]
ASSUME ContactAssumption == ContactOf \in [Schedules -> Contacts]
ASSUME LimitAssumption == Limit \in Nat \ {0} /\ MaxFaults \in [Schedules -> Nat]

VARIABLES
    phase,    \* phase[s]: active and waiting or due, completed, or in error
    due,      \* the due schedules by next_run: each was put last as it became due
    list,     \* the schedules of the poll under way, the head being processed
    request,  \* request[s, "live"]: the ensure the Scheduler waits for;
              \* request[s, "late"]: one it has stopped waiting for
    others,   \* the contacts with an open call that no schedule has asked for
    owners,   \* the schedules whose call is open
    starts,   \* history: the calls for s the Worker took since s became due
    refused,  \* history: since it became due, s was refused a call "for others",
              \* "for its own" call, as "not allowed", or not at all ("no")
    faults    \* history: faults[s] counts, for s, the answers that never came (to
              \* the Scheduler or to the Spine), the deaths and the failed releases

vars == <<phase, due, list, request, others, owners, starts, refused, faults>>

Requests == Schedules \X {"live", "late"}
Stages   == {"none", "asked", "created", "201", "409", "503", "failed"}
Refusals == {"no", "for others", "for its own", "not allowed"}

Live(s) == request[<<s, "live">>]
Idle    == \A s \in Schedules : Live(s) = "none"
Calling    == {s \in Schedules : Kind[s] \in {"once", "manual", "cron"}}
Callable   == Calling \ Broken
Current(s) == list # <<>> /\ Head(list) = s

\* A contact with an open call, waiting or running.
Open(k) == k \in others \/ \E s \in owners : ContactOf[s] = k

MayFail(s) == faults[s] < MaxFaults[s]
Fault(s)   == faults' = [faults EXCEPT ![s] = @ + 1]

SetRequest(r, stage) == request' = [request EXCEPT ![r] = stage]
Advance(s, p) ==
    /\ phase' = [phase EXCEPT ![s] = p]
    /\ due' = RemoveFirst(due, s)

\* EnsureResult.accepted.
Accepted_Unavailable == {"201", "409", "503"}
Accepted == {"201", "409"}

----------------------------------------------------------------------------
(* The Scheduler.                                                           *)

\* next_run comes; a manual schedule gets one whenever it is played.
BecomesDue(s) ==
    /\ phase[s] = "waiting" \/ (Kind[s] = "manual" /\ phase[s] = "completed")
    /\ phase' = [phase EXCEPT ![s] = "due"]
    /\ due' = Append(due, s)
    /\ starts' = [starts EXCEPT ![s] = 0]
    /\ refused' = [refused EXCEPT ![s] = "no"]
    /\ UNCHANGED <<list, request, others, owners, faults>>

FirstDue_Latest == IF Len(due) <= Limit THEN due ELSE SubSeq(Reverse(due), 1, Limit)

\* get_due_schedules: the first by next_run.
FirstDue == IF Len(due) <= Limit THEN due ELSE SubSeq(due, 1, Limit)

Poll_Overlaps ==
    /\ due # <<>>
    /\ list' = FirstDue
    /\ UNCHANGED <<phase, due, request, others, owners, starts, refused, faults>>

\* poll_due_schedules starts; one poll runs at a time (max_instances=1).
Poll ==
    /\ list = <<>> /\ due # <<>>
    /\ list' = FirstDue
    /\ UNCHANGED <<phase, due, request, others, owners, starts, refused, faults>>

\* worker_is_active says no: the schedule stays due and the poll goes on.
WorkerNotActive(s) ==
    /\ Current(s) /\ Idle /\ s \in Calling
    /\ list' = Tail(list)
    /\ UNCHANGED <<phase, due, request, others, owners, starts, refused, faults>>

\* A schedule_type that nobody knows ends in error.
Unsupported(s) ==
    /\ Current(s) /\ s \notin Calling
    /\ Advance(s, "error")
    /\ list' = Tail(list)
    /\ UNCHANGED <<request, others, owners, starts, refused, faults>>

\* ensure_call posts to the Spine.
PostEnsure(s) ==
    /\ Current(s) /\ Idle /\ s \in Calling
    /\ SetRequest(<<s, "live">>, "asked")
    /\ UNCHANGED <<phase, due, list, others, owners, starts, refused, faults>>

\* A once or manual schedule is over; a cron schedule gets its next_run, or ends
\* in error if there is none.
After(s) == IF Kind[s] = "cron" THEN {"waiting", "error"} ELSE {"completed"}

Fired_NotUpdated(s) ==
    /\ Live(s) \in Accepted
    /\ SetRequest(<<s, "live">>, "none")
    /\ list' = Tail(list)
    /\ UNCHANGED <<phase, due, others, owners, starts, refused, faults>>

\* process_once_schedule and process_cron_schedule, when the answer is accepted.
Fired(s) ==
    /\ Live(s) \in Accepted
    /\ \E p \in After(s) : Advance(s, p)
    /\ SetRequest(<<s, "live">>, "none")
    /\ list' = Tail(list)
    /\ UNCHANGED <<others, owners, starts, refused, faults>>

\* Any other answer raises: the schedule stays due.
NotAccepted(s) ==
    /\ Live(s) \in {"503", "failed"} \ Accepted
    /\ SetRequest(<<s, "live">>, "none")
    /\ list' = Tail(list)
    /\ UNCHANGED <<phase, due, others, owners, starts, refused, faults>>

\* The request the Scheduler leaves behind, for the Spine to go on with.
Abandon(s) ==
    request' = [request EXCEPT ![<<s, "live">>] = "none",
                  ![<<s, "late">>] = IF Live(s) \in {"asked", "created"} THEN Live(s) ELSE "none"]

\* No answer in REQUEST_TIMEOUT_SECONDS, or none at all, or an answer whose
\* update_schedule fails: an exception, and the schedule stays due.
\* At most one request of a schedule is left behind at a time.
AnswerLost(s) ==
    /\ Live(s) # "none" /\ request[<<s, "late">>] = "none" /\ MayFail(s)
    /\ Abandon(s)
    /\ list' = Tail(list)
    /\ Fault(s)
    /\ UNCHANGED <<phase, due, others, owners, starts, refused>>

\* The Scheduler is restarted before it has updated the schedule.
Crash(s) ==
    /\ Live(s) # "none" /\ request[<<s, "late">>] = "none" /\ MayFail(s)
    /\ Abandon(s)
    /\ list' = <<>>
    /\ Fault(s)
    /\ UNCHANGED <<phase, due, others, owners, starts, refused>>

----------------------------------------------------------------------------
(* The Spine, and what else goes on with the contacts.                      *)

\* Nobody waits for the answer to a late request.
Answer(r, code) == SetRequest(r, IF r[2] = "live" THEN code ELSE "none")

\* spine_ensure_call finds no open call.
RpcCreates(r) ==
    LET s == r[1] IN
    /\ request[r] = "asked" /\ s \notin Broken
    /\ ~Open(ContactOf[s])
    /\ owners' = owners \union {s}
    /\ SetRequest(r, "created")
    /\ UNCHANGED <<phase, due, list, others, starts, refused, faults>>

\* The Scheduler is told why it gets no call; for a late request nobody listens.
Refuse(r, why) ==
    /\ Answer(r, "409")
    /\ refused' = IF r[2] = "late" THEN refused ELSE [refused EXCEPT ![r[1]] = why]
    /\ UNCHANGED <<phase, due, list, others, owners, starts, faults>>

\* It finds one: 409.
RpcRefuses(r) ==
    LET s == r[1] IN
    /\ request[r] = "asked" /\ s \notin Broken
    /\ Open(ContactOf[s])
    /\ Refuse(r, IF s \in owners THEN "for its own" ELSE "for others")

\* The contact is not active, or the owner of the phone is not verified: 409,
\* whether the contact has a call or not, and before the scenario is looked at.
RpcForbids(r) ==
    /\ request[r] = "asked"
    /\ Refuse(r, "not allowed")

\* 404, or 500 with nothing created.
RpcFails(r) ==
    /\ request[r] = "asked"
    /\ Answer(r, "failed")
    /\ UNCHANGED <<phase, due, list, others, owners, starts, refused, faults>>

\* The Worker took the init: 201.
InitDelivered(r) ==
    /\ request[r] = "created"
    /\ Answer(r, "201")
    /\ starts' = [starts EXCEPT ![r[1]] = @ + 1]
    /\ UNCHANGED <<phase, due, list, others, owners, refused, faults>>

\* The Worker takes an init and nobody hears of it: the call has started.
TakenUnheard(s) ==
    /\ MayFail(s) /\ Fault(s)
    /\ starts' = [starts EXCEPT ![s] = @ + 1]

\* No attempt was answered with 200: the call is released, 503.  Either no init
\* was taken, or the answers to those that were are lost.
InitGivenUp(r) ==
    LET s == r[1] IN
    /\ request[r] = "created"
    /\ Answer(r, "503")
    /\ owners' = owners \ {s}
    /\ TakenUnheard(s) \/ UNCHANGED <<starts, faults>>
    /\ UNCHANGED <<phase, due, list, others, refused>>

\* The handler ends without an answer from the database or dies with the Spine,
\* once the call is there: the answer of spine_ensure_call is lost after its
\* commit, or complete_call raises in the release, done or not.  500, or none,
\* and the call may be open with nobody to end it, taken by the Worker or not.
EnsureRaises(r) ==
    LET s == r[1] IN
    /\ request[r] = "created"
    /\ Answer(r, "failed")
    /\ owners' \in {owners, owners \ {s}}
    /\ TakenUnheard(s) \/ (MayFail(s) /\ Fault(s) /\ UNCHANGED starts)
    /\ UNCHANGED <<phase, due, list, others, refused>>

\* A call ends.  (One whose init is under way is left to its handler.)
CallEnds(k) ==
    /\ Open(k)
    /\ \A r \in Requests : request[r] = "created" => ContactOf[r[1]] # k
    /\ others' = others \ {k}
    /\ owners' = {s \in owners : ContactOf[s] # k}
    /\ UNCHANGED <<phase, due, list, request, starts, refused, faults>>

\* A message or somebody by hand opens a call.
OtherCall(k) ==
    /\ ~Open(k)
    /\ others' = others \union {k}
    /\ UNCHANGED <<phase, due, list, request, owners, starts, refused, faults>>

Init ==
    /\ phase = [s \in Schedules |-> "waiting"]
    /\ due = <<>>
    /\ list = <<>>
    /\ request = [r \in Requests |-> "none"]
    /\ others = {} /\ owners = {}
    /\ starts = [s \in Schedules |-> 0]
    /\ refused = [s \in Schedules |-> "no"]
    /\ faults = [s \in Schedules |-> 0]

Ends(s) == Fired(s) \/ NotAccepted(s) \/ Unsupported(s)

Next ==
    \/ Poll
    \/ \E s \in Schedules :
          \/ BecomesDue(s) \/ WorkerNotActive(s) \/ PostEnsure(s)
          \/ Ends(s) \/ AnswerLost(s) \/ Crash(s)
    \/ \E r \in Requests :
          \/ RpcCreates(r) \/ RpcRefuses(r) \/ RpcForbids(r) \/ RpcFails(r)
          \/ InitDelivered(r) \/ InitGivenUp(r) \/ EnsureRaises(r)
    \/ \E k \in Contacts : CallEnds(k) \/ OtherCall(k)

Spec == Init /\ [][Next]_vars

\* The poll goes on with its head: it skips it, asks for it and is answered.
Turn(s) == WorkerNotActive(s) \/ PostEnsure(s) \/ RpcFails(<<s, "live">>) \/ Ends(s)

\* The poll goes on for ever, and nothing is out of order for ever: not the
\* Worker of a phone, not the Spine, not the delivery of an init.
Fairness ==
    /\ WF_vars(Poll)
    /\ WF_vars(\E s \in Schedules : Turn(s))
    /\ \A s \in Callable :
          /\ SF_vars(PostEnsure(s))
          /\ SF_vars(LET r == <<s, "live">> IN RpcCreates(r) \/ RpcRefuses(r) \/ RpcForbids(r))
          /\ SF_vars(InitDelivered(<<s, "live">>))

FairSpec == Spec /\ Fairness

----------------------------------------------------------------------------
(* Properties.                                                              *)

\* The types; a schedule is in the due list as often as it is due, once or not
\* at all; and the Scheduler waits for one request at a time, that of the head
\* of its list.
TypeOK ==
    /\ phase \in [Schedules -> {"waiting", "due", "completed", "error"}]
    /\ due \in Seq(Schedules) /\ list \in Seq(Schedules)
    /\ request \in [Requests -> Stages]
    /\ others \subseteq Contacts /\ owners \subseteq Schedules
    /\ starts \in [Schedules -> Nat]
    /\ refused \in [Schedules -> Refusals]
    /\ faults \in [Schedules -> Nat]
    /\ ToSet(due) = {s \in Schedules : phase[s] = "due"} /\ IsInjective(due)
    /\ \A s \in Schedules : Live(s) # "none" => Current(s)

\* A schedule that has come due starts one call, and one more at most for each
\* fault that has befallen it: an answer the Scheduler did not wait for or did
\* not live to record, answers of the Worker or of the database the Spine did
\* not get (calls.py:291-301, calls.py:63-80), a release that raised
\* (dispatch.py:111), a death.
OneStartPerFault == \A s \in Schedules : starts[s] <= 1 + faults[s]

\* A once or manual schedule is not given up unheard: it is completed only when
\* a Worker took a call for it, or it was refused one, because somebody else's
\* call was open, because its contact may not be called at all (nobody is called
\* then: spine_client.py:159 takes every 409 for a fired schedule), or because
\* its own call was.  That is a call it was played for before, or one that a
\* fault has left behind, and then it may be that nobody is ever called.
CompletedWasAnswered ==
    \A s \in Schedules : phase[s] = "completed" =>
        \/ starts[s] > 0
        \/ refused[s] \in {"for others", "not allowed"}
        \/ refused[s] = "for its own" /\ (faults[s] > 0 \/ Kind[s] = "manual")

\* Whoever is due has its turn, though schedules that can never be accepted
\* stay at the head of the list, as long as there are fewer of these than a
\* poll takes.
DueIsHandled ==
    \A s \in Schedules \ Broken : phase[s] = "due" ~> phase[s] # "due"

============================================================================

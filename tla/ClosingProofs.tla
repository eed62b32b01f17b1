--------------------------- MODULE ClosingProofs ---------------------------
(***************************************************************************)
(* Proofs about the end of a call, for any batches, estimates and limits,  *)
(* and any number of summaries and deaths.  A summary takes four steps     *)
(* while others and the sweep take theirs; what ties its later steps to    *)
(* the row is that a call is closed once and that closed is for good.      *)
(***************************************************************************)
EXTENDS Closing, TLAPS

\* Where a summary is, its call is; and a closed call has let its next one go.
PostsKnowTheirCalls ==
    \A n \in Posts : post[n].at # "unsent" => post[n].call \in Calls

\* A summary past its close has a closed call.
ClosedForPosts ==
    \A n \in Posts : post[n].at \in {"patch", "marker", "answered"} =>
        status[post[n].call] = "closed"

\* A closed call has no next one waiting.
NextIsGone == \A c \in Calls : status[c] = "closed" => NextOf(c) = {}

\* The history of the closes agrees with the table and with the summaries.
ClosersKnown ==
    \A c \in Calls :
        /\ closedBy[c] = Nobody <=> status[c] # "closed"
        /\ closedBy[c] \in Posts =>
              /\ post[closedBy[c]].call = c
              /\ post[closedBy[c]].at \in {"patch", "marker", "answered", "failed"}

\* The inductive invariant.
Inv ==
    /\ TypeOK
    /\ PostsKnowTheirCalls
    /\ ClosedForPosts
    /\ NextIsGone
    /\ ClosersKnown
    /\ MarkerMeansClosed
    /\ ReportedTimeWins

\* Every call has a number of seconds, and the one that fits an admissible deadline.
LEMMA SecondsAreInt ==
    ASSUME TypeOK, NEW c \in Calls
    PROVE  Seconds(c) \in Int
<1>1. estimate[c] \in Estimates[c]
  BY DEF TypeOK, Snapshots
<1> QED  BY <1>1, EstimatesAssumption, TimesAssumption DEF Seconds

\* A deadline that fits is an admissible value of expected_end.
LEMMA DeadlineInRange ==
    ASSUME TypeOK, NEW c \in Calls, Fits(c)
    PROVE  Deadline(c) \in Int /\ Deadline(c) <= clock + IntMax
<1>1. Seconds(c) \in Int
  BY SecondsAreInt
<1>2. clock \in Int /\ Buffer \in Int /\ IntMax \in Int
  BY TimesAssumption, BoundsAssumption DEF TypeOK
<1> QED  BY <1>1, <1>2 DEF Fits, Deadline

\* What a complete that does not raise makes of the rows, whoever asks for it.
LEMMA CloseShape ==
    ASSUME Inv, NEW c \in Calls, NEW by \in {Other} \cup Posts, CloseCall(c, by)
    PROVE  /\ status' \in [Calls -> {"queued", "running", "closed"}]
           /\ expectedEnd' \in [Calls -> Int]
           /\ \A d \in Calls : expectedEnd'[d] <= clock + IntMax
           /\ endedAt' \in [Calls -> Ends]
           /\ began' \in [Calls -> 0 .. MaxTime]
           /\ closedBy' \in [Calls -> {Nobody, Other} \cup Posts]
           /\ status[c] = "running" /\ status'[c] = "closed" /\ closedBy'[c] = by
           /\ \A d \in Calls : d # c => /\ status'[d] = "closed" <=> status[d] = "closed"
                                        /\ closedBy'[d] = closedBy[d]
                                        /\ endedAt'[d] = endedAt[d]
           /\ \A d \in Calls : status'[d] = "queued" => status[d] = "queued" /\ d \notin NextOf(c)
<1> USE DEF Inv
<1>1. \A d \in NextOf(c) : d \in Calls /\ status[d] = "queued" /\ Fits(d)
  BY DEF CloseCall, NextOf, Raises
<1>2. expectedEnd' \in [Calls -> Int]
  BY <1>1, DeadlineInRange DEF CloseCall, TypeOK
<1>3. \A d \in Calls : expectedEnd'[d] <= clock + IntMax
  BY <1>1, DeadlineInRange DEF CloseCall, TypeOK
<1>4. /\ status' \in [Calls -> {"queued", "running", "closed"}]
      /\ endedAt' \in [Calls -> Ends]
      /\ began' \in [Calls -> 0 .. MaxTime]
      /\ closedBy' \in [Calls -> {Nobody, Other} \cup Posts]
  BY DEF CloseCall, TypeOK, Ends
<1>5. /\ status[c] = "running" /\ status'[c] = "closed" /\ closedBy'[c] = by
      /\ \A d \in Calls : d # c => closedBy'[d] = closedBy[d] /\ endedAt'[d] = endedAt[d]
  BY DEF CloseCall, TypeOK
<1>6. \A d \in Calls : d # c => (status'[d] = "closed" <=> status[d] = "closed")
  BY <1>1 DEF CloseCall
<1>7. \A d \in Calls : status'[d] = "queued" => status[d] = "queued" /\ d \notin NextOf(c)
  BY DEF CloseCall
<1> QED  BY <1>2, <1>3, <1>4, <1>5, <1>6, <1>7

\* No step puts a call back into the queue, so a next one that is gone stays gone.
LEMMA NextStaysGone ==
    ASSUME NextIsGone, NEW c \in Calls,
           \A d \in Calls : status'[d] = "queued" => status[d] = "queued" /\ d \notin NextOf(c),
           \A d \in Calls : d # c => (status'[d] = "closed" <=> status[d] = "closed")
    PROVE  NextIsGone'
<1> SUFFICES ASSUME NEW d \in Calls, status'[d] = "closed"
             PROVE  \A e \in Calls : e = <<d[1], d[2] + 1>> => status'[e] # "queued"
  BY DEF NextIsGone, NextOf
<1>1. CASE d = c
  BY <1>1 DEF NextOf
<1>2. CASE d # c
  BY <1>2 DEF NextIsGone, NextOf
<1> QED  BY <1>1, <1>2

\* Batches that have just been created.
LEMMA InitInv == Init => Inv
<1> SUFFICES ASSUME Init PROVE Inv
  OBVIOUS
<1>c. \A c \in First : c \in Calls
  BY DEF First
<1>e. clock = 0 /\ estimate \in Snapshots
  BY DEF Init
<1>s. \A c \in Calls : Seconds(c) \in Int
  BY <1>e, EstimatesAssumption, TimesAssumption DEF Snapshots, Seconds
<1>i. Buffer \in Nat /\ IntMax \in Nat /\ MaxTime \in Nat /\ MaxDeaths \in Nat
  BY TimesAssumption, BoundsAssumption
<1>d. \A c \in First : Deadline(c) \in Int /\ Deadline(c) <= clock + IntMax
  BY <1>c, <1>e, <1>s, <1>i DEF Init, Fits, Deadline
<1>1. /\ expectedEnd \in [Calls -> Int]
      /\ \A c \in Calls : expectedEnd[c] <= clock + IntMax
  BY <1>d, <1>e, <1>i DEF Init, Unset
<1>2. /\ began \in [Calls -> 0 .. MaxTime]
      /\ clock \in 0 .. MaxTime /\ deaths \in 0 .. MaxDeaths
  BY <1>i DEF Init, Unset
<1>3. /\ status \in [Calls -> {"queued", "running", "closed"}]
      /\ endedAt \in [Calls -> Ends]
      /\ finished \subseteq Calls /\ markers \subseteq Calls
      /\ closedBy \in [Calls -> {Nobody, Other} \cup Posts]
  BY DEF Init, Ends
<1>4. post \in [Posts -> [call : Calls \cup {NoCall},
                          at : {"unsent", "save", "close", "patch", "marker",
                                "answered", "failed"}]]
  BY DEF Init
<1>5. sweep \in [list : SUBSET Calls, release : Calls \cup {NoCall}]
  BY DEF Init, NoSweep
<1>6. TypeOK
  BY <1>e, <1>1, <1>2, <1>3, <1>4, <1>5 DEF TypeOK
<1>7. \A c \in Calls : status[c] # "closed" /\ closedBy[c] = Nobody /\ Nobody \notin Posts
  BY DEF Init, Nobody, Posts
<1>8. \A n \in Posts : post[n].at = "unsent"
  BY DEF Init
<1>9. /\ PostsKnowTheirCalls /\ ClosedForPosts /\ NextIsGone /\ ClosersKnown
      /\ MarkerMeansClosed /\ ReportedTimeWins
  BY <1>7, <1>8 DEF Init, PostsKnowTheirCalls, ClosedForPosts, NextIsGone, ClosersKnown,
     MarkerMeansClosed, ReportedTimeWins
<1> QED  BY <1>6, <1>9 DEF Inv

\* What of Inv does not depend on the summaries survives a close, whoever does it.
LEMMA CloseKeepsRows ==
    ASSUME Inv, NEW c \in Calls, NEW by \in {Other} \cup Posts, CloseCall(c, by),
           UNCHANGED markers
    PROVE  NextIsGone' /\ MarkerMeansClosed'
<1> USE DEF Inv
<1>1. NextIsGone'
  BY CloseShape, NextStaysGone
<1>2. \A d \in markers : d \in Calls /\ status'[d] = "closed"
  BY CloseShape DEF MarkerMeansClosed, TypeOK
<1> QED  BY <1>1, <1>2 DEF NextIsGone, MarkerMeansClosed

\* A step that leaves the rows, the summaries and the markers alone.
LEMMA Aside ==
    ASSUME Inv, TypeOK', UNCHANGED <<status, endedAt, closedBy, post, markers>>
    PROVE  Inv'
BY DEF Inv, PostsKnowTheirCalls, ClosedForPosts, NextIsGone, NextOf, ClosersKnown,
   MarkerMeansClosed, ReportedTimeWins

\* Time passes.
LEMMA TickInv == Inv /\ Tick => Inv'
<1> SUFFICES ASSUME Inv, Tick PROVE Inv'
  OBVIOUS
<1> USE DEF Inv
<1>1. /\ clock \in Nat /\ IntMax \in Nat /\ MaxTime \in Nat
      /\ clock' = clock + 1 /\ clock' \in 0 .. MaxTime
  BY TimesAssumption, BoundsAssumption DEF Tick, TypeOK
<1>2. \A c \in Calls : expectedEnd'[c] <= clock' + IntMax
  BY <1>1 DEF Tick, TypeOK, row
<1>3. TypeOK'
  BY <1>1, <1>2 DEF Tick, TypeOK, row
<1> QED  BY <1>3, Aside DEF Tick, row

\* A Worker ends its call.
LEMMA FinishInv == ASSUME Inv, NEW c \in Calls, Finish(c) PROVE Inv'
<1> USE DEF Inv
<1>1. TypeOK'
  BY DEF Finish, TypeOK, row, history
<1> QED  BY <1>1, Aside DEF Finish, row

\* The sweep reads its list.
LEMMA ReadStuckInv == Inv /\ ReadStuck => Inv'
<1> SUFFICES ASSUME Inv, ReadStuck PROVE Inv'
  OBVIOUS
<1> USE DEF Inv
<1>1. sweep' \in [list : SUBSET Calls, release : Calls \cup {NoCall}]
  BY DEF ReadStuck, Lists, Stuck, NoSweep
<1>2. TypeOK'
  BY <1>1 DEF ReadStuck, TypeOK, row, history
<1> QED  BY <1>2, Aside DEF ReadStuck, row

\* The sweep closes a call nobody has closed, or closes nothing.
LEMMA SweepCloseInv ==
    ASSUME Inv, NEW c \in Calls, NEW rest \in SUBSET Calls, SweepClose(c, rest)
    PROVE  Inv'
<1> USE DEF Inv
<1>1. sweep' \in [list : SUBSET Calls, release : Calls \cup {NoCall}]
  BY DEF SweepClose, NextOf, NoSweep
<1>2. CASE UNCHANGED row
  <2>1. TypeOK'
    BY <1>1, <1>2 DEF SweepClose, TypeOK, row, history
  <2> QED  BY <1>2, <2>1, Aside DEF SweepClose, row
<1>3. CASE CloseCall(c, Other)
  <2> USE <1>3
  <2>1. TypeOK'
    BY <1>1, CloseShape DEF SweepClose, TypeOK, history
  <2>2. UNCHANGED <<post, markers>>
    BY DEF SweepClose
  <2>3. NextIsGone' /\ MarkerMeansClosed'
    BY <2>2, CloseKeepsRows
  <2>4. PostsKnowTheirCalls' /\ ClosedForPosts'
    BY <2>2, CloseShape DEF PostsKnowTheirCalls, ClosedForPosts
  <2>5. Other \notin Posts /\ Other # Nobody
    BY DEF Other, Nobody, Posts
  <2>6. ClosersKnown'
    BY <2>2, <2>5, CloseShape DEF ClosersKnown
  <2>7. ReportedTimeWins'
    BY <2>2, <2>5, CloseShape DEF ReportedTimeWins
  <2> QED  BY <2>1, <2>3, <2>4, <2>6, <2>7
<1> QED  BY <1>2, <1>3 DEF SweepClose

\* A step of the sweep.
LEMMA SweepInv == Inv /\ Sweep => Inv'
<1> SUFFICES ASSUME Inv, Sweep PROVE Inv'
  OBVIOUS
<1>t. sweep.list \in SUBSET Calls /\ sweep.release \in Calls \cup {NoCall}
  BY DEF Inv, TypeOK
<1>1. CASE ReadStuck
  BY <1>1, ReadStuckInv
<1>2. CASE SweepHead
  <2>1. PICK c \in Oldest(sweep.list) : SweepClose(c, sweep.list \ {c})
    BY <1>2 DEF SweepHead
  <2>2. c \in Calls /\ sweep.list \ {c} \in SUBSET Calls
    BY <1>t DEF Oldest
  <2> QED  BY <2>1, <2>2, SweepCloseInv
<1>3. CASE SweepRelease
  BY <1>3, <1>t, SweepCloseInv DEF SweepRelease
<1> QED  BY <1>1, <1>2, <1>3 DEF Sweep

\* What the posts become when one of them goes on, its call the same.
LEMMA PostsAfter ==
    ASSUME TypeOK, NEW n \in Posts, NEW at, GoesTo(n, at),
           at \in {"save", "close", "patch", "marker", "answered", "failed"}
    PROVE  /\ post' \in [Posts -> [call : Calls \cup {NoCall},
                                   at : {"unsent", "save", "close", "patch", "marker",
                                         "answered", "failed"}]]
           /\ post'[n].at = at
           /\ \A m \in Posts : post'[m].call = post[m].call /\ (m # n => post'[m] = post[m])
BY DEF GoesTo, TypeOK

\* A summary arrives.
LEMMA PostInv == ASSUME Inv, NEW n \in Posts, NEW c \in Calls, PostSummary(n, c) PROVE Inv'
<1> USE DEF Inv
<1>1. /\ post' \in [Posts -> [call : Calls \cup {NoCall},
                              at : {"unsent", "save", "close", "patch", "marker",
                                    "answered", "failed"}]]
      /\ post[n].at = "unsent" /\ post'[n].at = "save" /\ post'[n].call = c
      /\ \A m \in Posts \ {n} : post'[m] = post[m]
  BY DEF PostSummary, TypeOK
<1>2. UNCHANGED <<status, endedAt, closedBy, markers>>
  BY DEF PostSummary, row
<1>3. TypeOK'
  BY <1>1 DEF PostSummary, TypeOK, row, history
<1>4. PostsKnowTheirCalls' /\ ClosedForPosts'
  BY <1>1, <1>2 DEF PostsKnowTheirCalls, ClosedForPosts
<1>5. NextIsGone' /\ MarkerMeansClosed'
  BY <1>2 DEF NextIsGone, NextOf, MarkerMeansClosed
<1>6. \A d \in Calls : closedBy[d] # n
  BY <1>1 DEF ClosersKnown
<1>7. ClosersKnown' /\ ReportedTimeWins'
  BY <1>1, <1>2, <1>6 DEF ClosersKnown, ReportedTimeWins
<1> QED  BY <1>3, <1>4, <1>5, <1>7

\* The two writes of ended_at outside the RPC: they report, whatever the row says.
LEMMA WritesInv == ASSUME Inv, NEW n \in Posts, SaveStats(n) \/ PatchEnd(n) PROVE Inv'
<1> USE DEF Inv
<1>1. /\ post[n].at \in {"save", "patch"}
      /\ \/ post[n].at = "save" /\ GoesTo(n, "close")
         \/ post[n].at = "patch" /\ GoesTo(n, "marker")
      /\ \/ endedAt' = [endedAt EXCEPT ![post[n].call] = "reported"]
         \/ post[n].at = "save" /\ endedAt' = endedAt
      /\ UNCHANGED <<status, closedBy, markers>>
  BY DEF SaveStats, PatchEnd
<1>2. post[n].call \in Calls
  BY <1>1 DEF PostsKnowTheirCalls
<1>3. /\ endedAt' \in [Calls -> Ends]
      /\ \A d \in Calls : endedAt'[d] = endedAt[d] \/ endedAt'[d] = "reported"
      /\ post[n].at = "patch" => endedAt'[post[n].call] = "reported"
  BY <1>1, <1>2 DEF TypeOK, Ends
<1>4. TypeOK'
  BY <1>1, <1>3, PostsAfter DEF SaveStats, PatchEnd, TypeOK, history
<1>5. PostsKnowTheirCalls' /\ ClosedForPosts'
  BY <1>1, PostsAfter DEF PostsKnowTheirCalls, ClosedForPosts
<1>6. NextIsGone' /\ MarkerMeansClosed'
  BY <1>1 DEF NextIsGone, NextOf, MarkerMeansClosed
<1>7. ClosersKnown' /\ ReportedTimeWins'
  BY <1>1, <1>3, PostsAfter DEF ClosersKnown, ReportedTimeWins
<1> QED  BY <1>4, <1>5, <1>6, <1>7

\* complete_call of a summary: it closes the call and owes the reported time, or
\* finds it closed, or fails.
LEMMA CloseBySummaryInv == ASSUME Inv, NEW n \in Posts, CloseBySummary(n) PROVE Inv'
<1> USE DEF Inv
<1> DEFINE c == post[n].call
<1>0. post[n].at = "close" /\ UNCHANGED <<history, finished, sweep, markers>>
  BY DEF CloseBySummary
<1>c. c \in Calls
  BY <1>0 DEF PostsKnowTheirCalls
<1>n. n # Nobody /\ n # Other
  BY DEF Posts, Nobody, Other
<1>1. CASE CloseCall(c, n) /\ GoesTo(n, "patch")
  <2>1. TypeOK'
    BY <1>0, <1>1, <1>c, CloseShape, PostsAfter DEF TypeOK, history
  <2>2. NextIsGone' /\ MarkerMeansClosed'
    BY <1>0, <1>1, <1>c, CloseKeepsRows
  <2>3. PostsKnowTheirCalls' /\ ClosedForPosts'
    BY <1>0, <1>1, <1>c, CloseShape, PostsAfter DEF PostsKnowTheirCalls, ClosedForPosts
  <2>4. ClosersKnown'
    BY <1>0, <1>1, <1>c, <1>n, CloseShape, PostsAfter DEF ClosersKnown
  <2>5. ReportedTimeWins'
    BY <1>0, <1>1, <1>c, CloseShape, PostsAfter DEF ReportedTimeWins, ClosersKnown
  <2> QED  BY <2>1, <2>2, <2>3, <2>4, <2>5
<1>2. CASE /\ \/ status[c] = "closed" /\ GoesTo(n, "marker")
              \/ GoesTo(n, "failed")
           /\ UNCHANGED row
  <2>1. UNCHANGED <<status, expectedEnd, began, endedAt, closedBy>>
    BY <1>2 DEF row
  <2>2. TypeOK'
    BY <1>0, <1>2, <2>1, PostsAfter DEF TypeOK, history
  <2>3. NextIsGone' /\ MarkerMeansClosed'
    BY <1>0, <2>1 DEF NextIsGone, NextOf, MarkerMeansClosed
  <2>4. PostsKnowTheirCalls' /\ ClosedForPosts'
    BY <1>0, <1>2, <2>1, PostsAfter DEF PostsKnowTheirCalls, ClosedForPosts
  <2>5. ClosersKnown' /\ ReportedTimeWins'
    BY <1>0, <1>2, <2>1, PostsAfter DEF ClosersKnown, ReportedTimeWins
  <2> QED  BY <2>2, <2>3, <2>4, <2>5
<1> QED  BY <1>1, <1>2 DEF CloseBySummary

\* The last step of a summary, and the end of one that dies: the call of a marker
\* was closed when the summary got that far.
LEMMA MarkersInv ==
    ASSUME Inv, \/ HandlerDies
                \/ \E n \in Posts : SendMarker(n)
    PROVE  Inv'
<1> USE DEF Inv
<1>1. ASSUME NEW n \in Posts, SendMarker(n) PROVE Inv'
  <2>0. /\ post[n].at = "marker" /\ GoesTo(n, "answered") /\ UNCHANGED row
        /\ \/ markers' = markers \cup {post[n].call}
           \/ markers' = markers
        /\ UNCHANGED <<history, finished, sweep>>
    BY <1>1 DEF SendMarker
  <2>1. post[n].call \in Calls /\ status[post[n].call] = "closed"
    BY <2>0 DEF PostsKnowTheirCalls, ClosedForPosts
  <2>2. UNCHANGED <<status, expectedEnd, began, endedAt, closedBy>>
    BY <2>0 DEF row
  <2>3. TypeOK'
    BY <2>0, <2>1, <2>2, PostsAfter DEF TypeOK, history
  <2>4. NextIsGone' /\ MarkerMeansClosed'
    BY <2>0, <2>1, <2>2 DEF NextIsGone, NextOf, MarkerMeansClosed
  <2>5. PostsKnowTheirCalls' /\ ClosedForPosts'
    BY <2>0, <2>2, PostsAfter DEF PostsKnowTheirCalls, ClosedForPosts
  <2>6. ClosersKnown' /\ ReportedTimeWins'
    BY <2>0, <2>2, PostsAfter DEF ClosersKnown, ReportedTimeWins
  <2> QED  BY <2>3, <2>4, <2>5, <2>6
<1>2. ASSUME HandlerDies PROVE Inv'
  <2>1. UNCHANGED <<status, expectedEnd, began, endedAt, closedBy, clock, estimate,
                    finished, markers>>
    BY <1>2 DEF HandlerDies, row
  <2>2. deaths' \in 0 .. MaxDeaths
    BY <1>2, BoundsAssumption DEF HandlerDies, TypeOK
  <2>3. CASE sweep' = NoSweep /\ UNCHANGED post
    <3>1. TypeOK'
      BY <2>1, <2>2, <2>3 DEF TypeOK, NoSweep
    <3> QED  BY <2>1, <2>3, <3>1, Aside
  <2>4. ASSUME NEW n \in Posts, post[n].at \notin {"unsent", "answered", "failed"},
               GoesTo(n, "failed"), UNCHANGED sweep
        PROVE  Inv'
    <3>1. TypeOK'
      BY <2>1, <2>2, <2>4, PostsAfter DEF TypeOK
    <3>2. NextIsGone' /\ MarkerMeansClosed'
      BY <2>1 DEF NextIsGone, NextOf, MarkerMeansClosed
    <3>3. PostsKnowTheirCalls' /\ ClosedForPosts'
      BY <2>1, <2>4, PostsAfter DEF PostsKnowTheirCalls, ClosedForPosts
    <3>4. ClosersKnown' /\ ReportedTimeWins'
      BY <2>1, <2>4, PostsAfter DEF ClosersKnown, ReportedTimeWins
    <3> QED  BY <3>1, <3>2, <3>3, <3>4
  <2> QED  BY <1>2, <2>3, <2>4 DEF HandlerDies
<1> QED  BY <1>1, <1>2

\* Every step keeps the invariant.
LEMMA NextInv == Inv /\ [Next]_vars => Inv'
<1> SUFFICES ASSUME Inv, [Next]_vars PROVE Inv'
  OBVIOUS
<1>1. CASE UNCHANGED vars
  <2>1. TypeOK'
    BY <1>1 DEF vars, Inv, TypeOK
  <2> QED  BY <1>1, <2>1, Aside DEF vars
<1>2. ASSUME NEW n \in Posts, Summary(n) PROVE Inv'
  BY <1>2, WritesInv, CloseBySummaryInv, MarkersInv DEF Summary
<1>3. ASSUME NEW c \in Calls, Finish(c) \/ \E n \in Posts : PostSummary(n, c) PROVE Inv'
  BY <1>3, FinishInv, PostInv
<1> QED  BY <1>1, <1>2, <1>3, TickInv, SweepInv, MarkersInv DEF Next

\* The invariant holds for ever.
LEMMA Invariance == Spec => []Inv
BY InitInv, NextInv, PTL DEF Spec

\* Times, deadlines and rows keep their types; a deadline is in the range of an
\* integer of the database, as a close that would overflow does not happen.
THEOREM TypeCorrect == Spec => []TypeOK
<1>1. Inv => TypeOK
  BY DEF Inv
<1> QED  BY <1>1, Invariance, PTL

\* When a summary has had the end marker sent, its call is closed and the next of
\* its batch is not waiting any more (ingest_summary).
THEOREM MarkersTellTheTruth == Spec => []MarkerMeansClosed
<1>1. Inv => MarkerMeansClosed
  BY DEF Inv
<1> QED  BY <1>1, Invariance, PTL

\* Once the summary that closed a call is past its writes, ended_at is the time
\* the Worker reported, and stays it (ingest_summary).
THEOREM ReportsPrevail == Spec => []ReportedTimeWins
<1>1. Inv => ReportedTimeWins
  BY DEF Inv
<1> QED  BY <1>1, Invariance, PTL

----------------------------------------------------------------------------
(* The time a call is given.                                                *)

\* The deadline of a call that has started counts from its own start; and what
\* the sweep has in its list had started and was past its deadline when it was
\* read, which the steps of others since cannot undo.
OwnDeadline == \A c \in Calls :
    status[c] # "queued" => expectedEnd[c] = began[c] + Seconds(c) + Buffer

\* What the sweep has in its list is past its deadline.
ListIsLate == \A c \in sweep.list : status[c] # "queued" /\ expectedEnd[c] < clock

\* The inductive invariant of the times.
TimesInv == Inv /\ OwnDeadline /\ ListIsLate

\* The first calls of the batches start now.
LEMMA TimesInit == Init => TimesInv
<1> SUFFICES ASSUME Init PROVE TimesInv
  OBVIOUS
<1>1. Inv
  BY InitInv
<1>2. OwnDeadline
  BY DEF OwnDeadline, Init, Deadline, First, Seconds
<1>3. ListIsLate
  BY DEF ListIsLate, Init, NoSweep
<1> QED  BY <1>1, <1>2, <1>3 DEF TimesInv

\* A step that leaves the rows alone, lets time pass and puts nothing in the list.
LEMMA TimesAside ==
    ASSUME TimesInv, UNCHANGED <<status, expectedEnd, began, estimate>>,
           clock' \in {clock, clock + 1}, sweep'.list \subseteq sweep.list
    PROVE  OwnDeadline' /\ ListIsLate'
<1> USE DEF TimesInv
<1>1. OwnDeadline'
  BY DEF OwnDeadline, Seconds
<1>2. clock \in Int /\ (\A c \in Calls : expectedEnd[c] \in Int) /\ sweep.list \subseteq Calls
  BY BoundsAssumption DEF Inv, TypeOK
<1>3. \A c \in sweep.list : status'[c] # "queued" /\ expectedEnd'[c] < clock'
  BY <1>2 DEF ListIsLate
<1> QED  BY <1>1, <1>3 DEF ListIsLate

\* A close starts the time of the call it promotes, which no list holds.
LEMMA TimesOfClose ==
    ASSUME TimesInv, NEW c \in Calls, NEW by \in {Other} \cup Posts, CloseCall(c, by),
           UNCHANGED <<clock, estimate>>, sweep'.list \subseteq sweep.list
    PROVE  OwnDeadline' /\ ListIsLate'
<1> USE DEF TimesInv
<1>0. \A d \in NextOf(c) : d \in Calls /\ status[d] = "queued"
  BY DEF NextOf
<1>1. OwnDeadline'
  <2> SUFFICES ASSUME NEW d \in Calls, status'[d] # "queued"
               PROVE  expectedEnd'[d] = began'[d] + Seconds(d)' + Buffer
    BY DEF OwnDeadline
  <2>1. Seconds(d)' = Seconds(d)
    BY DEF Seconds
  <2>2. CASE d \in NextOf(c)
    BY <2>1, <2>2 DEF CloseCall, Deadline
  <2>3. CASE d \notin NextOf(c)
    <3>1. expectedEnd'[d] = expectedEnd[d] /\ began'[d] = began[d] /\ status[d] # "queued"
      BY <2>3 DEF CloseCall
    <3> QED  BY <2>1, <3>1 DEF OwnDeadline
  <2> QED  BY <2>2, <2>3
<1>2. ASSUME NEW d \in sweep'.list
      PROVE  status'[d] # "queued" /\ expectedEnd'[d] < clock'
  <2>1. d \in sweep.list /\ d \in Calls
    BY DEF Inv, TypeOK
  <2>2. d \notin NextOf(c)
    BY <1>0, <2>1 DEF ListIsLate
  <2>3. expectedEnd'[d] = expectedEnd[d] /\ status'[d] # "queued"
    BY <2>1, <2>2 DEF CloseCall, ListIsLate
  <2> QED  BY <2>1, <2>3 DEF ListIsLate
<1> QED  BY <1>1, <1>2 DEF ListIsLate

\* The sweep reads a list of late calls, and from then on it only takes from it.
LEMMA TimesOfSweep == ASSUME TimesInv, Sweep PROVE OwnDeadline' /\ ListIsLate'
<1> USE DEF TimesInv
<1>t. sweep.list \subseteq Calls /\ sweep.release \in Calls \cup {NoCall}
  BY DEF Inv, TypeOK
<1>1. CASE ReadStuck
  <2>1. UNCHANGED <<status, expectedEnd, began, estimate, clock>>
    BY <1>1 DEF ReadStuck, row, history
  <2>2. sweep'.list \subseteq Stuck
    BY <1>1 DEF ReadStuck, Lists, NoSweep
  <2>3. ListIsLate'
    BY <2>1, <2>2 DEF ListIsLate, Stuck
  <2>4. OwnDeadline'
    BY <2>1 DEF OwnDeadline, Seconds
  <2> QED  BY <2>3, <2>4
<1>2. ASSUME NEW c \in Calls, NEW rest, rest \subseteq sweep.list, SweepClose(c, rest)
      PROVE  OwnDeadline' /\ ListIsLate'
  <2>1. sweep'.list \subseteq sweep.list /\ UNCHANGED <<clock, estimate>>
    BY <1>2 DEF SweepClose, NoSweep, history
  <2>2. CASE CloseCall(c, Other)
    BY <2>1, <2>2, TimesOfClose
  <2>3. CASE UNCHANGED row
    BY <2>1, <2>3, TimesAside DEF row
  <2> QED  BY <1>2, <2>2, <2>3 DEF SweepClose
<1>3. CASE SweepHead
  <2>1. PICK c \in Oldest(sweep.list) : SweepClose(c, sweep.list \ {c})
    BY <1>3 DEF SweepHead
  <2> QED  BY <1>2, <1>t, <2>1 DEF Oldest
<1>4. CASE SweepRelease
  BY <1>2, <1>4, <1>t DEF SweepRelease
<1> QED  BY <1>1, <1>3, <1>4 DEF Sweep

\* Every step keeps the invariant of the times.
LEMMA TimesNext == TimesInv /\ [Next]_vars => TimesInv'
<1> SUFFICES ASSUME TimesInv, [Next]_vars PROVE TimesInv'
  OBVIOUS
<1>1. Inv'
  BY NextInv DEF TimesInv
<1>2. OwnDeadline' /\ ListIsLate'
  <2>1. CASE Sweep
    BY <2>1, TimesOfSweep
  <2>2. ASSUME NEW n \in Posts, CloseBySummary(n)
        PROVE  OwnDeadline' /\ ListIsLate'
    <3>1. post[n].call \in Calls
      BY <2>2 DEF CloseBySummary, TimesInv, Inv, PostsKnowTheirCalls
    <3>2. UNCHANGED <<clock, estimate, sweep>>
      BY <2>2 DEF CloseBySummary, history
    <3>3. CASE CloseCall(post[n].call, n)
      BY <3>1, <3>2, <3>3, TimesOfClose
    <3>4. CASE UNCHANGED row
      BY <3>2, <3>4, TimesAside DEF row
    <3> QED  BY <2>2, <3>3, <3>4 DEF CloseBySummary
  <2>3. CASE Tick
    BY <2>3, TimesAside DEF Tick, row
  <2>4. CASE \E n \in Posts : SaveStats(n) \/ PatchEnd(n) \/ SendMarker(n)
    BY <2>4, TimesAside DEF SaveStats, PatchEnd, SendMarker, row, history
  <2>5. CASE \E c \in Calls : Finish(c) \/ \E n \in Posts : PostSummary(n, c)
    BY <2>5, TimesAside DEF Finish, PostSummary, row, history
  <2>6. CASE HandlerDies
    <3>1. sweep'.list \subseteq sweep.list
      BY <2>6 DEF HandlerDies, NoSweep
    <3> QED  BY <2>6, <3>1, TimesAside DEF HandlerDies, row
  <2>7. CASE UNCHANGED vars
    BY <2>7, TimesAside DEF vars
  <2> QED  BY <2>1, <2>2, <2>3, <2>4, <2>5, <2>6, <2>7 DEF Next, Summary
<1> QED  BY <1>1, <1>2 DEF TimesInv

\* The sweep takes no call from its list before the call has had its estimated
\* time and the buffer since its own start (spine_sla_deadline).
THEOREM EverybodyHasItsTime == Spec => SweptAfterItsTime
<1>1. TimesInv /\ [Next]_vars =>
         [\A c \in sweep.list :
             closedBy'[c] = Other /\ closedBy[c] = Nobody /\ sweep.release = NoCall
             => clock > began[c] + Seconds(c) + Buffer]_vars
  <2> SUFFICES ASSUME TimesInv, NEW c \in sweep.list
               PROVE  clock > began[c] + Seconds(c) + Buffer
    OBVIOUS
  <2>1. /\ c \in Calls /\ status[c] # "queued" /\ expectedEnd[c] < clock
        /\ clock \in Int /\ expectedEnd[c] \in Int
    BY BoundsAssumption DEF TimesInv, ListIsLate, Inv, TypeOK
  <2> QED  BY <2>1 DEF TimesInv, OwnDeadline
<1> QED  BY <1>1, TimesInit, TimesNext, PTL DEF Spec, SweptAfterItsTime

============================================================================

--------------------------- MODULE SchedulerProofs --------------------------
(***************************************************************************)
(* The Scheduler for any schedules, contacts, poll limit and number of     *)
(* faults: a schedule that comes due starts one call, plus one for a fault *)
(* of its own, and is not completed unheard.                               *)
(***************************************************************************)
EXTENDS Scheduler, SequenceTheorems, TLAPS

----------------------------------------------------------------------------
(* The list of due schedules as a sequence.                                 *)

\* Taking the element at a position out of a sequence without repetition.
LEMMA RemoveAtPosition ==
    ASSUME NEW S, NEW q \in Seq(S), IsInjective(q), NEW i \in 1 .. Len(q)
    PROVE  /\ RemoveAt(q, i) \in Seq(S)
           /\ Len(RemoveAt(q, i)) = Len(q) - 1
           /\ \A j \in 1 .. Len(q) - 1 : RemoveAt(q, i)[j] = IF j < i THEN q[j] ELSE q[j + 1]
<1> DEFINE a == SubSeq(q, 1, i - 1)
           b == SubSeq(q, i + 1, Len(q))
<1>1. Len(q) \in Nat /\ i \in Int /\ \A j \in 1 .. Len(q) : q[j] \in S
  BY LenProperties
<1>2. a \in Seq(S) /\ Len(a) = i - 1 /\ \A j \in 1 .. i - 1 : a[j] = q[j]
  <2>1. \A j \in 1 .. i - 1 : q[j] \in S
    BY <1>1
  <2>2. /\ a \in Seq(S) /\ Len(a) = IF 1 <= i - 1 THEN i - 1 - 1 + 1 ELSE 0
        /\ \A j \in 1 .. i - 1 - 1 + 1 : a[j] = q[1 + j - 1]
    BY <1>1, <2>1, SubSeqProperties
  <2> HIDE DEF a
  <2> QED  BY <1>1, <2>2
<1>3. /\ b \in Seq(S) /\ Len(b) = Len(q) - i
      /\ \A j \in 1 .. Len(q) - i : b[j] = q[i + j]
  <2>1. \A j \in i + 1 .. Len(q) : q[j] \in S
    BY <1>1
  <2>2. /\ b \in Seq(S) /\ Len(b) = IF i + 1 <= Len(q) THEN Len(q) - (i + 1) + 1 ELSE 0
        /\ \A j \in 1 .. Len(q) - (i + 1) + 1 : b[j] = q[(i + 1) + j - 1]
    BY <1>1, <2>1, SubSeqProperties
  <2> HIDE DEF b
  <2> QED  BY <1>1, <2>2
<1>4. RemoveAt(q, i) = a \o b
  BY DEF RemoveAt
<1> HIDE DEF a, b
<1>5. /\ a \o b \in Seq(S) /\ Len(a \o b) = Len(a) + Len(b)
      /\ \A j \in 1 .. Len(a) + Len(b) :
            (a \o b)[j] = IF j <= Len(a) THEN a[j] ELSE b[j - Len(a)]
  BY <1>2, <1>3, ConcatProperties
<1>6. ASSUME NEW j \in 1 .. Len(q) - 1
      PROVE  (a \o b)[j] = IF j < i THEN q[j] ELSE q[j + 1]
  <2>1. CASE j < i
    BY <1>1, <1>2, <1>3, <1>5, <2>1
  <2>2. CASE ~(j < i)
    <3>0. j \in 1 .. Len(a) + Len(b) /\ ~(j <= Len(a))
      BY <1>1, <1>2, <1>3, <2>2
    <3>1. (a \o b)[j] = b[j - (i - 1)]
      BY <1>2, <1>5, <3>0
    <3>2. j - (i - 1) \in 1 .. Len(q) - i /\ i + (j - (i - 1)) = j + 1
      BY <1>1, <2>2
    <3>3. b[j - (i - 1)] = q[j + 1]
      BY <1>3, <3>2
    <3> QED  BY <1>1, <2>2, <3>1, <3>3
  <2> QED  BY <2>1, <2>2
<1> QED  BY <1>1, <1>2, <1>3, <1>4, <1>5, <1>6

\* RemoveFirst takes out exactly what it is asked to, and nothing twice.
LEMMA RemoveFromDue ==
    ASSUME NEW S, NEW q \in Seq(S), IsInjective(q), NEW e \in ToSet(q)
    PROVE  /\ RemoveFirst(q, e) \in Seq(S)
           /\ IsInjective(RemoveFirst(q, e))
           /\ ToSet(RemoveFirst(q, e)) = ToSet(q) \ {e}
<1>1. Len(q) \in Nat /\ DOMAIN q = 1 .. Len(q)
  BY LenProperties
<1>2. PICK i \in 1 .. Len(q) : q[i] = e
  BY <1>1 DEF ToSet
<1>3. RemoveFirst(q, e) = RemoveAt(q, i)
  <2>1. {j \in 1 .. Len(q) : q[j] = e} = {i}
    BY <1>1, <1>2 DEF IsInjective
  <2>2. SelectInSeq(q, LAMBDA v : v = e) = i
    BY <2>1 DEF SelectInSeq, Min
  <2> QED  BY <1>2, <2>2 DEF RemoveFirst
<1> DEFINE r == RemoveAt(q, i)
<1>4. /\ r \in Seq(S) /\ Len(r) = Len(q) - 1
      /\ \A j \in 1 .. Len(q) - 1 : r[j] = IF j < i THEN q[j] ELSE q[j + 1]
  BY RemoveAtPosition
<1> HIDE DEF r
<1>5. DOMAIN r = 1 .. Len(q) - 1
  BY <1>4, LenProperties
<1>6. IsInjective(r)
  <2> SUFFICES ASSUME NEW j \in 1 .. Len(q) - 1, NEW k \in 1 .. Len(q) - 1, r[j] = r[k]
               PROVE  j = k
    BY <1>5 DEF IsInjective
  <2> DEFINE u == IF j < i THEN j ELSE j + 1
             v == IF k < i THEN k ELSE k + 1
  <2>1. u \in 1 .. Len(q) /\ v \in 1 .. Len(q)
    BY <1>1
  <2>2. r[j] = q[u] /\ r[k] = q[v]
    BY <1>4
  <2>3. u = v
    BY <1>1, <2>1, <2>2 DEF IsInjective
  <2> QED  BY <1>1, <2>3
<1>7. ToSet(r) = ToSet(q) \ {e}
  <2>1. ASSUME NEW x \in ToSet(r)
        PROVE  x \in ToSet(q) \ {e}
    <3>1. PICK j \in 1 .. Len(q) - 1 : x = r[j]
      BY <1>5 DEF ToSet
    <3> DEFINE u == IF j < i THEN j ELSE j + 1
    <3>2. u \in 1 .. Len(q) /\ u # i /\ x = q[u]
      BY <1>1, <1>4, <3>1
    <3> HIDE DEF u
    <3> QED  BY <1>1, <1>2, <3>2 DEF ToSet, IsInjective
  <2>2. ASSUME NEW x \in ToSet(q) \ {e}
        PROVE  x \in ToSet(r)
    <3>1. PICK k \in 1 .. Len(q) : x = q[k] /\ k # i
      BY <1>1, <1>2 DEF ToSet
    <3> DEFINE j == IF k < i THEN k ELSE k - 1
    <3>2. j \in 1 .. Len(q) - 1 /\ x = r[j]
      BY <1>1, <1>4, <3>1
    <3> HIDE DEF j
    <3> QED  BY <1>5, <3>2 DEF ToSet
  <2> QED  BY <2>1, <2>2
<1> QED  BY <1>3, <1>4, <1>6, <1>7 DEF r

\* The tail of a list without repetition has lost its head and nothing else.
LEMMA TailOfList ==
    ASSUME NEW S, NEW q \in Seq(S), IsInjective(q), q # <<>>
    PROVE  /\ Tail(q) \in Seq(S)
           /\ IsInjective(Tail(q))
           /\ Head(q) \in ToSet(q)
           /\ ToSet(Tail(q)) = ToSet(q) \ {Head(q)}
<1>1. /\ Len(q) \in Nat /\ Len(q) # 0 /\ DOMAIN q = 1 .. Len(q)
      /\ Head(q) = q[1]
  BY LenProperties, EmptySeq
<1>2. /\ Tail(q) \in Seq(S) /\ Len(Tail(q)) = Len(q) - 1
      /\ \A i \in 1 .. Len(Tail(q)) : Tail(q)[i] = q[i + 1]
  BY HeadTailProperties
<1> DEFINE r == Tail(q)
<1>3. DOMAIN r = 1 .. Len(q) - 1 /\ \A i \in 1 .. Len(q) - 1 : r[i] = q[i + 1]
  BY <1>2, LenProperties
<1> HIDE DEF r
<1>4. IsInjective(r)
  <2> SUFFICES ASSUME NEW j \in 1 .. Len(q) - 1, NEW k \in 1 .. Len(q) - 1, r[j] = r[k]
               PROVE  j = k
    BY <1>3 DEF IsInjective
  <2>1. j + 1 \in 1 .. Len(q) /\ k + 1 \in 1 .. Len(q) /\ q[j + 1] = q[k + 1]
    BY <1>1, <1>3
  <2>2. j + 1 = k + 1
    BY <1>1, <2>1 DEF IsInjective
  <2> QED  BY <1>1, <2>2
<1>5. Head(q) \in ToSet(q)
  BY <1>1 DEF ToSet
<1>6. ToSet(r) = ToSet(q) \ {Head(q)}
  <2>1. ASSUME NEW x \in ToSet(r)
        PROVE  x \in ToSet(q) \ {Head(q)}
    <3>1. PICK j \in 1 .. Len(q) - 1 : x = r[j]
      BY <1>3 DEF ToSet
    <3>2. j + 1 \in 1 .. Len(q) /\ j + 1 # 1 /\ 1 \in 1 .. Len(q) /\ x = q[j + 1]
      BY <1>1, <1>3, <3>1
    <3>3. q[j + 1] # q[1]
      BY <1>1, <3>2 DEF IsInjective
    <3> QED  BY <1>1, <3>2, <3>3 DEF ToSet
  <2>2. ASSUME NEW x \in ToSet(q) \ {Head(q)}
        PROVE  x \in ToSet(r)
    <3>1. PICK k \in 1 .. Len(q) : x = q[k] /\ k # 1
      BY <1>1 DEF ToSet
    <3>2. k - 1 \in 1 .. Len(q) - 1 /\ (k - 1) + 1 = k
      BY <1>1, <3>1
    <3>3. x = r[k - 1]
      BY <1>3, <3>1, <3>2
    <3> QED  BY <1>3, <3>2, <3>3 DEF ToSet
  <2> QED  BY <2>1, <2>2
<1> QED  BY <1>2, <1>4, <1>5, <1>6 DEF r

\* A poll reads some of the due schedules, none twice.
LEMMA FirstDueOfDue ==
    ASSUME due \in Seq(Schedules), IsInjective(due)
    PROVE  /\ FirstDue \in Seq(Schedules)
           /\ IsInjective(FirstDue)
           /\ ToSet(FirstDue) \subseteq ToSet(due)
<1>1. /\ Len(due) \in Nat /\ DOMAIN due = 1 .. Len(due)
      /\ \A i \in 1 .. Len(due) : due[i] \in Schedules
  BY LenProperties
<1>2. CASE Len(due) <= Limit
  BY <1>2 DEF FirstDue
<1>3. CASE ~(Len(due) <= Limit)
  <2> DEFINE r == SubSeq(due, 1, Limit)
  <2>1. Limit \in Nat \ {0} /\ Limit < Len(due)
    BY <1>1, <1>3, LimitAssumption
  <2>2. \A i \in 1 .. Limit : due[i] \in Schedules
    BY <1>1, <2>1
  <2>3. /\ r \in Seq(Schedules) /\ Len(r) = IF 1 <= Limit THEN Limit - 1 + 1 ELSE 0
        /\ \A i \in 1 .. Limit - 1 + 1 : r[i] = due[1 + i - 1]
    BY <2>1, <2>2, SubSeqProperties
  <2> HIDE DEF r
  <2>4. Len(r) = Limit /\ \A i \in 1 .. Limit : r[i] = due[i]
    BY <2>1, <2>3
  <2>5. DOMAIN r = 1 .. Limit
    BY <2>3, <2>4, LenProperties
  <2>6. 1 .. Limit \subseteq 1 .. Len(due)
    BY <1>1, <2>1
  <2>7. IsInjective(r) /\ ToSet(r) \subseteq ToSet(due)
    BY <1>1, <2>4, <2>5, <2>6 DEF IsInjective, ToSet
  <2>8. FirstDue = r
    BY <1>3 DEF FirstDue, r
  <2> QED  BY <2>3, <2>7, <2>8
<1> QED  BY <1>2, <1>3

\* A schedule that becomes due is put last.
LEMMA AppendToDue ==
    ASSUME NEW S, NEW q \in Seq(S), IsInjective(q), NEW e \in S, e \notin ToSet(q)
    PROVE  /\ Append(q, e) \in Seq(S)
           /\ IsInjective(Append(q, e))
           /\ ToSet(Append(q, e)) = ToSet(q) \cup {e}
<1> DEFINE r == Append(q, e)
<1>1. Len(q) \in Nat /\ DOMAIN q = 1 .. Len(q)
  BY LenProperties
<1>2. /\ r \in Seq(S) /\ Len(r) = Len(q) + 1
      /\ \A i \in 1 .. Len(q) : r[i] = q[i]
      /\ r[Len(q) + 1] = e
  BY AppendProperties
<1> HIDE DEF r
<1>3. DOMAIN r = 1 .. Len(q) + 1
  BY <1>2, LenProperties
<1>4. \A i \in 1 .. Len(q) + 1 : i \in 1 .. Len(q) \/ i = Len(q) + 1
  BY <1>1
<1>5. \A i \in 1 .. Len(q) : i \in 1 .. Len(q) + 1 /\ q[i] # e
  BY <1>1 DEF ToSet
<1>6. IsInjective(r)
  BY <1>1, <1>2, <1>3, <1>4, <1>5 DEF IsInjective
<1>7. ToSet(r) = ToSet(q) \cup {e}
  <2>1. Len(q) + 1 \in 1 .. Len(q) + 1
    BY <1>1
  <2> QED  BY <1>1, <1>2, <1>3, <1>4, <1>5, <2>1 DEF ToSet
<1> QED  BY <1>2, <1>6, <1>7 DEF r

----------------------------------------------------------------------------
(* The inductive invariant.                                                 *)

\* The request of s the Scheduler has stopped waiting for.
Late(s) == request[<<s, "late">>]

\* 1 while the request left behind may have a call started for s.
LateStart(s) == IF Late(s) # "none" THEN 1 ELSE 0
\* 1 while s may have a call started by its turn in the poll.
NextStart(s) == IF phase[s] = "due" /\ Live(s) # "201" THEN 1 ELSE 0

\* A once schedule finds its own call open only after a fault: without one the
\* call is there while the Scheduler waits for it, or after it was advanced.
OwnCall(s) ==
    /\ refused[s] = "for its own" => faults[s] > 0
    /\ s \in owners => \/ faults[s] > 0
                       \/ phase[s] \in {"completed", "error"}
                       \/ phase[s] = "due" /\ Live(s) \in {"created", "201"}

\* What the books say of a schedule: it pays for a call beyond the first with a
\* fault, and it remembers what it was answered until it is advanced.
Books(s) ==
    /\ Live(s) # "none" => s \in Calling
    /\ Late(s) \in {"none", "asked", "created"}
    /\ Late(s) # "none" => faults[s] > 0
    /\ starts[s] + LateStart(s) + NextStart(s) <= 1 + faults[s]
    /\ Live(s) = "201" => starts[s] > 0
    /\ Live(s) = "409" => refused[s] # "no"
    /\ phase[s] = "completed" => Kind[s] \in {"once", "manual"} /\ (starts[s] > 0 \/ refused[s] # "no")
    /\ Kind[s] = "once" => OwnCall(s)

\* TypeOK but for the lists.
Rows ==
    /\ phase \in [Schedules -> {"waiting", "due", "completed", "error"}]
    /\ request \in [Requests -> Stages]
    /\ others \subseteq Contacts /\ owners \subseteq Schedules
    /\ starts \in [Schedules -> Nat]
    /\ refused \in [Schedules -> Refusals]
    /\ faults \in [Schedules -> Nat]

\* The list of a poll is one of due schedules, so the schedule the Scheduler
\* waits for is due until it is advanced.
Lists ==
    /\ due \in Seq(Schedules) /\ IsInjective(due)
    /\ ToSet(due) = {s \in Schedules : phase[s] = "due"}
    /\ list \in Seq(Schedules) /\ IsInjective(list)
    /\ ToSet(list) \subseteq ToSet(due)
    /\ \A s \in Schedules : Live(s) # "none" => Current(s)

\* The inductive invariant.
Inv == Rows /\ Lists /\ \A s \in Schedules : Books(s)

\* The Scheduler waits for the head of its list alone, and that is due.
LEMMA WaitsForDue ==
    ASSUME Lists, NEW s \in Schedules, Live(s) # "none" \/ Current(s)
    PROVE  /\ list # <<>> /\ Head(list) = s
           /\ phase[s] = "due" /\ s \in ToSet(due)
           /\ \A t \in Schedules : t # s => Live(t) = "none"
<1>1. list # <<>> /\ Head(list) = s
  BY DEF Lists, Current
<1>2. s \in ToSet(list)
  BY <1>1, TailOfList DEF Lists
<1> QED  BY <1>1, <1>2 DEF Lists, Current

\* A step that changes one request.
LEMMA RequestChanges ==
    ASSUME NEW s \in Schedules, NEW kind \in {"live", "late"}, NEW stage \in Stages,
           request \in [Requests -> Stages], SetRequest(<<s, kind>>, stage)
    PROVE  /\ request' \in [Requests -> Stages]
           /\ \A t \in Schedules :
                 /\ Live(t)' = IF t = s /\ kind = "live" THEN stage ELSE Live(t)
                 /\ Late(t)' = IF t = s /\ kind = "late" THEN stage ELSE Late(t)
<1>1. <<s, kind>> \in Requests /\ \A t \in Schedules : <<t, "live">> \in Requests /\ <<t, "late">> \in Requests
  BY DEF Requests
<1>2. request' = [request EXCEPT ![<<s, kind>>] = stage]
  BY DEF SetRequest
<1> QED  BY <1>1, <1>2 DEF Live, Late

\* The books in numbers.
LEMMA Counts ==
    ASSUME Rows, NEW s \in Schedules
    PROVE  /\ faults[s] \in Nat /\ starts[s] \in Nat
           /\ LateStart(s) \in {0, 1} /\ (LateStart(s) = 1 <=> Late(s) # "none")
           /\ NextStart(s) \in {0, 1}
           /\ Books(s) => starts[s] + LateStart(s) + NextStart(s) <= 1 + faults[s]
           /\ NextStart(s) = 1 <=> phase[s] = "due" /\ Live(s) # "201"
<1>1. faults[s] \in Nat /\ starts[s] \in Nat
  BY DEF Rows
<1>2. LateStart(s) = IF Late(s) # "none" THEN 1 ELSE 0
  BY DEF LateStart
<1>3. NextStart(s) = IF phase[s] = "due" /\ Live(s) # "201" THEN 1 ELSE 0
  BY DEF NextStart
<1>4. Books(s) => starts[s] + LateStart(s) + NextStart(s) <= 1 + faults[s]
  BY DEF Books
<1> QED  BY <1>1, <1>2, <1>3, <1>4

\* Nobody is due at the start.
LEMMA InitInv == Init => Inv
<1> SUFFICES ASSUME Init PROVE Inv
  OBVIOUS
<1>1. ToSet(<<>>) = {} /\ IsInjective(<<>>)
  BY DEF ToSet, IsInjective
<1>2. /\ request \in [Requests -> Stages]
      /\ \A s \in Schedules : Live(s) = "none" /\ Late(s) = "none"
  BY DEF Init, Requests, Stages, Live, Late
<1>3. Rows
  BY <1>2 DEF Init, Rows, Refusals
<1>4. Lists
  BY <1>1, <1>2, EmptySeq DEF Init, Lists
<1>5. \A s \in Schedules : Books(s)
  BY <1>2 DEF Init, Books, OwnCall, LateStart, NextStart
<1> QED  BY <1>3, <1>4, <1>5 DEF Inv

\* next_run comes: the books of the schedule are opened anew.
LEMMA BecomesDueInv ==
    ASSUME Inv, NEW s \in Schedules, BecomesDue(s)
    PROVE  Inv'
<1> USE DEF Inv
<1>1. /\ phase[s] = "waiting" \/ (phase[s] = "completed" /\ Kind[s] = "manual")
      /\ phase' = [phase EXCEPT ![s] = "due"]
      /\ due' = Append(due, s)
      /\ starts' = [starts EXCEPT ![s] = 0] /\ refused' = [refused EXCEPT ![s] = "no"]
      /\ list' = list /\ request' = request /\ others' = others /\ owners' = owners /\ faults' = faults
  BY DEF BecomesDue
<1>2. s \notin ToSet(due) /\ Live(s) = "none"
  BY <1>1, WaitsForDue DEF Lists
<1>3. due' \in Seq(Schedules) /\ IsInjective(due') /\ ToSet(due') = ToSet(due) \cup {s}
  <2>1. due \in Seq(Schedules) /\ IsInjective(due)
    BY DEF Lists
  <2> QED  BY <1>1, <1>2, <2>1, AppendToDue
<1>4. /\ phase'[s] = "due" /\ starts'[s] = 0 /\ refused'[s] = "no"
      /\ \A t \in Schedules : t # s => /\ phase'[t] = phase[t] /\ starts'[t] = starts[t]
                                       /\ refused'[t] = refused[t]
  BY <1>1 DEF Rows
<1>5. \A t \in Schedules : Live(t)' = Live(t) /\ Late(t)' = Late(t)
  BY <1>1 DEF Live, Late
<1>6. Rows'
  BY <1>1 DEF Rows, Refusals
<1>7. Lists'
  <2>1. ToSet(due') = {t \in Schedules : phase'[t] = "due"}
    BY <1>3, <1>4 DEF Lists
  <2>2. \A t \in Schedules : Live(t)' # "none" => Current(t)'
    BY <1>1, <1>5 DEF Lists, Current
  <2> QED  BY <1>1, <1>3, <2>1, <2>2 DEF Lists
<1>8. ASSUME NEW t \in Schedules
      PROVE  Books(t)'
  <2>1. Books(t) /\ faults[t] \in Nat /\ faults' = faults
    BY <1>1, Counts
  <2>2. CASE t = s
    <3>1. LateStart(t)' \in {0, 1} /\ (LateStart(t)' = 1 => faults[t] > 0) /\ NextStart(t)' \in {0, 1}
      <4>1. Late(t)' # "none" => faults[t] > 0
        BY <1>5, <2>1 DEF Books, OwnCall
      <4>2. LateStart(t)' = IF Late(t)' # "none" THEN 1 ELSE 0
        BY DEF LateStart
      <4>3. NextStart(t)' \in {0, 1}
        BY DEF NextStart
      <4> QED  BY <4>1, <4>2, <4>3
    <3>2. starts'[t] + LateStart(t)' + NextStart(t)' <= 1 + faults'[t]
      BY <1>4, <2>1, <2>2, <3>1
    <3>3. Kind[t] = "once" => OwnCall(t)'
      BY <1>1, <1>4, <2>1, <2>2 DEF Books, OwnCall
    <3> QED  BY <1>2, <1>4, <1>5, <2>1, <2>2, <3>2, <3>3 DEF Books
  <2>3. CASE t # s
    <3>1. LateStart(t)' = LateStart(t) /\ NextStart(t)' = NextStart(t)
      BY <1>4, <1>5, <2>3 DEF LateStart, NextStart
    <3>2. Kind[t] = "once" => OwnCall(t)'
      BY <1>1, <1>4, <1>5, <2>1, <2>3 DEF Books, OwnCall
    <3> QED  BY <1>1, <1>4, <1>5, <2>1, <2>3, <3>1, <3>2 DEF Books
  <2> QED  BY <2>2, <2>3
<1> QED  BY <1>6, <1>7, <1>8

\* A poll reads its list, or passes over a schedule of it.
LEMMA PollInv ==
    ASSUME Inv, Poll \/ \E s \in Schedules : WorkerNotActive(s)
    PROVE  Inv'
<1> USE DEF Inv
<1>1. /\ UNCHANGED <<phase, due, request, others, owners, starts, refused, faults>>
      /\ \A t \in Schedules : Live(t) = "none"
      /\ list' \in Seq(Schedules) /\ IsInjective(list') /\ ToSet(list') \subseteq ToSet(due)
  <2>1. CASE Poll
    <3>1. \A t \in Schedules : Live(t) = "none"
      BY <2>1, WaitsForDue DEF Poll
    <3>2. due \in Seq(Schedules) /\ IsInjective(due)
      BY DEF Lists
    <3> QED  BY <2>1, <3>1, <3>2, FirstDueOfDue DEF Poll
  <2>2. ASSUME NEW s \in Schedules, WorkerNotActive(s)
        PROVE  /\ list' \in Seq(Schedules) /\ IsInjective(list') /\ ToSet(list') \subseteq ToSet(due)
               /\ UNCHANGED <<phase, due, request, others, owners, starts, refused, faults>>
               /\ \A t \in Schedules : Live(t) = "none"
    <3>1. /\ list \in Seq(Schedules) /\ IsInjective(list) /\ list # <<>>
          /\ ToSet(list) \subseteq ToSet(due)
      BY <2>2 DEF Lists, WorkerNotActive, Current
    <3> QED  BY <2>2, <3>1, TailOfList DEF WorkerNotActive, Idle
  <2> QED  BY <2>1, <2>2
<1>2. \A t \in Schedules : Live(t)' = Live(t) /\ Late(t)' = Late(t)
  BY <1>1 DEF Live, Late
<1>3. Rows'
  BY <1>1 DEF Rows
<1>4. Lists'
  BY <1>1, <1>2 DEF Lists
<1>5. \A t \in Schedules : Books(t)'
  BY <1>1, <1>2 DEF Books, OwnCall, LateStart, NextStart
<1> QED  BY <1>3, <1>4, <1>5

\* The head of the list has had its turn and left it; nobody waits.
LEMMA HeadLeaves ==
    ASSUME Lists, NEW s \in Schedules, Live(s) # "none" \/ Current(s), list' = Tail(list)
    PROVE  /\ list' \in Seq(Schedules) /\ IsInjective(list')
           /\ s \in ToSet(due) /\ s \notin ToSet(list')
           /\ ToSet(list') \subseteq ToSet(due) \ {s}
<1>1. /\ list \in Seq(Schedules) /\ IsInjective(list) /\ list # <<>> /\ Head(list) = s
      /\ ToSet(list) \subseteq ToSet(due) /\ s \in ToSet(due)
  BY WaitsForDue DEF Lists
<1> QED  BY <1>1, TailOfList

\* A schedule that is advanced leaves the due ones.
LEMMA AdvanceLeaves ==
    ASSUME Rows, Lists, NEW s \in Schedules, s \in ToSet(due),
           NEW p \in {"waiting", "completed", "error"}, Advance(s, p)
    PROVE  /\ due' \in Seq(Schedules) /\ IsInjective(due')
           /\ ToSet(due') = ToSet(due) \ {s}
           /\ ToSet(due') = {t \in Schedules : phase'[t] = "due"}
           /\ phase' \in [Schedules -> {"waiting", "due", "completed", "error"}]
           /\ phase'[s] = p /\ \A t \in Schedules : t # s => phase'[t] = phase[t]
<1>1. phase' = [phase EXCEPT ![s] = p] /\ due' = RemoveFirst(due, s)
  BY DEF Advance
<1>2. /\ phase' \in [Schedules -> {"waiting", "due", "completed", "error"}]
      /\ phase'[s] = p /\ \A t \in Schedules : t # s => phase'[t] = phase[t]
  BY <1>1 DEF Rows
<1>3. /\ due' \in Seq(Schedules) /\ IsInjective(due') /\ ToSet(due') = ToSet(due) \ {s}
  <2>1. due \in Seq(Schedules) /\ IsInjective(due)
    BY DEF Lists
  <2> QED  BY <1>1, <2>1, RemoveFromDue
<1>4. ToSet(due) = {t \in Schedules : phase[t] = "due"}
  BY DEF Lists
<1> QED  BY <1>2, <1>3, <1>4

\* The Scheduler asks for a call.
LEMMA PostEnsureInv ==
    ASSUME Inv, NEW s \in Schedules, PostEnsure(s)
    PROVE  Inv'
<1> USE DEF Inv
<1>1. /\ Current(s) /\ s \in Calling /\ \A t \in Schedules : Live(t) = "none"
      /\ SetRequest(<<s, "live">>, "asked")
      /\ UNCHANGED <<phase, due, list, others, owners, starts, refused, faults>>
  BY DEF PostEnsure, Idle
<1>2. /\ request' \in [Requests -> Stages]
      /\ \A t \in Schedules : /\ Live(t)' = IF t = s THEN "asked" ELSE Live(t)
                              /\ Late(t)' = Late(t)
  BY <1>1, RequestChanges DEF Stages, Rows
<1>3. Rows'
  BY <1>1, <1>2 DEF Rows
<1>4. Lists'
  BY <1>1, <1>2 DEF Lists, Current
<1>5. ASSUME NEW t \in Schedules
      PROVE  Books(t)'
  BY <1>1, <1>2 DEF Books, OwnCall, LateStart, NextStart
<1> QED  BY <1>3, <1>4, <1>5

\* The Scheduler closes the books of a schedule, or opens none.
LEMMA FiredInv ==
    ASSUME Inv, NEW s \in Schedules, Fired(s)
    PROVE  Inv'
<1> USE DEF Inv
<1>1. /\ Live(s) \in {"201", "409"}
      /\ SetRequest(<<s, "live">>, "none") /\ list' = Tail(list)
      /\ UNCHANGED <<others, owners, starts, refused, faults>>
  BY DEF Fired, Accepted
<1>2. PICK p \in {"waiting", "completed", "error"} :
         /\ Advance(s, p)
         /\ IF Kind[s] = "cron" THEN p # "completed" ELSE p = "completed"
  BY DEF Fired, After
<1>3. /\ request' \in [Requests -> Stages]
      /\ \A t \in Schedules : /\ Live(t)' = IF t = s THEN "none" ELSE Live(t)
                              /\ Late(t)' = Late(t)
  BY <1>1, RequestChanges DEF Stages, Rows
<1>4. \A t \in Schedules : t # s => Live(t) = "none"
  BY <1>1, WaitsForDue
<1>5. /\ list' \in Seq(Schedules) /\ IsInjective(list') /\ s \in ToSet(due)
      /\ ToSet(list') \subseteq ToSet(due) \ {s}
  BY <1>1, HeadLeaves
<1>6. /\ due' \in Seq(Schedules) /\ IsInjective(due')
      /\ ToSet(due') = ToSet(due) \ {s}
      /\ ToSet(due') = {t \in Schedules : phase'[t] = "due"}
      /\ phase' \in [Schedules -> {"waiting", "due", "completed", "error"}]
      /\ phase'[s] = p /\ \A t \in Schedules : t # s => phase'[t] = phase[t]
  BY <1>2, <1>5, AdvanceLeaves
<1>7. Rows'
  BY <1>1, <1>3, <1>6 DEF Rows
<1>8. Lists'
  BY <1>3, <1>4, <1>5, <1>6 DEF Lists
<1>9. ASSUME NEW t \in Schedules
      PROVE  Books(t)'
  <2>1. Books(t) /\ faults[t] \in Nat /\ starts[t] \in Nat /\ LateStart(t) \in {0, 1}
        /\ NextStart(t) \in {0, 1} /\ starts[t] + LateStart(t) + NextStart(t) <= 1 + faults[t]
    BY Counts
  <2>2. /\ starts'[t] = starts[t] /\ refused'[t] = refused[t] /\ faults' = faults
        /\ LateStart(t)' = LateStart(t)
    BY <1>1, <1>3 DEF LateStart
  <2>3. CASE t = s
    <3>1. NextStart(t)' = 0
      BY <1>6, <2>3 DEF NextStart
    <3>2. starts'[t] + LateStart(t)' + NextStart(t)' <= 1 + faults'[t]
      BY <2>1, <2>2, <3>1
    <3>3. s \in Calling /\ (starts[s] > 0 \/ refused[s] # "no")
      BY <1>1, <2>1, <2>3 DEF Books
    <3>4. p = "completed" => Kind[s] \in {"once", "manual"}
      BY <1>2, <3>3 DEF Calling
    <3>5. Kind[s] = "once" => OwnCall(s)'
      BY <1>2, <1>6, <2>1, <2>2, <2>3 DEF Books, OwnCall
    <3> QED  BY <1>1, <1>3, <1>6, <2>1, <2>2, <2>3, <3>2, <3>3, <3>4, <3>5 DEF Books
  <2>4. CASE t # s
    <3>1. NextStart(t)' = NextStart(t)
      BY <1>3, <1>6, <2>4 DEF NextStart
    <3>2. Kind[t] = "once" => OwnCall(t)'
      BY <1>1, <1>3, <1>6, <2>1, <2>2, <2>4 DEF Books, OwnCall
    <3> QED  BY <1>3, <1>6, <2>1, <2>2, <2>4, <3>1, <3>2 DEF Books
  <2> QED  BY <2>3, <2>4
<1> QED  BY <1>7, <1>8, <1>9

\* A schedule of an unknown type ends in error.
LEMMA UnsupportedInv ==
    ASSUME Inv, NEW s \in Schedules, Unsupported(s)
    PROVE  Inv'
<1> USE DEF Inv
<1>1. /\ Current(s) /\ s \notin Calling /\ Advance(s, "error") /\ list' = Tail(list)
      /\ UNCHANGED <<request, others, owners, starts, refused, faults>>
  BY DEF Unsupported
<1>2. \A t \in Schedules : Live(t) = "none" /\ Live(t)' = Live(t) /\ Late(t)' = Late(t)
  BY <1>1, WaitsForDue DEF Books, Live, Late
<1>3. /\ list' \in Seq(Schedules) /\ IsInjective(list') /\ s \in ToSet(due)
      /\ ToSet(list') \subseteq ToSet(due) \ {s}
  BY <1>1, HeadLeaves
<1>4. /\ due' \in Seq(Schedules) /\ IsInjective(due')
      /\ ToSet(due') = ToSet(due) \ {s}
      /\ ToSet(due') = {t \in Schedules : phase'[t] = "due"}
      /\ phase' \in [Schedules -> {"waiting", "due", "completed", "error"}]
      /\ phase'[s] = "error" /\ \A t \in Schedules : t # s => phase'[t] = phase[t]
  BY <1>1, <1>3, AdvanceLeaves
<1>5. Rows'
  BY <1>1, <1>4 DEF Rows
<1>6. Lists'
  BY <1>2, <1>3, <1>4 DEF Lists
<1>7. ASSUME NEW t \in Schedules
      PROVE  Books(t)'
  <2>1. Books(t) /\ faults[t] \in Nat /\ starts[t] \in Nat /\ LateStart(t) \in {0, 1}
        /\ NextStart(t) \in {0, 1} /\ starts[t] + LateStart(t) + NextStart(t) <= 1 + faults[t]
    BY Counts
  <2>2. /\ starts'[t] = starts[t] /\ refused'[t] = refused[t] /\ faults' = faults
        /\ LateStart(t)' = LateStart(t)
    BY <1>1, <1>2 DEF LateStart
  <2>3. NextStart(t)' = 0 \/ NextStart(t)' = NextStart(t)
    <3>1. CASE t = s
      BY <1>4, <3>1 DEF NextStart
    <3>2. CASE t # s
      BY <1>2, <1>4, <3>2 DEF NextStart
    <3> QED  BY <3>1, <3>2
  <2>4. starts'[t] + LateStart(t)' + NextStart(t)' <= 1 + faults'[t]
    BY <2>1, <2>2, <2>3
  <2>5. phase'[t] = "completed" => phase[t] = "completed"
    BY <1>4
  <2>6. Kind[t] = "once" => t # s
    BY <1>1 DEF Calling
  <2>7. Kind[t] = "once" => OwnCall(t)'
    BY <1>1, <1>2, <1>4, <2>1, <2>2, <2>6 DEF Books, OwnCall
  <2> QED  BY <1>2, <2>1, <2>2, <2>4, <2>5, <2>7 DEF Books
<1> QED  BY <1>5, <1>6, <1>7

\* Another answer: the schedule stays due, and may be asked for again.
LEMMA NotAcceptedInv ==
    ASSUME Inv, NEW s \in Schedules, NotAccepted(s)
    PROVE  Inv'
<1> USE DEF Inv
<1>1. /\ Live(s) \in {"503", "failed"}
      /\ SetRequest(<<s, "live">>, "none") /\ list' = Tail(list)
      /\ UNCHANGED <<phase, due, others, owners, starts, refused, faults>>
  BY DEF NotAccepted
<1>2. /\ request' \in [Requests -> Stages]
      /\ \A t \in Schedules : /\ Live(t)' = IF t = s THEN "none" ELSE Live(t)
                              /\ Late(t)' = Late(t)
  BY <1>1, RequestChanges DEF Stages, Rows
<1>3. \A t \in Schedules : t # s => Live(t) = "none"
  BY <1>1, WaitsForDue
<1>4. /\ list' \in Seq(Schedules) /\ IsInjective(list')
      /\ ToSet(list') \subseteq ToSet(due)
  BY <1>1, HeadLeaves
<1>5. Rows'
  BY <1>1, <1>2 DEF Rows
<1>6. Lists'
  BY <1>1, <1>2, <1>3, <1>4 DEF Lists
<1>7. ASSUME NEW t \in Schedules
      PROVE  Books(t)'
  <2>1. LateStart(t)' = LateStart(t)
    BY <1>2 DEF LateStart
  <2>2. NextStart(t)' = NextStart(t)
    BY <1>1, <1>2 DEF NextStart
  <2> QED  BY <1>1, <1>2, <2>1, <2>2 DEF Books, OwnCall
<1> QED  BY <1>5, <1>6, <1>7

\* An answer is lost: it pays for the request that is left behind, or for the
\* call whose start the Scheduler has not learnt of.
LEMMA LossInv ==
    ASSUME Inv, NEW s \in Schedules, AnswerLost(s) \/ Crash(s)
    PROVE  Inv'
<1> USE DEF Inv
<1> DEFINE left == IF Live(s) \in {"asked", "created"} THEN Live(s) ELSE "none"
<1>1. /\ Live(s) # "none" /\ Late(s) = "none" /\ Abandon(s)
      /\ list' \in {Tail(list), <<>>}
      /\ faults' = [faults EXCEPT ![s] = @ + 1]
      /\ UNCHANGED <<phase, due, others, owners, starts, refused>>
  BY DEF AnswerLost, Crash, Late, Fault
<1>2. /\ request' \in [Requests -> Stages]
      /\ \A t \in Schedules : /\ Live(t)' = IF t = s THEN "none" ELSE Live(t)
                              /\ Late(t)' = IF t = s THEN left ELSE Late(t)
  <2>1. /\ \A t \in Schedules : <<t, "live">> \in Requests /\ <<t, "late">> \in Requests
        /\ request \in [Requests -> Stages]
    BY DEF Requests, Rows
  <2>2. left \in Stages /\ "none" \in Stages
    BY DEF Stages
  <2>3. request' = [request EXCEPT ![<<s, "live">>] = "none", ![<<s, "late">>] = left]
    BY <1>1 DEF Abandon
  <2> HIDE DEF left
  <2> QED  BY <2>1, <2>2, <2>3 DEF Live, Late
<1>3. /\ phase[s] = "due" /\ \A t \in Schedules : t # s => Live(t) = "none"
  BY <1>1, WaitsForDue
<1>4. /\ list' \in Seq(Schedules) /\ IsInjective(list')
      /\ ToSet(list') \subseteq ToSet(due)
  <2>1. CASE list' = Tail(list)
    BY <1>1, <2>1, HeadLeaves
  <2>2. CASE list' = <<>>
    BY <2>2, EmptySeq DEF IsInjective, ToSet
  <2> QED  BY <1>1, <2>1, <2>2
<1>5. /\ faults' \in [Schedules -> Nat] /\ faults'[s] = faults[s] + 1 /\ faults[s] \in Nat
      /\ \A t \in Schedules : t # s => faults'[t] = faults[t]
  <2>1. faults \in [Schedules -> Nat] /\ faults' = [faults EXCEPT ![s] = faults[s] + 1]
    BY <1>1 DEF Rows
  <2>2. faults[s] \in Nat /\ faults[s] + 1 \in Nat
    BY <2>1
  <2> QED  BY <2>1, <2>2
<1>6. Rows'
  BY <1>1, <1>2, <1>5 DEF Rows
<1>7. Lists'
  BY <1>1, <1>2, <1>3, <1>4 DEF Lists
<1>8. ASSUME NEW t \in Schedules
      PROVE  Books(t)'
  <2>1. /\ Books(t) /\ faults[t] \in Nat /\ starts[t] \in Nat
        /\ LateStart(t) \in {0, 1} /\ NextStart(t) \in {0, 1}
        /\ starts[t] + LateStart(t) + NextStart(t) <= 1 + faults[t]
    BY Counts
  <2>3. CASE t # s
    <3>1. LateStart(t)' = LateStart(t)
      BY <1>2, <2>3 DEF LateStart
    <3>2. NextStart(t)' = NextStart(t)
      BY <1>1, <1>2, <2>3 DEF NextStart
    <3>3. starts'[t] + LateStart(t)' + NextStart(t)' <= 1 + faults'[t]
      BY <1>1, <1>5, <2>1, <2>3, <3>1, <3>2
    <3> QED  BY <1>1, <1>2, <1>5, <2>1, <2>3, <3>3 DEF Books, OwnCall
  <2>4. CASE t = s
    <3>0. faults'[t] \in Nat /\ faults'[t] > 0 /\ faults'[t] = faults[t] + 1
      BY <1>5, <2>4
    <3>1. LateStart(t) = 0 /\ NextStart(t)' = 1
      BY <1>1, <1>2, <1>3, <2>4 DEF LateStart, NextStart
    <3>2. starts'[t] + LateStart(t)' + NextStart(t)' <= 1 + faults'[t]
      <4>1. CASE Live(s) = "201"
        <5>1. LateStart(t)' = 0
          BY <1>2, <2>4, <4>1 DEF LateStart
        <5> QED  BY <1>1, <2>1, <3>0, <3>1, <5>1
      <4>2. CASE Live(s) # "201"
        <5>1. NextStart(t) = 1
          BY <1>3, <2>4, <4>2 DEF NextStart
        <5>2. LateStart(t)' \in {0, 1}
          BY DEF LateStart
        <5> QED  BY <1>1, <2>1, <3>0, <3>1, <5>1, <5>2
      <4> QED  BY <4>1, <4>2
    <3>3. Late(t)' \in {"none", "asked", "created"}
      BY <1>2, <2>4
    <3> HIDE DEF left
    <3> QED  BY <1>1, <1>2, <1>3, <2>1, <2>4, <3>0, <3>2, <3>3 DEF Books, OwnCall
  <2> QED  BY <2>3, <2>4
<1> QED  BY <1>6, <1>7, <1>8

\* The Spine's steps: what one does to the request, the calls and the books of
\* its schedule s.  An answer that is none has the request left to nobody.
SpineTo(s, kind, stage) ==
    /\ request[<<s, kind>>] \in {"asked", "created"}
    /\ SetRequest(<<s, kind>>, stage)
    /\ stage \in Stages \ {"asked"}
    /\ kind = "late" => stage \in {"none", "created"}
    /\ UNCHANGED <<phase, due, list>>
    /\ others' = others
    /\ \A t \in Schedules : t # s => /\ starts'[t] = starts[t] /\ faults'[t] = faults[t]
                                     /\ refused'[t] = refused[t]
                                     /\ t \in owners' => t \in owners

\* A start is one that was expected, or one paid for with a fault.
Paid(s, kind, stage) ==
    \/ starts'[s] = starts[s] /\ faults'[s] = faults[s] /\ stage # "201"
    \/ starts'[s] = starts[s] /\ faults'[s] = faults[s] + 1 /\ stage # "201"
    \/ starts'[s] = starts[s] + 1 /\ faults'[s] = faults[s] + 1 /\ stage # "201"
    \/ /\ starts'[s] = starts[s] + 1 /\ faults'[s] = faults[s]
       /\ stage = IF kind = "live" THEN "201" ELSE "none"

\* What the Scheduler is told of a refusal, and whose call is open.
Told(s, kind, stage) ==
    /\ \/ refused'[s] = refused[s] /\ (kind = "live" => stage # "409")
       \/ refused'[s] # "no" /\ kind = "live" /\ stage = "409"
    /\ refused'[s] = "for its own" => \/ refused[s] = "for its own"
                                      \/ request[<<s, kind>>] = "asked" /\ s \in owners
    /\ s \in owners' => \/ stage = "created" /\ request[<<s, kind>>] = "asked"
                        \/ s \in owners /\ request[<<s, kind>>] = "asked"
                        \/ s \in owners /\ (kind = "live" => stage = "201")
                        \/ faults'[s] = faults[s] + 1

\* The numbers of the books after a step of the Spine: n calls, f faults, and the
\* starts that are still to come.
LEMMA SettledLive ==
    ASSUME NEW n \in Nat, NEW f \in Nat, NEW late \in {0, 1}, NEW next \in {0, 1},
           NEW m \in Nat, NEW g \in Nat, n + late + next <= 1 + f,
           \/ m = n /\ g = f
           \/ m = n /\ g = f + 1
           \/ m = n + 1 /\ g = f + 1
    PROVE  m + late + next <= 1 + g
  OBVIOUS

LEMMA SettledLate ==
    ASSUME NEW n \in Nat, NEW f \in Nat, NEW late \in {0, 1}, NEW next \in {0, 1},
           n + 1 + next <= 1 + f
    PROVE  /\ n + late + next <= 1 + f
           /\ n + late + next <= 1 + (f + 1)
           /\ (n + 1) + late + next <= 1 + (f + 1)
           /\ late = 0 => (n + 1) + late + next <= 1 + f
  OBVIOUS

\* What the books of s become: an answer to the live request is remembered, a
\* late one is over when it is answered.
LEMMA SpineBooks ==
    ASSUME Inv, NEW s \in Schedules, NEW kind \in {"live", "late"}, NEW stage,
           SpineTo(s, kind, stage), Paid(s, kind, stage), Told(s, kind, stage)
    PROVE  Books(s)' /\ starts'[s] \in Nat /\ faults'[s] \in Nat
<1> USE DEF Inv
<1>0. /\ request[<<s, kind>>] \in {"asked", "created"} /\ SetRequest(<<s, kind>>, stage)
      /\ stage \in Stages /\ stage # "asked" /\ phase' = phase
      /\ kind = "late" => stage \in {"none", "created"}
  BY DEF SpineTo
<1>1. /\ Live(s)' = IF kind = "live" THEN stage ELSE Live(s)
      /\ Late(s)' = IF kind = "late" THEN stage ELSE Late(s)
  BY <1>0, RequestChanges DEF Rows
<1>2. /\ kind = "live" => Live(s) = request[<<s, kind>>] /\ Live(s) \in {"asked", "created"}
      /\ kind = "late" => Late(s) = request[<<s, kind>>] /\ Late(s) \in {"asked", "created"}
  BY <1>0 DEF Live, Late
<1>3. /\ Books(s) /\ faults[s] \in Nat /\ starts[s] \in Nat
      /\ LateStart(s) \in {0, 1} /\ (LateStart(s) = 1 <=> Late(s) # "none")
      /\ NextStart(s) \in {0, 1}
      /\ starts[s] + LateStart(s) + NextStart(s) <= 1 + faults[s]
      /\ NextStart(s) = 1 <=> phase[s] = "due" /\ Live(s) # "201"
  BY Counts
<1>4. /\ starts'[s] \in Nat /\ faults'[s] \in Nat
      /\ starts[s] > 0 => starts'[s] > 0
      /\ faults[s] > 0 => faults'[s] > 0
      /\ faults'[s] = faults[s] + 1 => faults'[s] > 0
  BY <1>3 DEF Paid
<1>5. CASE kind = "live"
  <2>1. phase[s] = "due" /\ Live(s) # "201" /\ s \in Calling
    BY <1>2, <1>3, <1>5, WaitsForDue DEF Books
  <2>2. LateStart(s)' = LateStart(s) /\ NextStart(s) = 1
    BY <1>1, <1>3, <1>5, <2>1 DEF LateStart
  <2>3. NextStart(s)' = IF stage = "201" THEN 0 ELSE 1
    BY <1>0, <1>1, <1>5, <2>1 DEF NextStart
  <2>4. starts'[s] + LateStart(s)' + NextStart(s)' <= 1 + faults'[s]
    <3>1. CASE stage = "201"
      <4>1. starts'[s] = starts[s] + 1 /\ faults'[s] = faults[s]
        BY <3>1 DEF Paid
      <4> QED  BY <1>3, <2>2, <2>3, <3>1, <4>1
    <3>2. CASE stage # "201"
      <4>1. \/ starts'[s] = starts[s] /\ faults'[s] = faults[s]
            \/ starts'[s] = starts[s] /\ faults'[s] = faults[s] + 1
            \/ starts'[s] = starts[s] + 1 /\ faults'[s] = faults[s] + 1
        BY <1>5, <3>2 DEF Paid
      <4>2. NextStart(s)' = NextStart(s)
        BY <2>2, <2>3, <3>2
      <4> QED  BY <1>3, <1>4, <2>2, <4>1, <4>2, SettledLive
    <3> QED  BY <3>1, <3>2
  <2>5. stage = "201" => starts'[s] > 0
    BY <1>3, <1>4 DEF Paid
  <2>6. stage = "409" => refused'[s] # "no"
    BY <1>5 DEF Told
  <2>7. Kind[s] = "once" => OwnCall(s)'
    <3>1. Kind[s] = "once" => OwnCall(s)
      BY <1>3 DEF Books
    <3>2. Kind[s] = "once" /\ s \in owners /\ Live(s) = "asked" => faults[s] > 0
      BY <2>1, <3>1 DEF OwnCall
    <3>3. Kind[s] = "once" /\ refused'[s] = "for its own" => faults'[s] > 0
      BY <1>2, <1>4, <1>5, <3>1, <3>2 DEF Told, OwnCall
    <3>4. Kind[s] = "once" /\ s \in owners' => faults'[s] > 0 \/ stage \in {"created", "201"}
      BY <1>2, <1>4, <1>5, <3>2 DEF Told
    <3> QED  BY <1>0, <1>1, <1>5, <2>1, <3>3, <3>4 DEF OwnCall
  <2> QED  BY <1>0, <1>1, <1>3, <1>4, <1>5, <2>1, <2>4, <2>5, <2>6, <2>7 DEF Books
<1>6. CASE kind = "late"
  <2>1. NextStart(s)' = NextStart(s)
    BY <1>0, <1>1, <1>6 DEF NextStart
  <2>2. LateStart(s) = 1 /\ faults[s] > 0 /\ faults'[s] > 0
    BY <1>2, <1>3, <1>4, <1>6 DEF Books
  <2>3. LateStart(s)' \in {0, 1} /\ (stage = "none" => LateStart(s)' = 0)
    BY <1>1, <1>6 DEF LateStart
  <2>4. starts'[s] + LateStart(s)' + NextStart(s)' <= 1 + faults'[s]
    <3>0. starts[s] + 1 + NextStart(s) <= 1 + faults[s]
      BY <1>3, <2>2
    <3>1. CASE starts'[s] = starts[s] /\ faults'[s] = faults[s]
      BY <1>3, <2>1, <2>3, <3>0, <3>1, SettledLate
    <3>2. CASE starts'[s] = starts[s] /\ faults'[s] = faults[s] + 1
      BY <1>3, <2>1, <2>3, <3>0, <3>2, SettledLate
    <3>3. CASE starts'[s] = starts[s] + 1 /\ faults'[s] = faults[s] + 1
      BY <1>3, <2>1, <2>3, <3>0, <3>3, SettledLate
    <3>4. CASE starts'[s] = starts[s] + 1 /\ faults'[s] = faults[s] /\ stage = "none"
      BY <1>3, <2>1, <2>3, <3>0, <3>4, SettledLate
    <3> QED  BY <1>6, <3>1, <3>2, <3>3, <3>4 DEF Paid
  <2>5. refused'[s] = refused[s]
    BY <1>6 DEF Told
  <2>6. Kind[s] = "once" => OwnCall(s)'
    BY <2>2 DEF OwnCall
  <2>7. Live(s)' = Live(s) /\ Late(s)' \in {"none", "created"}
    BY <1>0, <1>1, <1>6
  <2> QED  BY <1>0, <1>3, <1>4, <2>2, <2>4, <2>5, <2>6, <2>7 DEF Books
<1> QED  BY <1>4, <1>5, <1>6

\* A step of the Spine for a request of s keeps the invariant.
LEMMA SpineStep ==
    ASSUME Inv, NEW s \in Schedules, NEW kind \in {"live", "late"}, NEW stage,
           SpineTo(s, kind, stage), Paid(s, kind, stage), Told(s, kind, stage),
           owners' \subseteq Schedules, refused' \in [Schedules -> Refusals],
           DOMAIN starts' = Schedules, DOMAIN faults' = Schedules,
           starts' = [t \in Schedules |-> starts'[t]], faults' = [t \in Schedules |-> faults'[t]]
    PROVE  Inv'
<1> USE DEF Inv
<1>0. /\ SetRequest(<<s, kind>>, stage) /\ stage \in Stages
      /\ request[<<s, kind>>] \in {"asked", "created"}
      /\ UNCHANGED <<phase, due, list, others>>
      /\ \A t \in Schedules : t # s => /\ starts'[t] = starts[t] /\ faults'[t] = faults[t]
                                       /\ refused'[t] = refused[t]
                                       /\ t \in owners' => t \in owners
  BY DEF SpineTo
<1>1. /\ request' \in [Requests -> Stages]
      /\ \A t \in Schedules : /\ Live(t)' # "none" => Live(t) # "none"
                              /\ t # s => Live(t)' = Live(t) /\ Late(t)' = Late(t)
  BY <1>0, RequestChanges DEF Rows, Live
<1>2. Books(s)' /\ starts'[s] \in Nat /\ faults'[s] \in Nat
  BY SpineBooks
<1>3. Rows'
  <2>1. \A t \in Schedules : starts'[t] \in Nat /\ faults'[t] \in Nat
    BY <1>0, <1>2 DEF Rows
  <2>2. starts' \in [Schedules -> Nat] /\ faults' \in [Schedules -> Nat]
    BY <2>1
  <2> QED  BY <1>0, <1>1, <2>2 DEF Rows
<1>4. Lists'
  BY <1>0, <1>1 DEF Lists, Current
<1>5. ASSUME NEW t \in Schedules, t # s
      PROVE  Books(t)'
  <2>1. Books(t)
    OBVIOUS
  <2>2. LateStart(t)' = LateStart(t) /\ NextStart(t)' = NextStart(t)
    BY <1>0, <1>1, <1>5 DEF LateStart, NextStart
  <2> QED  BY <1>0, <1>1, <1>5, <2>1, <2>2 DEF Books, OwnCall
<1> QED  BY <1>2, <1>3, <1>4, <1>5

\* A request names its schedule and whether it is waited for.
LEMMA RequestNames ==
    ASSUME NEW r \in Requests
    PROVE  \E s \in Schedules, kind \in {"live", "late"} : r = <<s, kind>> /\ r[1] = s /\ r[2] = kind
  BY DEF Requests

\* An answer reaches the live request and ends the late one.
LEMMA Answered ==
    ASSUME NEW s, NEW kind \in {"live", "late"}, NEW code, Answer(<<s, kind>>, code)
    PROVE  SetRequest(<<s, kind>>, IF kind = "live" THEN code ELSE "none")
<1>1. <<s, kind>>[2] = kind
  OBVIOUS
<1> QED  BY <1>1 DEF Answer, SetRequest

\* A history of one schedule is written, or none.
LEMMA HistoryWritten ==
    ASSUME NEW f, NEW g, NEW s \in Schedules, f \in [Schedules -> Nat],
           g = f \/ g = [f EXCEPT ![s] = @ + 1]
    PROVE  /\ DOMAIN g = Schedules /\ g = [t \in Schedules |-> g[t]]
           /\ \A t \in Schedules : t # s => g[t] = f[t]
           /\ g = f => g[s] = f[s]
           /\ g = [f EXCEPT ![s] = @ + 1] => g[s] = f[s] + 1
  OBVIOUS

\* Every step of the Spine keeps the invariant.
LEMMA SpineInv ==
    ASSUME Inv, NEW r \in Requests,
           \/ RpcCreates(r) \/ RpcRefuses(r) \/ RpcForbids(r) \/ RpcFails(r)
           \/ InitDelivered(r) \/ InitGivenUp(r) \/ EnsureRaises(r)
    PROVE  Inv'
<1> USE DEF Inv
<1>0. PICK s \in Schedules, kind \in {"live", "late"} : r = <<s, kind>> /\ r[1] = s /\ r[2] = kind
  BY RequestNames
<1> DEFINE End(code) == IF kind = "live" THEN code ELSE "none"
<1>1. /\ starts \in [Schedules -> Nat] /\ faults \in [Schedules -> Nat]
      /\ refused \in [Schedules -> Refusals] /\ owners \subseteq Schedules
  BY DEF Rows
<1>2. CASE RpcCreates(r)
  <2>1. /\ request[<<s, kind>>] = "asked" /\ SetRequest(<<s, kind>>, "created")
        /\ owners' = owners \union {s}
        /\ UNCHANGED <<phase, due, list, others, starts, refused, faults>>
    BY <1>0, <1>2 DEF RpcCreates
  <2>2. SpineTo(s, kind, "created")
    BY <2>1 DEF SpineTo, Stages
  <2>3. Paid(s, kind, "created") /\ Told(s, kind, "created")
    BY <2>1 DEF Paid, Told
  <2>4. owners' \subseteq Schedules /\ refused' \in [Schedules -> Refusals]
    BY <1>1, <2>1
  <2> QED  BY <1>1, <2>1, <2>2, <2>3, <2>4, HistoryWritten, SpineStep
<1>3. ASSUME NEW why \in Refusals \ {"no"}, request[r] = "asked", Refuse(r, why),
             why = "for its own" => s \in owners
      PROVE  Inv'
  <2>1. /\ request[<<s, kind>>] = "asked" /\ SetRequest(<<s, kind>>, End("409"))
        /\ refused' = IF kind = "late" THEN refused ELSE [refused EXCEPT ![s] = why]
        /\ UNCHANGED <<phase, due, list, others, owners, starts, faults>>
    BY <1>0, <1>3, Answered DEF Refuse
  <2>2. /\ refused' \in [Schedules -> Refusals]
        /\ \A t \in Schedules : t # s => refused'[t] = refused[t]
        /\ kind = "late" => refused'[s] = refused[s]
        /\ kind = "live" => refused'[s] = why
    BY <1>1, <2>1
  <2>3. SpineTo(s, kind, End("409"))
    BY <2>1, <2>2 DEF SpineTo, Stages
  <2>4. Paid(s, kind, End("409")) /\ Told(s, kind, End("409"))
    BY <1>3, <2>1, <2>2 DEF Paid, Told
  <2> QED  BY <1>1, <2>1, <2>2, <2>3, <2>4, HistoryWritten, SpineStep
<1>4. CASE RpcRefuses(r)
  <2> DEFINE why == IF s \in owners THEN "for its own" ELSE "for others"
  <2>1. request[r] = "asked" /\ Refuse(r, why)
    BY <1>0, <1>4 DEF RpcRefuses
  <2>2. why \in Refusals \ {"no"} /\ (why = "for its own" => s \in owners)
    BY DEF Refusals
  <2> HIDE DEF why
  <2> QED  BY <1>3, <2>1, <2>2
<1>5. CASE RpcForbids(r)
  <2>1. request[r] = "asked" /\ Refuse(r, "not allowed") /\ "not allowed" \in Refusals \ {"no"}
    BY <1>5 DEF RpcForbids, Refusals
  <2> QED  BY <1>3, <2>1
<1>6. CASE RpcFails(r)
  <2>1. /\ request[<<s, kind>>] = "asked" /\ SetRequest(<<s, kind>>, End("failed"))
        /\ UNCHANGED <<phase, due, list, others, owners, starts, refused, faults>>
    BY <1>0, <1>6, Answered DEF RpcFails
  <2>2. SpineTo(s, kind, End("failed"))
    BY <2>1 DEF SpineTo, Stages
  <2>3. Paid(s, kind, End("failed")) /\ Told(s, kind, End("failed"))
    BY <2>1 DEF Paid, Told
  <2> QED  BY <1>1, <2>1, <2>2, <2>3, HistoryWritten, SpineStep
<1>7. CASE InitDelivered(r)
  <2>1. /\ request[<<s, kind>>] = "created" /\ SetRequest(<<s, kind>>, End("201"))
        /\ starts' = [starts EXCEPT ![s] = @ + 1]
        /\ UNCHANGED <<phase, due, list, others, owners, refused, faults>>
    BY <1>0, <1>7, Answered DEF InitDelivered
  <2>2. /\ starts'[s] = starts[s] + 1 /\ \A t \in Schedules : t # s => starts'[t] = starts[t]
        /\ starts' = [t \in Schedules |-> starts'[t]] /\ DOMAIN starts' = Schedules
    BY <1>1, <2>1, HistoryWritten
  <2>5. faults' = [t \in Schedules |-> faults'[t]] /\ DOMAIN faults' = Schedules
    BY <1>1, <2>1
  <2>6. owners' \subseteq Schedules /\ refused' \in [Schedules -> Refusals]
    BY <1>1, <2>1
  <2>3. SpineTo(s, kind, End("201"))
    BY <2>1, <2>2 DEF SpineTo, Stages
  <2>4. Paid(s, kind, End("201")) /\ Told(s, kind, End("201"))
    BY <2>1, <2>2 DEF Paid, Told
  <2> QED  BY <2>2, <2>3, <2>4, <2>5, <2>6, SpineStep
<1>8. CASE InitGivenUp(r) \/ EnsureRaises(r)
  <2>1. PICK code \in {"503", "failed"} :
           /\ request[<<s, kind>>] = "created" /\ Answer(<<s, kind>>, code)
           /\ \/ owners' = owners \ {s}
              \/ owners' = owners /\ faults' = [faults EXCEPT ![s] = @ + 1]
           /\ \/ UNCHANGED <<starts, faults>>
              \/ starts' = starts /\ faults' = [faults EXCEPT ![s] = @ + 1]
              \/ starts' = [starts EXCEPT ![s] = @ + 1] /\ faults' = [faults EXCEPT ![s] = @ + 1]
           /\ UNCHANGED <<phase, due, list, others, refused>>
    <3>1. CASE InitGivenUp(r)
      BY <1>0, <3>1 DEF InitGivenUp, TakenUnheard, Fault
    <3>2. CASE EnsureRaises(r)
      BY <1>0, <3>2 DEF EnsureRaises, TakenUnheard, Fault
    <3> QED  BY <1>8, <3>1, <3>2
  <2>2. SetRequest(<<s, kind>>, End(code))
    BY <2>1, Answered
  <2>3. /\ starts' = starts \/ starts' = [starts EXCEPT ![s] = @ + 1]
        /\ faults' = faults \/ faults' = [faults EXCEPT ![s] = @ + 1]
    BY <2>1
  <2>4. /\ \A t \in Schedules : t # s => starts'[t] = starts[t] /\ faults'[t] = faults[t]
        /\ starts' = [t \in Schedules |-> starts'[t]] /\ DOMAIN starts' = Schedules
        /\ faults' = [t \in Schedules |-> faults'[t]] /\ DOMAIN faults' = Schedules
        /\ starts' = [starts EXCEPT ![s] = @ + 1] => starts'[s] = starts[s] + 1
        /\ faults' = [faults EXCEPT ![s] = @ + 1] => faults'[s] = faults[s] + 1
    BY <1>1, <2>3, HistoryWritten
  <2>5. End(code) \in Stages \ {"asked", "201", "409"} /\ (kind = "late" => End(code) = "none")
    BY <2>1 DEF Stages
  <2> HIDE DEF End
  <2>6. SpineTo(s, kind, End(code))
    BY <2>1, <2>2, <2>4, <2>5 DEF SpineTo
  <2>7. Paid(s, kind, End(code))
    BY <2>1, <2>4, <2>5 DEF Paid
  <2>8. Told(s, kind, End(code))
    BY <2>1, <2>4, <2>5 DEF Told
  <2>9. owners' \subseteq Schedules /\ refused' \in [Schedules -> Refusals]
    BY <1>1, <2>1
  <2> QED  BY <2>4, <2>6, <2>7, <2>8, <2>9, SpineStep
<1> QED  BY <1>2, <1>4, <1>5, <1>6, <1>7, <1>8

\* Calls that others open or end.
LEMMA OthersInv ==
    ASSUME Inv, NEW k \in Contacts, CallEnds(k) \/ OtherCall(k)
    PROVE  Inv'
<1> USE DEF Inv
<1>1. /\ UNCHANGED <<phase, due, list, request, starts, refused, faults>>
      /\ others' \subseteq Contacts /\ owners' \subseteq owners
  BY DEF CallEnds, OtherCall, Rows
<1>2. \A t \in Schedules : Live(t)' = Live(t) /\ Late(t)' = Late(t)
  BY <1>1 DEF Live, Late
<1>3. Rows' /\ Lists'
  BY <1>1, <1>2 DEF Rows, Lists, Current
<1>4. ASSUME NEW t \in Schedules
      PROVE  Books(t)'
  <2>1. Books(t) /\ (t \in owners' => t \in owners)
    BY <1>1
  <2>2. LateStart(t)' = LateStart(t) /\ NextStart(t)' = NextStart(t)
    BY <1>1, <1>2 DEF LateStart, NextStart
  <2> QED  BY <1>1, <1>2, <2>1, <2>2 DEF Books, OwnCall
<1> QED  BY <1>3, <1>4

\* Every step keeps the invariant.
LEMMA NextInv == Inv /\ [Next]_vars => Inv'
<1> SUFFICES ASSUME Inv, [Next]_vars PROVE Inv'
  OBVIOUS
<1>1. ASSUME NEW s \in Schedules,
             \/ BecomesDue(s) \/ WorkerNotActive(s) \/ PostEnsure(s)
             \/ Ends(s) \/ AnswerLost(s) \/ Crash(s)
      PROVE  Inv'
  BY <1>1, BecomesDueInv, PollInv, PostEnsureInv, FiredInv, NotAcceptedInv, UnsupportedInv, LossInv
     DEF Ends
<1>2. CASE UNCHANGED vars
  <2>1. UNCHANGED <<phase, due, list, request, others, owners, starts, refused, faults>>
    BY <1>2 DEF vars
  <2>2. \A t \in Schedules : Live(t)' = Live(t) /\ Late(t)' = Late(t)
    BY <2>1 DEF Live, Late
  <2> QED  BY <2>1, <2>2 DEF Inv, Rows, Lists, Books, OwnCall, Current, LateStart, NextStart
<1> QED  BY <1>1, <1>2, PollInv, SpineInv, OthersInv DEF Next

\* The invariant holds for ever.
LEMMA Invariance == Spec => []Inv
  BY InitInv, NextInv, PTL DEF Spec

----------------------------------------------------------------------------
(* The theorems.                                                            *)

\* The variables have their types; a schedule is in the due list exactly while
\* it is due, and once; the Scheduler waits for the head of its list alone.
THEOREM TypeCorrect == Spec => []TypeOK
<1>1. Inv => TypeOK
  BY DEF Inv, Rows, Lists, TypeOK
<1> QED  BY <1>1, Invariance, PTL

\* A schedule that has come due starts one call, and one more at most for each
\* fault that has befallen it, whatever an earlier fault has left behind.
THEOREM StartsArePaidFor == Spec => []OneStartPerFault
<1>1. Inv => OneStartPerFault
  <2> SUFFICES ASSUME Inv, NEW s \in Schedules PROVE starts[s] <= 1 + faults[s]
    BY DEF OneStartPerFault
  <2>1. /\ faults[s] \in Nat /\ starts[s] \in Nat
        /\ LateStart(s) \in {0, 1} /\ NextStart(s) \in {0, 1}
        /\ starts[s] + LateStart(s) + NextStart(s) <= 1 + faults[s]
    BY Counts DEF Inv
  <2> QED  BY <2>1
<1> QED  BY <1>1, Invariance, PTL

\* A once or manual schedule is completed only when a Worker took a call for it
\* or it was refused one; and a once schedule is refused for its own call only
\* after a fault.
THEOREM NotCompletedUnheard == Spec => []CompletedWasAnswered
<1>1. Inv => CompletedWasAnswered
  <2> SUFFICES ASSUME Inv, NEW s \in Schedules, phase[s] = "completed"
               PROVE  \/ starts[s] > 0
                      \/ refused[s] \in {"for others", "not allowed"}
                      \/ refused[s] = "for its own" /\ (faults[s] > 0 \/ Kind[s] = "manual")
    BY DEF CompletedWasAnswered
  <2>1. Books(s) /\ refused[s] \in Refusals
    BY DEF Inv, Rows
  <2> QED  BY <2>1 DEF Books, OwnCall, Refusals
<1> QED  BY <1>1, Invariance, PTL

============================================================================

------------------------------ MODULE Contact ------------------------------
(***************************************************************************)
(* What the Spine promises a contact, without rows, events or deadlines:   *)
(* it talks to one call at a time, those that wait follow in order of rank *)
(* and without a gap, and a call has one life.  CallQueue implements it.   *)
(***************************************************************************)
EXTENDS Integers

CONSTANTS
    Slots,   \* the (phone, contact) pairs
    Calls,   \* the calls there may be
    Rank(_)  \* a call of a low rank comes first

VARIABLES
    talking,  \* talking[k]: the call that has the contact, a set of at most one
    waiting,  \* waiting[k]: the calls that have been promised a turn
    gone      \* the calls that are over: held, cancelled or turned away

promise == <<talking, waiting, gone>>

Fresh == Calls \ (gone \cup UNION {talking[k] \cup waiting[k] : k \in Slots})

FirstOf(batch) == {c \in batch : \A d \in batch : Rank(c) <= Rank(d)}

\* A message of a free contact opens a batch of calls nobody has heard of: the
\* first of them talks, the rest wait.
Admit(k) ==
    /\ talking[k] \cup waiting[k] = {}
    /\ \E first \in Fresh : talking' = [talking EXCEPT ![k] = {first}]
    /\ waiting' = [waiting EXCEPT ![k] = waiting'[k]]
    /\ waiting'[k] \subseteq Fresh \ talking'[k]
    /\ talking'[k] \subseteq FirstOf(talking'[k] \cup waiting'[k])
    /\ UNCHANGED gone

\* A call somebody asks for by name is turned away from a busy contact, and
\* takes the turns of those that wait with it.  Who talks goes on talking.
TurnAway(k, c) ==
    /\ talking[k] # {}
    /\ waiting' = [waiting EXCEPT ![k] = {}]
    /\ gone' = gone \cup waiting[k] \cup {c}
    /\ UNCHANGED talking

\* The call that talks ends, and in the same step the first of those that wait
\* takes its place; the contact is free only when nobody waits.
HandOver(k) ==
    /\ talking[k] # {}
    /\ gone' = gone \cup talking[k]
    /\ \/ /\ waiting[k] = {}
          /\ talking' = [talking EXCEPT ![k] = {}]
          /\ UNCHANGED waiting
       \/ \E c \in FirstOf(waiting[k]) :
             /\ talking' = [talking EXCEPT ![k] = {c}]
             /\ waiting' = [waiting EXCEPT ![k] = @ \ {c}]

Init ==
    /\ talking = [k \in Slots |-> {}]
    /\ waiting = [k \in Slots |-> {}]
    /\ gone = {}

Next == \E k \in Slots :
    \/ Admit(k)
    \/ \E c \in Fresh : TurnAway(k, c)
    \/ HandOver(k)

Spec == Init /\ [][Next]_promise

============================================================================

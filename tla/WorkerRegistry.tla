--------------------------- MODULE WorkerRegistry ---------------------------
(***************************************************************************)
(* Who answers for a phone: the provisioner's reconcile, the heartbeats of *)
(* the Workers and the table phone_workers they both write.  reconcile     *)
(* reads phones and phone_workers once and then acts on what it has read,  *)
(* one phone at a time, while phones are switched on and off, services are *)
(* removed by hand and heartbeats arrive.                                  *)
(***************************************************************************)
EXTENDS Integers

CONSTANTS
    Phones,    \* the phones; each has one row and one service name
    MaxFaults  \* bound: failed requests, crashes and removals by hand

ASSUME FaultsAssumption == MaxFaults \in Nat

\* phone_workers.status; "none" when there is no row.
RowStatus == {"none", "running", "offline", "stopped", "error"}
Beats     == {"online", "offline"}

VARIABLES
    active,   \* the phones whose status is active
    service,  \* the phones whose Docker service exists
    row,      \* row[p]: the status of p's row
    posts,    \* heartbeats on their way to the Spine, as <<phone, status>>
    job,      \* the reconcile under way
    steady,   \* history: active ever since the reconcile under way began
    blind,    \* history: its read of the phones failed
    faults    \* faults so far

world == <<active, service, row, posts>>
notes == <<steady, blind>>
vars  == <<active, service, row, posts, job, steady, blind, faults>>

Fault == faults < MaxFaults /\ faults' = faults + 1
NoFault == UNCHANGED faults

----------------------------------------------------------------------------
(* The reconcile.                                                           *)

\* Nothing under way: the 30 seconds between two reconciles, or a restart.
\* phones: the active phones it read; found: those whose row it read as running
\* (the other values of status are never told apart); left: those the loop it is
\* in has yet to go through; write: the upsert it is about to make.
Sleeping == [at |-> "sleep", phones |-> {}, found |-> {}, left |-> {}, write |-> <<>>]

\* supabaseGet answers the empty list on every error, so an error of the
\* database cannot be told from a database without active phones.
ReadPhones ==
    /\ job.at = "sleep"
    /\ \/ job' = [job EXCEPT !.at = "workers", !.phones = active] /\ NoFault
       \/ job' = [job EXCEPT !.at = "workers", !.phones = {}] /\ Fault
    /\ steady' = active
    /\ blind' = (faults' # faults)
    /\ UNCHANGED world

ReadWorkers ==
    /\ job.at = "workers"
    /\ \/ job' = [job EXCEPT !.at = "create", !.left = job.phones,
                                !.found = {p \in Phones : row[p] = "running"}]
          /\ NoFault
       \/ job' = [job EXCEPT !.at = "create", !.left = job.phones] /\ Fault
    /\ UNCHANGED <<world, notes>>

\* The loop at this point may go on with p.
TurnOf(p, at) == job.at = at /\ p \in job.left /\ job.write = <<>>

\* The row that was read says running, and docker service inspect agrees.
Served_TrustsRow(p) == p \in job.found
Served(p) == p \in job.found /\ p \in service

SkipServed(p) ==
    /\ TurnOf(p, "create")
    /\ Served(p)
    /\ job' = [job EXCEPT !.left = @ \ {p}]
    /\ UNCHANGED <<world, notes, faults>>

\* createService: nothing to do when the service exists.  One that is served
\* comes here when the first inspect fails.  When the create reports an error,
\* whether or not the service exists then, the row is to say error.
CreateService(p) ==
    /\ TurnOf(p, "create")
    /\ \/ /\ service' = service \cup {p}
          /\ job' = [job EXCEPT !.write = <<p, "running">>]
          /\ IF Served(p) THEN Fault ELSE NoFault
       \/ /\ service' \in {service, service \cup {p}}
          /\ job' = [job EXCEPT !.write = <<p, "error">>]
          /\ Fault
    /\ UNCHANGED <<active, row, posts, notes>>

\* upsertWorker: its errors are logged and forgotten.  When the GET before it
\* fails it inserts, which the primary key refuses if there is a row.
UpsertWorker ==
    /\ job.write # <<>>
    /\ \/ row' = [row EXCEPT ![job.write[1]] = job.write[2]] /\ NoFault
       \/ UNCHANGED row /\ Fault
    /\ job' = [job EXCEPT !.left = @ \ {job.write[1]}, !.write = <<>>]
    /\ UNCHANGED <<active, service, posts, notes>>

\* The services to be removed: those whose row was read as running, of phones
\* that were not in the list of active ones.
ToRemove_NotAsked == job.found
ToRemove == job.found \ job.phones

TurnToRemovals ==
    /\ job.at = "create"
    /\ job.left = {}
    /\ job' = [Sleeping EXCEPT !.at = "remove", !.left = ToRemove]
    /\ UNCHANGED <<world, notes, faults>>

RemoveService_RowOnly(p) ==
    /\ TurnOf(p, "remove")
    /\ job' = [job EXCEPT !.write = <<p, "stopped">>]
    /\ UNCHANGED <<world, notes, faults>>

\* docker service rm, whose result nobody looks at.  A Worker that is stopped
\* may say goodbye.
RemoveService(p) ==
    /\ TurnOf(p, "remove")
    /\ \/ /\ service' = service \ {p}
          /\ \/ UNCHANGED posts
             \/ p \in service /\ posts' = posts \cup {<<p, "offline">>}
          /\ NoFault
       \/ UNCHANGED <<service, posts>> /\ Fault
    /\ job' = [job EXCEPT !.write = <<p, "stopped">>]
    /\ UNCHANGED <<active, row, notes>>

EndReconcile ==
    /\ job.at = "remove"
    /\ job.left = {}
    /\ job' = Sleeping
    /\ UNCHANGED <<world, notes, faults>>

\* The provisioner restarts, or a panic ends the reconcile.
Crash ==
    /\ job.at # "sleep"
    /\ job' = Sleeping
    /\ Fault
    /\ UNCHANGED <<world, notes>>

Reconcile ==
    \/ ReadPhones \/ ReadWorkers \/ UpsertWorker \/ TurnToRemovals \/ EndReconcile
    \/ \E p \in Phones : SkipServed(p) \/ CreateService(p) \/ RemoveService(p)

----------------------------------------------------------------------------
(* Around it.                                                               *)

\* A Worker posts online at intervals while its service exists.
SendOnline(p) ==
    /\ p \in service
    /\ <<p, "online">> \notin posts
    /\ posts' = posts \cup {<<p, "online">>}
    /\ UNCHANGED <<active, service, row, job, notes, faults>>

\* A container is restarted and says goodbye.
Restart(p) ==
    /\ p \in service
    /\ Fault
    /\ posts' = posts \cup {<<p, "offline">>}
    /\ UNCHANGED <<active, service, row, job, notes>>

\* What a heartbeat puts into the row.
Reported_AsSent(beat) == beat
Reported(beat) == IF beat = "online" THEN "running" ELSE beat

\* POST /workers/heartbeat updates the row if there is one and inserts none.
Heartbeat(p, beat) ==
    /\ <<p, beat>> \in posts
    /\ posts' = posts \ {<<p, beat>>}
    /\ row' = IF row[p] = "none" THEN row ELSE [row EXCEPT ![p] = Reported(beat)]
    /\ UNCHANGED <<active, service, job, notes, faults>>

\* The owner switches a phone on or off.
Switch(p) ==
    /\ active' = IF p \in active THEN active \ {p} ELSE active \cup {p}
    /\ steady' = steady \ {p}
    /\ UNCHANGED <<service, row, posts, job, blind, faults>>

\* Somebody removes a service by hand (debug.md).
RemovedByHand(p) ==
    /\ p \in service
    /\ Fault
    /\ service' = service \ {p}
    /\ UNCHANGED <<active, row, posts, job, notes>>

Init ==
    /\ active = Phones
    /\ service = {}
    /\ row = [p \in Phones |-> "none"]
    /\ posts = {}
    /\ job = Sleeping
    /\ steady = {}
    /\ blind = FALSE
    /\ faults = 0

Next ==
    \/ Reconcile
    \/ Crash
    \/ \E p \in Phones : \/ SendOnline(p) \/ Restart(p)
                         \/ \E beat \in Beats : Heartbeat(p, beat)
                         \/ Switch(p) \/ RemovedByHand(p)

Spec == Init /\ [][Next]_vars

\* The provisioner loops for ever, and a Worker that exists reports.
Fairness ==
    /\ WF_vars(Reconcile)
    /\ \A p \in Phones :
          WF_vars(SendOnline(p)) /\ \A beat \in Beats : WF_vars(Heartbeat(p, beat))

FairSpec == Spec /\ Fairness

----------------------------------------------------------------------------
(* Properties.                                                              *)

TypeOK ==
    /\ active \subseteq Phones
    /\ service \subseteq Phones
    /\ row \in [Phones -> RowStatus]
    /\ posts \subseteq Phones \X Beats
    /\ job \in [at : {"sleep", "workers", "create", "remove"},
                phones : SUBSET Phones, found : SUBSET Phones, left : SUBSET Phones,
                write : {<<>>} \cup Phones \X {"running", "stopped", "error"}]
    /\ steady \subseteq Phones
    /\ blind \in BOOLEAN
    /\ faults \in 0 .. MaxFaults

\* A reconcile stops the Worker of a phone that has been active all the while
\* only when it could not read the phones: however old the rows it goes by, and
\* whoever else writes them, nothing but that failure costs a phone its Worker
\* (main.go:118-124; the failure does, for every phone at once).
OnlyBlindStops ==
    [][\A p \in Phones : p \in service \ service' /\ p \in steady /\ job' # job
                         => blind]_vars

\* worker_url finds a Worker that is there.
Reachable(p) == row[p] = "running" /\ p \in service

\* A phone that stays active gets its Worker and keeps it, whatever was removed
\* by hand, whatever a late heartbeat wrote and wherever a reconcile broke off
\* (the comment at main.go:92-95, debug.md:244).
ActiveIsServed == \A p \in Phones : <>[](p \in active) => <>[]Reachable(p)

\* A phone that stays inactive is not found by worker_url any more, and its
\* service goes, unless it has no row: then no heartbeat can report it, and
\* reconcile, which goes by the rows, never looks for it (an upsert that failed
\* after the service had been created).
InactiveIsStopped ==
    \A p \in Phones : <>[](p \notin active) =>
        <>[](row[p] # "running" /\ (p \in service => row[p] = "none"))

============================================================================

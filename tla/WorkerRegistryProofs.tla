------------------------ MODULE WorkerRegistryProofs ------------------------
(***************************************************************************)
(* Proofs about the provisioner, for any phones and any number of faults.  *)
(* What a reconcile knows of the phones is as old as its first read; what  *)
(* makes it harmless is that it removes only what it did not read there.   *)
(***************************************************************************)
EXTENDS WorkerRegistry, TLAPS

\* Unless its read failed, the reconcile knows of every phone that has been
\* active ever since, and has none of them among those to be removed.
KnowsSteady ==
    /\ job.at \in {"workers", "create"} => blind \/ steady \subseteq job.phones
    /\ job.at = "remove" => blind \/ job.left \cap steady = {}

\* The inductive invariant.
Inv == TypeOK /\ KnowsSteady

\* Nothing has been read at the start.
LEMMA InitInv == Init => Inv
<1> SUFFICES ASSUME Init PROVE Inv
  OBVIOUS
<1>1. row \in [Phones -> RowStatus]
  BY DEF Init, RowStatus
<1>j. Sleeping \in [at : {"sleep", "workers", "create", "remove"},
                   phones : SUBSET Phones, found : SUBSET Phones, left : SUBSET Phones,
                   write : {<<>>} \cup Phones \X {"running", "stopped", "error"}]
  BY DEF Sleeping
<1>f. faults \in 0 .. MaxFaults
  BY FaultsAssumption DEF Init
<1>b. blind \in BOOLEAN
  BY DEF Init
<1>2. TypeOK
  BY <1>1, <1>j, <1>f, <1>b DEF Init, TypeOK
<1>3. KnowsSteady
  BY DEF Init, KnowsSteady, Sleeping
<1> QED  BY <1>2, <1>3 DEF Inv

\* A fault is one more of a bounded number.
LEMMA FaultsCounted ==
    ASSUME TypeOK, Fault \/ NoFault
    PROVE  faults' \in 0 .. MaxFaults /\ (Fault => faults' # faults)
BY FaultsAssumption DEF TypeOK, Fault, NoFault

\* reconcile reads the phones.
LEMMA ReadPhonesInv == Inv /\ ReadPhones => Inv'
<1> SUFFICES ASSUME Inv, ReadPhones PROVE Inv'
  OBVIOUS
<1> USE DEF Inv
<1>1. faults' \in 0 .. MaxFaults
  BY FaultsCounted DEF ReadPhones
<1>2. blind' \in BOOLEAN
  BY DEF ReadPhones
<1>3. TypeOK'
  BY <1>1, <1>2 DEF ReadPhones, TypeOK, world
<1>4. KnowsSteady'
  <2>1. job'.at = "workers"
    BY DEF ReadPhones, TypeOK
  <2>2. CASE job'.phones = active
    BY <2>1, <2>2 DEF ReadPhones, KnowsSteady
  <2>3. CASE job'.phones # active
    <3>1. Fault
      BY <2>3 DEF ReadPhones, TypeOK
    <3>2. blind'
      BY <3>1, FaultsCounted DEF ReadPhones
    <3> QED  BY <2>1, <3>2 DEF KnowsSteady
  <2> QED  BY <2>2, <2>3
<1> QED  BY <1>3, <1>4

\* reconcile reads phone_workers.
LEMMA ReadWorkersInv == Inv /\ ReadWorkers => Inv'
<1> SUFFICES ASSUME Inv, ReadWorkers PROVE Inv'
  OBVIOUS
<1> USE DEF Inv
<1>1. faults' \in 0 .. MaxFaults
  BY FaultsCounted DEF ReadWorkers
<1>2. TypeOK'
  BY <1>1 DEF ReadWorkers, TypeOK, world, notes
<1>3. KnowsSteady'
  BY DEF ReadWorkers, TypeOK, KnowsSteady, notes
<1> QED  BY <1>2, <1>3

\* The first loop and the upserts change neither what was read nor the loop.
LEMMA LoopInv ==
    ASSUME Inv, \/ UpsertWorker
                \/ \E p \in Phones : SkipServed(p) \/ CreateService(p)
    PROVE  Inv'
<1> USE DEF Inv
<1>1. ASSUME UpsertWorker PROVE Inv'
  <2>1. faults' \in 0 .. MaxFaults
    BY <1>1, FaultsCounted DEF UpsertWorker
  <2>2. job.write \in Phones \X {"running", "stopped", "error"}
    BY <1>1 DEF UpsertWorker, TypeOK
  <2>3. row' \in [Phones -> RowStatus]
    BY <1>1, <2>2 DEF UpsertWorker, TypeOK, RowStatus
  <2>4. TypeOK'
    BY <1>1, <2>1, <2>3 DEF UpsertWorker, TypeOK, notes
  <2>5. KnowsSteady'
    BY <1>1 DEF UpsertWorker, TypeOK, KnowsSteady, notes
  <2> QED  BY <2>4, <2>5
<1>2. ASSUME NEW p \in Phones, SkipServed(p) PROVE Inv'
  <2>1. TypeOK'
    BY <1>2 DEF SkipServed, TypeOK, world, notes
  <2>2. KnowsSteady'
    BY <1>2 DEF SkipServed, TypeOK, KnowsSteady, notes
  <2> QED  BY <2>1, <2>2
<1>3. ASSUME NEW p \in Phones, CreateService(p) PROVE Inv'
  <2>1. faults' \in 0 .. MaxFaults
    BY <1>3, FaultsCounted DEF CreateService
  <2>2. service' \subseteq Phones
    BY <1>3 DEF CreateService, TypeOK
  <2>3. TypeOK'
    BY <1>3, <2>1, <2>2 DEF CreateService, TypeOK, notes
  <2>4. KnowsSteady'
    BY <1>3 DEF CreateService, TypeOK, KnowsSteady, notes
  <2> QED  BY <2>3, <2>4
<1> QED  BY <1>1, <1>2, <1>3

\* Here the reconcile goes over to what it removes: none of the phones it read.
LEMMA RemovalsInv ==
    ASSUME Inv, \/ TurnToRemovals \/ EndReconcile \/ Crash
                \/ \E p \in Phones : RemoveService(p)
    PROVE  Inv'
<1> USE DEF Inv
<1>1. ASSUME TurnToRemovals PROVE Inv'
  <2>1. TypeOK'
    BY <1>1 DEF TurnToRemovals, Sleeping, ToRemove, TypeOK, world, notes
  <2>2. KnowsSteady'
    BY <1>1 DEF TurnToRemovals, Sleeping, ToRemove, KnowsSteady, notes
  <2> QED  BY <2>1, <2>2
<1>2. ASSUME EndReconcile PROVE Inv'
  BY <1>2 DEF EndReconcile, Sleeping, TypeOK, KnowsSteady, world, notes
<1>3. ASSUME Crash PROVE Inv'
  <2>1. faults' \in 0 .. MaxFaults
    BY <1>3, FaultsCounted DEF Crash
  <2> QED  BY <1>3, <2>1 DEF Crash, Sleeping, TypeOK, KnowsSteady, world, notes
<1>4. ASSUME NEW p \in Phones, RemoveService(p) PROVE Inv'
  <2>1. faults' \in 0 .. MaxFaults
    BY <1>4, FaultsCounted DEF RemoveService
  <2>2. service' \subseteq Phones /\ posts' \subseteq Phones \X Beats
    BY <1>4 DEF RemoveService, TypeOK, Beats
  <2>3. TypeOK'
    BY <1>4, <2>1, <2>2 DEF RemoveService, TypeOK, notes
  <2>4. KnowsSteady'
    BY <1>4 DEF RemoveService, TypeOK, KnowsSteady, notes
  <2> QED  BY <2>3, <2>4
<1> QED  BY <1>1, <1>2, <1>3, <1>4

\* What goes on around the reconcile takes phones out of steady and adds none.
LEMMA AroundInv ==
    ASSUME Inv, NEW p \in Phones,
           \/ SendOnline(p) \/ Restart(p) \/ Switch(p) \/ RemovedByHand(p)
           \/ \E beat \in Beats : Heartbeat(p, beat)
    PROVE  Inv'
<1> USE DEF Inv
<1>1. ASSUME SendOnline(p) PROVE Inv'
  BY <1>1 DEF SendOnline, TypeOK, KnowsSteady, notes, Beats
<1>2. ASSUME Restart(p) PROVE Inv'
  <2>1. faults' \in 0 .. MaxFaults
    BY <1>2, FaultsCounted DEF Restart
  <2> QED  BY <1>2, <2>1 DEF Restart, TypeOK, KnowsSteady, notes, Beats
<1>3. ASSUME Switch(p) PROVE Inv'
  <2>1. TypeOK'
    BY <1>3 DEF Switch, TypeOK
  <2>2. KnowsSteady'
    BY <1>3 DEF Switch, KnowsSteady
  <2> QED  BY <2>1, <2>2
<1>4. ASSUME RemovedByHand(p) PROVE Inv'
  <2>1. faults' \in 0 .. MaxFaults
    BY <1>4, FaultsCounted DEF RemovedByHand
  <2> QED  BY <1>4, <2>1 DEF RemovedByHand, TypeOK, KnowsSteady, notes
<1>5. ASSUME NEW beat \in Beats, Heartbeat(p, beat) PROVE Inv'
  <2>1. row' \in [Phones -> RowStatus]
    BY <1>5 DEF Heartbeat, Reported, TypeOK, RowStatus, Beats
  <2>2. TypeOK'
    BY <1>5, <2>1 DEF Heartbeat, TypeOK, notes
  <2>3. KnowsSteady'
    BY <1>5 DEF Heartbeat, KnowsSteady, notes
  <2> QED  BY <2>2, <2>3
<1> QED  BY <1>1, <1>2, <1>3, <1>4, <1>5

\* Every step keeps the invariant.
LEMMA NextInv == Inv /\ [Next]_vars => Inv'
<1>1. Inv /\ UNCHANGED vars => Inv'
  BY DEF vars, Inv, TypeOK, KnowsSteady
<1> QED
  BY <1>1, ReadPhonesInv, ReadWorkersInv, LoopInv, RemovalsInv, AroundInv DEF Next, Reconcile

\* The invariant holds for ever.
LEMMA Invariance == Spec => []Inv
BY InitInv, NextInv, PTL DEF Spec

\* The provisioner and the table keep their types, whatever fails.
THEOREM TypeCorrect == Spec => []TypeOK
<1>1. Inv => TypeOK
  BY DEF Inv
<1> QED  BY <1>1, Invariance, PTL

\* Only a failed read of the phones costs a phone that stays active its Worker:
\* no other failure, no heartbeat, no switch of another phone and no reconcile
\* on rows it has read long ago does (main.go, reconcile).
THEOREM BlindStopsOnly == Spec => OnlyBlindStops
<1>1. ASSUME Inv, [Next]_vars,
             NEW p \in Phones, p \in service \ service', p \in steady, job' # job
      PROVE  blind
  <2>1. PICK q \in Phones : RemoveService(q)
    BY <1>1 DEF Next, Reconcile, vars, world, ReadPhones, ReadWorkers, UpsertWorker,
       TurnToRemovals, EndReconcile, SkipServed, CreateService, Crash, SendOnline,
       Restart, Heartbeat, Switch, RemovedByHand
  <2>2. job.at = "remove" /\ q \in job.left /\ q = p
    BY <1>1, <2>1 DEF RemoveService, TurnOf
  <2> QED  BY <1>1, <2>2 DEF Inv, KnowsSteady
<1>2. Inv /\ [Next]_vars =>
        [\A p \in Phones : p \in service \ service' /\ p \in steady /\ job' # job
           => blind]_vars
  BY <1>1
<1> QED  BY <1>2, Invariance, PTL DEF Spec, OnlyBlindStops

============================================================================

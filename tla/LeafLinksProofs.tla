--------------------------- MODULE LeafLinksProofs --------------------------
(***************************************************************************)
(* The links of any set of leaves: three handlers may write one in any     *)
(* order and any of them may fail, and only a PATCH that did not find the  *)
(* message stands in the way of a complete link.                           *)
(***************************************************************************)
EXTENDS LeafLinks, TLAPS

\* What the PATCH has seen, and what it has written: a webhook runs for a
\* stored message, the Worker reports once, a PATCH that found the message is
\* not blind and one that did not is, and a link it completed stays so whoever
\* else writes.
PatchRemembers(x) ==
    /\ hook[x] # "idle" => Stored(x)
    /\ worker[x] # "done" => patch[x] = "idle"
    /\ patch[x] \in {"idle", "look"} => ~blind[x]
    /\ patch[x] = "found" => Stored(x) /\ ~blind[x]
    /\ patch[x] = "missing" => blind[x]
    /\ patch[x] = "done" /\ ~blind[x] => link[x] = "complete"

\* The inductive invariant.
Inv == TypeOK /\ \A x \in Leaves : PatchRemembers(x)

\* A step of leaf x touches the rows and the handlers of that leaf only.
Others(x) ==
    \A y \in Leaves \ {x} :
        /\ worker'[y] = worker[y] /\ host'[y] = host[y]
        /\ hook'[y] = hook[y] /\ link'[y] = link[y]
        /\ patch'[y] = patch[y] /\ blind'[y] = blind[y]

\* A step of leaf x keeps the invariant if it does for x itself.
LEMMA LeafStep ==
    ASSUME Inv, NEW x \in Leaves, Others(x),
           worker' \in [Leaves -> {"new", "posted", "waits", "done"}],
           host' \in [Leaves -> {"none", "sent", "stored", "fired"}],
           leaf' \in [Leaves -> {"absent", "Pending", "Reported"}],
           link' \in [Leaves -> {"absent", "open", "complete"}],
           send' \in [Leaves -> {"idle", "asked", "upsert", "rejected", "done", "failed"}],
           hook' \in [Leaves -> {"idle", "complete", "done"}],
           patch' \in [Leaves -> {"idle", "look", "found", "missing", "done", "failed"}],
           blind' \in [Leaves -> BOOLEAN],
           PatchRemembers(x)', link'[x] = "complete" => Stored(x)'
    PROVE  Inv'
<1>1. ASSUME NEW y \in Leaves
      PROVE  PatchRemembers(y)' /\ (link'[y] = "complete" => Stored(y)')
  <2>1. CASE y = x
    BY <2>1
  <2>2. CASE y # x
    BY <2>2 DEF Inv, TypeOK, Others, PatchRemembers, Stored
  <2> QED  BY <2>1, <2>2
<1> QED  BY <1>1 DEF Inv, TypeOK

\* The steps of the Worker and of HostAgent.
LEMMA OutsideInv ==
    ASSUME Inv, NEW x \in Leaves,
           \/ IngestLeaf(x) \/ SendMessage(x) \/ ReportStatus(x)
           \/ HostSends(x) \/ HostStores(x) \/ HostFires(x)
    PROVE  Inv'
<1> USE DEF Inv, TypeOK, PatchRemembers, Stored, Others
<1>1. CASE IngestLeaf(x)
  BY <1>1, LeafStep DEF IngestLeaf
<1>2. CASE SendMessage(x)
  BY <1>2, LeafStep DEF SendMessage
<1>3. CASE ReportStatus(x)
  <2>1. PICK p \in {"failed", "look"} : patch' = [patch EXCEPT ![x] = p]
    BY <1>3 DEF ReportStatus
  <2>2. patch[x] = "idle" /\ ~blind[x]
    BY <1>3 DEF ReportStatus
  <2> QED  BY <1>3, <2>1, <2>2, LeafStep DEF ReportStatus
<1>4. CASE HostSends(x)
  BY <1>4, LeafStep DEF HostSends
<1>5. CASE HostStores(x)
  BY <1>5, LeafStep DEF HostStores
<1>6. CASE HostFires(x)
  BY <1>6, LeafStep DEF HostFires
<1> QED  BY <1>1, <1>2, <1>3, <1>4, <1>5, <1>6

\* The steps of the three handlers.
LEMMA HandlersInv ==
    ASSUME Inv, NEW x \in Leaves, Handle(x) \/ SendRejected(x) \/ SendFailed(x)
    PROVE  Inv'
<1> USE DEF Inv, TypeOK, PatchRemembers, Stored, Others
<1>1. CASE SendAnswered(x)
  BY <1>1, LeafStep DEF SendAnswered
<1>2. CASE SendFailed(x)
  BY <1>2, LeafStep DEF SendFailed
<1>3. CASE LinkSent(x)
  BY <1>3, LeafStep DEF LinkSent, Linked
<1>4. CASE CompleteLinks(x)
  BY <1>4, LeafStep DEF CompleteLinks
<1>5. CASE ResolveMessage(x)
  <2>1. PICK found \in {Stored(x)} \union (IF Failures THEN {FALSE} ELSE {}) :
           /\ patch' = [patch EXCEPT ![x] = IF found THEN "found" ELSE "missing"]
           /\ blind' = [blind EXCEPT ![x] = ~found]
    BY <1>5 DEF ResolveMessage
  <2>2. CASE found
    BY <1>5, <2>1, <2>2, LeafStep DEF ResolveMessage
  <2>3. CASE ~found
    BY <1>5, <2>1, <2>3, LeafStep DEF ResolveMessage
  <2> QED  BY <2>2, <2>3
<1>6. CASE LinkStatus(x)
  BY <1>6, LeafStep DEF LinkStatus
<1>7. CASE SendRejected(x)
  BY <1>7, LeafStep DEF SendRejected
<1> QED  BY <1>1, <1>2, <1>3, <1>4, <1>5, <1>6, <1>7 DEF Handle

\* No link at the start.
LEMMA InitInv == Init => Inv
  BY DEF Init, Inv, TypeOK, PatchRemembers, Stored

\* Every step keeps the invariant.
LEMMA NextInv == Inv /\ [Next]_vars => Inv'
<1> SUFFICES ASSUME Inv, [Next]_vars PROVE Inv'
  OBVIOUS
<1>1. CASE UNCHANGED vars
  BY <1>1 DEF vars, Inv, TypeOK, PatchRemembers, Stored
<1> QED  BY <1>1, OutsideInv, HandlersInv DEF Next

\* The invariant holds for ever.
LEMMA Invariance == Spec => []Inv
  BY InitInv, NextInv, PTL DEF Spec

\* The variables have their types, and a complete link names a stored message.
THEOREM TypeCorrect == Spec => []TypeOK
<1>1. Inv => TypeOK
  BY DEF Inv
<1> QED  BY <1>1, Invariance, PTL

\* A PATCH that found the message leaves a complete link behind for good, in
\* whatever order the handlers came and whichever of the other two failed.
THEOREM FoundCompletes == Spec => []FoundStatusCompletes
<1>1. Inv => FoundStatusCompletes
  BY DEF Inv, PatchRemembers, FoundStatusCompletes, Settled
<1> QED  BY <1>1, Invariance, PTL

\* No send and no webhook, late or failed, takes a complete link back: only a
\* PATCH that had not found the message does.
THEOREM OnlyBlindReopens == Spec => OnlyBlindStatusReopens
<1> DEFINE Reopens == \A x \in Leaves : link[x] = "complete" /\ link'[x] # "complete" =>
                         patch[x] = "missing"
<1>1. Inv /\ [Next]_vars => [Reopens]_vars
  <2> SUFFICES ASSUME Inv, Next PROVE Reopens
    OBVIOUS
  <2>1. link \in [Leaves -> {"absent", "open", "complete"}]
    BY DEF Inv, TypeOK
  <2>2. PICK x \in Leaves :
           \/ IngestLeaf(x) \/ SendMessage(x) \/ ReportStatus(x)
           \/ HostSends(x) \/ HostStores(x) \/ HostFires(x)
           \/ SendRejected(x) \/ SendFailed(x) \/ Handle(x)
    BY DEF Next
  <2>3. CASE LinkSent(x)
    BY <2>1, <2>3 DEF LinkSent
  <2>4. CASE CompleteLinks(x)
    BY <2>1, <2>4 DEF CompleteLinks
  <2>5. CASE LinkStatus(x)
    BY <2>1, <2>5 DEF LinkStatus
  <2>6. CASE link' = link
    BY <2>6
  <2> QED
    BY <2>2, <2>3, <2>4, <2>5, <2>6
       DEF IngestLeaf, SendMessage, ReportStatus, HostSends, HostStores, HostFires,
           SendRejected, SendFailed, Handle, SendAnswered, ResolveMessage
<1> QED  BY <1>1, Invariance, PTL DEF Spec, OnlyBlindStatusReopens

============================================================================

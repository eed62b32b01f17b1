----------------------------- MODULE LeafLinks ------------------------------
(***************************************************************************)
(* The links between the leaves of a scenario and the messages sent for    *)
(* them: rows of spine_leaf_messages, one for a leaf and its WhatsApp id,  *)
(* complete once they name the row of messages.  Three handlers write the  *)
(* link of a leaf: POST /send once HostAgent has answered, POST /incoming  *)
(* when HostAgent's webhook of the outgoing message arrives, and           *)
(* PATCH /leaves/status of the Worker.  HostAgent stores a message before  *)
(* it fires the webhook; neither is ordered with its answer to the send.   *)
(***************************************************************************)
EXTENDS Integers

CONSTANTS
    Leaves,   \* the leaves a Worker sends a message for
    Failures  \* whether a request to the database may fail

ASSUME FailuresAssumption == Failures \in BOOLEAN

VARIABLES
    worker,  \* worker[x]: how far the Worker is with leaf x
    host,    \* host[x]: how far HostAgent is with its message
    leaf,    \* leaf[x]: the status of its row of spine_leaves
    link,    \* link[x]: its row of spine_leaf_messages
    send,    \* send[x]: the handler of POST /send
    hook,    \* hook[x]: the handler of the webhook
    patch,   \* patch[x]: the handler of PATCH /leaves/status
    blind    \* history: the PATCH looked for the message and did not find it

vars == <<worker, host, leaf, link, send, hook, patch, blind>>

Stored(x) == host[x] \in {"stored", "fired"}

----------------------------------------------------------------------------
(* The Worker: it posts the leaf, sends its message, reports its status.    *)

\* POST /leaves: the row is created, or overwritten.
IngestLeaf(x) ==
    /\ worker[x] = "new"
    /\ worker' = [worker EXCEPT ![x] = "posted"]
    /\ leaf' = [leaf EXCEPT ![x] = "Pending"]
    /\ UNCHANGED <<host, link, send, hook, patch, blind>>

\* POST /send/{phone_id}: the handler asks HostAgent.
SendMessage(x) ==
    /\ worker[x] = "posted"
    /\ worker' = [worker EXCEPT ![x] = "waits"]
    /\ send' = [send EXCEPT ![x] = "asked"]
    /\ UNCHANGED <<host, leaf, link, hook, patch, blind>>

\* PATCH /leaves/status, with the WhatsApp id if HostAgent gave one: it may come
\* before POST /send has written its row.  The row of spine_leaves is the first
\* thing it updates; without a WhatsApp id that is all.
ReportStatus(x) ==
    /\ worker[x] = "waits"
    /\ send[x] \in {"upsert", "done", "failed"}
    /\ worker' = [worker EXCEPT ![x] = "done"]
    /\ leaf' = [leaf EXCEPT ![x] = "Reported"]
    /\ patch' = [patch EXCEPT ![x] = IF send[x] = "failed" THEN "failed" ELSE "look"]
    /\ UNCHANGED <<host, link, send, hook, blind>>

----------------------------------------------------------------------------
(* HostAgent: external.                                                     *)

HostSends(x) ==
    /\ send[x] # "idle"
    /\ host[x] = "none"
    /\ host' = [host EXCEPT ![x] = "sent"]
    /\ UNCHANGED <<worker, leaf, link, send, hook, patch, blind>>

HostStores(x) ==
    /\ host[x] = "sent"
    /\ host' = [host EXCEPT ![x] = "stored"]
    /\ UNCHANGED <<worker, leaf, link, send, hook, patch, blind>>

HostFires(x) ==
    /\ host[x] = "stored"
    /\ host' = [host EXCEPT ![x] = "fired"]
    /\ hook' = [hook EXCEPT ![x] = "complete"]
    /\ UNCHANGED <<worker, leaf, link, send, patch, blind>>

----------------------------------------------------------------------------
(* POST /send.                                                              *)

\* HostAgent answers 200 with the WhatsApp id.
SendAnswered(x) ==
    /\ send[x] = "asked"
    /\ host[x] # "none"
    /\ send' = [send EXCEPT ![x] = "upsert"]
    /\ UNCHANGED <<worker, host, leaf, link, hook, patch, blind>>

\* HostAgent answers another status, and with a WhatsApp id all the same: the
\* link is written before the Worker gets its 502.
SendRejected(x) ==
    /\ send[x] = "asked"
    /\ send' = [send EXCEPT ![x] = "rejected"]
    /\ UNCHANGED <<worker, host, leaf, link, hook, patch, blind>>

\* No answer within 15 seconds, or a refusal without a WhatsApp id: no link, and
\* the Worker gets a 502.  HostAgent may send the message yet.
SendFailed(x) ==
    /\ send[x] = "asked"
    /\ send' = [send EXCEPT ![x] = "failed"]
    /\ UNCHANGED <<worker, host, leaf, link, hook, patch, blind>>

\* After the upsert the Worker is answered: 200, or 502 without the id.
Linked(s) == IF s = "upsert" THEN "done" ELSE "failed"

LinkSent_Overwrites(x) ==
    /\ send[x] \in {"upsert", "rejected"}
    /\ send' = [send EXCEPT ![x] = Linked(@)]
    /\ link' = [link EXCEPT ![x] = "open"]
    /\ UNCHANGED <<worker, host, leaf, hook, patch, blind>>

\* The upsert without the column message_id leaves an existing row as it is.
\* If it fails, that is logged and no more.
LinkSent(x) ==
    /\ send[x] \in {"upsert", "rejected"}
    /\ send' = [send EXCEPT ![x] = Linked(@)]
    /\ \/ link' = [link EXCEPT ![x] = IF @ = "absent" THEN "open" ELSE @]
       \/ Failures /\ UNCHANGED link
    /\ UNCHANGED <<worker, host, leaf, hook, patch, blind>>

----------------------------------------------------------------------------
(* POST /incoming, for an outgoing message.                                 *)

\* _complete_leaf_message_links: the rows of this WhatsApp id whose message_id
\* is null get it.  There may be none yet, or the request fails, which is
\* logged: no webhook comes again.
CompleteLinks(x) ==
    /\ hook[x] = "complete"
    /\ hook' = [hook EXCEPT ![x] = "done"]
    /\ \/ link' = [link EXCEPT ![x] = IF @ = "open" THEN "complete" ELSE @]
       \/ Failures /\ UNCHANGED link
    /\ UNCHANGED <<worker, host, leaf, send, patch, blind>>

----------------------------------------------------------------------------
(* PATCH /leaves/status, after the update of spine_leaves.                  *)

ResolveMessage_NotLooked(x) ==
    /\ patch[x] = "look"
    /\ patch' = [patch EXCEPT ![x] = "missing"]
    /\ blind' = [blind EXCEPT ![x] = ~Stored(x)]
    /\ UNCHANGED <<worker, host, leaf, link, send, hook>>

\* update_leaf looks for the message of the WhatsApp id.  A query that fails is
\* logged and counts as not found.
ResolveMessage(x) ==
    /\ patch[x] = "look"
    /\ \E found \in {Stored(x)} \union (IF Failures THEN {FALSE} ELSE {}) :
          /\ patch' = [patch EXCEPT ![x] = IF found THEN "found" ELSE "missing"]
          /\ blind' = [blind EXCEPT ![x] = ~found]
    /\ UNCHANGED <<worker, host, leaf, link, send, hook>>

LinkStatus_Unchecked(x) ==
    /\ patch[x] \in {"found", "missing"}
    /\ patch' = [patch EXCEPT ![x] = "done"]
    /\ link' = [link EXCEPT ![x] = "complete"]
    /\ UNCHANGED <<worker, host, leaf, send, hook, blind>>

\* The upsert has the column message_id, null when nothing was found: then it
\* opens the link again if it was complete.  A failure is logged.
LinkStatus(x) ==
    /\ patch[x] \in {"found", "missing"}
    /\ \/ /\ patch' = [patch EXCEPT ![x] = "done"]
          /\ link' = [link EXCEPT ![x] = IF patch[x] = "found" THEN "complete" ELSE "open"]
       \/ /\ Failures
          /\ patch' = [patch EXCEPT ![x] = "failed"]
          /\ UNCHANGED link
    /\ UNCHANGED <<worker, host, leaf, send, hook, blind>>

Init ==
    /\ worker = [x \in Leaves |-> "new"]
    /\ host = [x \in Leaves |-> "none"]
    /\ leaf = [x \in Leaves |-> "absent"]
    /\ link = [x \in Leaves |-> "absent"]
    /\ send = [x \in Leaves |-> "idle"]
    /\ hook = [x \in Leaves |-> "idle"]
    /\ patch = [x \in Leaves |-> "idle"]
    /\ blind = [x \in Leaves |-> FALSE]

Handle(x) == SendAnswered(x) \/ LinkSent(x) \/ CompleteLinks(x) \/ ResolveMessage(x)
                \/ LinkStatus(x)

Next == \E x \in Leaves :
    \/ IngestLeaf(x) \/ SendMessage(x) \/ ReportStatus(x)
    \/ HostSends(x) \/ HostStores(x) \/ HostFires(x)
    \/ SendRejected(x) \/ SendFailed(x) \/ Handle(x)

Spec == Init /\ [][Next]_vars

----------------------------------------------------------------------------
(* Properties.                                                              *)

\* The types, and that a complete link is one of a message there is.
TypeOK ==
    /\ worker \in [Leaves -> {"new", "posted", "waits", "done"}]
    /\ host \in [Leaves -> {"none", "sent", "stored", "fired"}]
    /\ leaf \in [Leaves -> {"absent", "Pending", "Reported"}]
    /\ link \in [Leaves -> {"absent", "open", "complete"}]
    /\ send \in [Leaves -> {"idle", "asked", "upsert", "rejected", "done", "failed"}]
    /\ hook \in [Leaves -> {"idle", "complete", "done"}]
    /\ patch \in [Leaves -> {"idle", "look", "found", "missing", "done", "failed"}]
    /\ blind \in [Leaves -> BOOLEAN]
    /\ \A x \in Leaves : link[x] = "complete" => Stored(x)

\* Nobody is going to write the link of x any more.
Settled(x) == worker[x] = "done" /\ patch[x] = "done" /\ hook[x] = "done"

\* A message that was sent has its link, complete, in whatever order the three
\* handlers came and whichever of the other two failed, if only the PATCH
\* found the message and wrote it.
FoundStatusCompletes ==
    \A x \in Leaves : Settled(x) /\ send[x] = "done" /\ ~blind[x] => link[x] = "complete"

\* A complete link loses its message only to a PATCH that had not found it: no
\* late send and no webhook takes it back.
OnlyBlindStatusReopens ==
    [][\A x \in Leaves : link[x] = "complete" /\ link'[x] # "complete" =>
         patch[x] = "missing"]_vars

----------------------------------------------------------------------------

\* The comment in update_leaf: the PATCH closes the link without depending on
\* the order of arrival, as HostAgent stores a message before it fires the
\* webhook.  But nothing orders the PATCH after either of the two, and when it
\* looks before the message is stored its upsert writes null over what the
\* webhook has completed meanwhile.  No request fails in this run.
StatusClosesLink ==
    \A x \in Leaves : Settled(x) /\ send[x] = "done" => link[x] = "complete"

============================================================================

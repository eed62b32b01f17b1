----------------------------- MODULE MCIncoming -----------------------------
(* Incoming on a small instance: two messages of one contact, with ensures  *)
(* and completes beside them.  Contacts do not interact: one will do.       *)
EXTENDS Incoming, TLC

CONSTANTS k1, s1, s2, m1, m2

MCPriority == s1 :> 1 @@ s2 :> 2
MCSources  == {"trigger", "scheduler"}
MCFrom     == m1 :> k1 @@ m2 :> k1

\* The messages are interchangeable.
Symmetric == Permutations({m1, m2})

============================================================================

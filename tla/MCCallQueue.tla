---------------------------- MODULE MCCallQueue ----------------------------
(* CallQueue on a small instance: two contacts, a batch of up to three      *)
(* scenarios of which two tie, and three ensures that insert rows.          *)
EXTENDS CallQueue, TLC

CONSTANTS k1, k2, s1, s2, s3

MCPriority == s1 :> 1 @@ s2 :> 1 @@ s3 :> 2
MCSources  == {"trigger", "scheduler"}

\* Contacts are interchangeable, and so are the two scenarios that tie.
Symmetric == Permutations({k1, k2}) \cup Permutations({s1, s2})

============================================================================

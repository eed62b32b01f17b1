------------------------------ MODULE MCCallTx ------------------------------
(* CallTx on a small instance: two connections on two contacts.             *)
EXTENDS CallTx, TLC

CONSTANTS k1, k2, s1, s2, t1, t2

MCPriority == s1 :> 1 @@ s2 :> 2
MCSources  == {"trigger", "scheduler"}

============================================================================

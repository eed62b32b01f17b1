----------------------------- MODULE MCCallFlow -----------------------------
(* CallFlow on a small instance.                                            *)
EXTENDS CallFlow, TLC

CONSTANTS k1, s1, s2, s3, h1, h2

MCPriority2 == s1 :> 1 @@ s2 :> 2
MCPriority3 == s1 :> 1 @@ s2 :> 2 @@ s3 :> 3

\* The handlers are interchangeable.
Symmetric == Permutations({h1, h2})

============================================================================

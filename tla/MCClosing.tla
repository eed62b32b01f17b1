----------------------------- MODULE MCClosing -----------------------------
(* Closing on a small instance: a batch of three calls and one of a single  *)
(* call; estimates that cannot be read, one that does not fit with the      *)
(* buffer, and a negative one that puts the deadline before the start.      *)
EXTENDS Closing, TLC

MCBatch     == "k1" :> 3 @@ "k2" :> 1
MCEstimates == <<"k1", 1>> :> {NotInt} @@ <<"k1", 2>> :> {NotInt, 3} @@
               <<"k1", 3>> :> {NotInt} @@ <<"k2", 1>> :> {NotInt, -2}

============================================================================

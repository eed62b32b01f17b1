---------------------------- MODULE MCScheduler -----------------------------
(* Scheduler on a small instance, all of one contact: a once schedule, which *)
(* may meet a fault, a manual one, a cron schedule whose scenario is not     *)
(* active, and a schedule of unknown type.                                   *)
EXTENDS Scheduler, TLC

CONSTANTS a, b, c, d, k1

MCKind      == a :> "once" @@ b :> "manual" @@ c :> "cron" @@ d :> "weekly"
MCContactOf == [s \in {a, b, c, d} |-> k1]
MCMaxFaults == [s \in {a, b, c, d} |-> IF s = a THEN 1 ELSE 0]

============================================================================

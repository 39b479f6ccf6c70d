----------------------------- MODULE MCTopology -----------------------------
(* Two readers in one process, a reader in the writer's process and one in    *)
(* another, readers in two other processes, and processes that may die.       *)
EXTENDS Topology, TLC

CONSTANTS w1, r1, r2, proc1, proc2, proc3

OneHost == [x \in Procs |-> 1]
TwoHosts == [x \in Procs |-> IF x = proc1 THEN 1 ELSE 2]

MCLayouts ==
    { [proc |-> w1 :> proc1 @@ r1 :> proc2 @@ r2 :> proc2, host |-> OneHost,
       leavers |-> {r1, r2}, mortal |-> {}],
      [proc |-> w1 :> proc1 @@ r1 :> proc1 @@ r2 :> proc2, host |-> OneHost,
       leavers |-> {w1, r1}, mortal |-> {}],
      [proc |-> w1 :> proc1 @@ r1 :> proc2 @@ r2 :> proc3, host |-> OneHost,
       leavers |-> {r1}, mortal |-> {}],
      [proc |-> w1 :> proc1 @@ r1 :> proc2, host |-> TwoHosts,
       leavers |-> {w1, r1}, mortal |-> {proc1, proc2}] }

=============================================================================

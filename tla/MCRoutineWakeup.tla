-------------------------- MODULE MCRoutineWakeup --------------------------
(* Small instance of RoutineWakeup with three layouts: a classic group of   *)
(* two processors that share one run queue, a classic group of one          *)
(* processor, and a processor of the choreography policy with a run queue   *)
(* of its own.                                                              *)
EXTENDS RoutineWakeup, TLC

CONSTANTS p1, p2, r1, r2, c1, s1, s2

Classic ==
    [procs |-> {p1, p2}, ctx |-> p1 :> c1 @@ p2 :> c1,
     queue |-> c1 :> <<r1>>, notifies |-> TRUE]

ClassicSingle ==
    [procs |-> {p1}, ctx |-> p1 :> c1 @@ p2 :> c1,
     queue |-> c1 :> <<r1>>, notifies |-> TRUE]

Choreography ==
    [procs |-> {p1}, ctx |-> p1 :> c1 @@ p2 :> c1,
     queue |-> c1 :> <<r1, r2>>, notifies |-> FALSE]

MCLayouts == {Classic, ClassicSingle, Choreography}

\* Two messages for one routine, or one for each.
MCReadersOf == s1 :> {r1} @@ s2 :> {r1, r2}

=============================================================================

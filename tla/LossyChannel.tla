---------------------------- MODULE LossyChannel ----------------------------
(***************************************************************************)
(* What a reader may rely on: it is given messages of its channel in the   *)
(* order in which they were dispatched, none of them twice, possibly       *)
(* skipping some.                                                          *)
(***************************************************************************)
EXTENDS Naturals, Sequences

CONSTANTS Messages,
          Empty       \* no message yet

VARIABLES sent,    \* every message dispatched, in order
          last,    \* position of the last one the reader was given, or 0
          got      \* that message

vars == <<sent, last, got>>

Init == sent = <<>> /\ last = 0 /\ got = Empty

Send ==
    /\ \E m \in Messages : sent' = Append(sent, m)
    /\ UNCHANGED <<last, got>>

Receive ==
    /\ \E i \in last + 1 .. Len(sent) : last' = i /\ got' = sent[i]
    /\ UNCHANGED sent

Next == Send \/ Receive

Spec == Init /\ [][Next]_vars

=============================================================================

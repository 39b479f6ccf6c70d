--------------------------- MODULE MCServiceCall ---------------------------
(* Clients A and B share processP; services s1 and s2 share processQ, s3 has *)
(* processR.  Two threads of one client, two clients of one process, one     *)
(* thread that calls twice, and two services of one process or of two that   *)
(* answer one request.                                                       *)
EXTENDS ServiceCall

CONSTANTS A, B, a1, a2, b1, s1, s2, s3, processP, processQ, processR

MCClientOf == [t \in Callers |-> IF t = b1 THEN B ELSE A]

MCProcessOf ==
    [x \in Clients \cup Services |->
        CASE x \in {A, B} -> processP
          [] x \in {s1, s2} -> processQ
          [] OTHER -> processR]

Once(callers) == [t \in Callers |-> IF t \in callers THEN 1 ELSE 0]

OneService ==
    { [calls |-> Once({a1, a2}), services |-> {s1}],
      [calls |-> Once({a1, b1}), services |-> {s1}],
      [calls |-> [t \in Callers |-> IF t = a1 THEN 2 ELSE 0], services |-> {s1}] }

UpToTwoServices ==
    OneService \cup
    { [calls |-> Once({a1}), services |-> {s1, s2}],
      [calls |-> Once({a1}), services |-> {s1, s3}] }

\* With two services no process is shut down.
MCNext == Next /\ (phase[s2] # "never" \/ phase[s3] # "never" => UNCHANGED is_shutdown)

MCSpec == Init /\ [][MCNext]_vars /\ WF_vars(System)

=============================================================================

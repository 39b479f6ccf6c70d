------------------------------ MODULE MCRings -------------------------------
(* Small instances of the two rings a message passes, ConditionNotifier in   *)
(* shared memory and ChannelData in the reader's process, side by side: a    *)
(* behaviour is one of the notification ring or one of the visitor.          *)
EXTENDS ConditionNotifier, ChannelData

VARIABLE part

mcVars == <<part, vars, dataVars>>

MCInit ==
    /\ part \in {"notifier", "visitor"}
    /\ Init /\ DataInit
    /\ part = "notifier" => QueueSize = 1 /\ ~fused

NotifierNext == part = "notifier" /\ Next /\ UNCHANGED dataVars
VisitorNext == part = "visitor" /\ DataNext /\ UNCHANGED vars

MCNext == (NotifierNext \/ VisitorNext) /\ UNCHANGED part

\* The fairness of FairSpec; it asks nothing of a notifier at rest.
MCSpec == MCInit /\ [][MCNext]_mcVars /\ Fairness

=============================================================================

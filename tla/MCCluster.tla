----------------------------- MODULE MCCluster -----------------------------
(* Two nodes whose services ask two things of any kind, faults among them; *)
(* two of which one sends messages to a name the other registers; three    *)
(* that only meet.                                                         *)
EXTENDS Cluster, TLC

CONSTANTS n1, n2, n3

Kinds == {"register", "query", "monitor", "handle", "name", "fault"}

MCCrowds ==
    {[nodes |-> {n1, n2}, ops |-> 2, asks |-> {n1, n2} \X Kinds],
     [nodes |-> {n1, n2}, ops |-> 3, asks |-> {<<n1, "name">>, <<n2, "register">>}],
     [nodes |-> {n1, n2, n3}, ops |-> 0, asks |-> {}]}
=============================================================================

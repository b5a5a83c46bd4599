------------------------------ MODULE MCAlerts ------------------------------
(* AlertLifecycle for TLC, safety.  Requests and jobs are interchangeable;   *)
(* the kinds of rules are taken in turn:                                     *)
(*   presence: two sweeps and an operator, no report;                        *)
(*   metric: two reports and one sweep, no device lost, nothing reopened.    *)
EXTENDS AlertLifecycle, TLC

VARIABLE focus

Symmetry == Permutations(Reports) \cup Permutations(Sweeps) \cup Permutations(MetricKeys)

Presence == focus = "presence" /\ reports' = 0
Metric ==
  /\ focus = "metric" /\ flips' = 0 /\ reopens' = 0 /\ commands' <= 1
  /\ Cardinality({w \in Sweeps : sweep'[w].pc # "idle"}) <= 1

MCInit == Init /\ focus \in {"presence", "metric"}

InTurn ==
  /\ MCInit
  /\ [][Next /\ UNCHANGED focus /\ (Presence \/ Metric)]_<<vars, focus>>
=============================================================================

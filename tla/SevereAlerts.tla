----------------------------- MODULE SevereAlerts -----------------------------
(* What the alerts on severe findings promise; SecurityScans says how the jobs  *)
(* come to raise them.                                                          *)
EXTENDS Integers

VARIABLES
  raised,     \* table Alert: how many of each answer's finding, by job
  beside      \* history: jobs one run of which went on beside the next

(* processors.ts:871: the job of a finding is run again after a throw or the   *)
(* death of its worker, and looks for its alert first: a finding is not         *)
(* alerted twice by it, unless one run went on beside the next.                *)
FindingAlertedOnce ==
  \A j \in DOMAIN raised : j[1] = "finding" /\ raised[j] > 1 => j \in beside
===============================================================================

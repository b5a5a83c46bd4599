-------------------------- MODULE MCAlertLifecycle --------------------------
(* AlertLifecycle for TLC: a run of its liveness. *)
EXTENDS AlertLifecycle, TLC
=============================================================================

-------------------------- MODULE MCReportSchedule --------------------------
(* ReportSchedule for TLC: ticks and schedules are interchangeable. *)
EXTENDS ReportSchedule, TLC

Symmetry == Permutations(Ticks) \cup Permutations(Schedules) \cup Permutations(Edits)
=============================================================================

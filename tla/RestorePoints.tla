---------------------------- MODULE RestorePoints -----------------------------
(* What the completed backup runs promise, stated of their rows alone;         *)
(* BackupRuns says how the rows come about.                                    *)
EXTENDS Integers

VARIABLES
  run,      \* of each id: status, whether its type is "file", and of its
            \* metadata the archive and the verdict on it
  passed,   \* history: archives that passed a verification
  undone    \* history: runs that an execution wrote after another completed them

Verified(r) == run[r].archive \in passed

(* processors.ts:518, backups.service.ts:191: a restore point has an archive  *)
(* that passed its verification, through retries, restores, verifications     *)
(* with outdated metadata and redelivery, unless a second execution wrote the *)
(* run after one had completed it.  processors.ts:211: a run says "Verified"  *)
(* of an archive that was, even when a verification of another archive of the *)
(* run writes its verdict late.                                               *)
RestorePointVerified ==
  \A r \in DOMAIN run :
    /\ run[r].status = "completed" => Verified(r) \/ r \in undone
    /\ run[r].verdict = "verified" /\ run[r].archive # 0 => Verified(r)
===============================================================================

----------------------------- MODULE BackupRuns -----------------------------
(* The backup runs of one organization: users trigger, restore and verify     *)
(* them, the gateway writes a row and queues a job, and the slots of the      *)
(* worker process the jobs.  One action per database statement; the scripts   *)
(* run between a job's two writes, so their outcome is chosen at the second.  *)
(* The queue delivers a job again when its processing throws, and when a slot *)
(* stops renewing its lock, be it dead or only slow.                          *)
EXTENDS Integers, FiniteSets, RestorePoints

CONSTANTS
  Runs,        \* run ids, numbered in the order of creation
  Requests,    \* requests of users in progress at once
  Jobs,        \* places in the queue
  Slots,       \* slots of the worker
  Attempts,    \* how often the queue tries a job that throws (3)
  MaxArchives, \* bound: archives made in a behaviour
  MaxCommands, \* bound: restores and verifications asked for
  MaxFaults,   \* bound: crashes, delays and failed statements
  None

VARIABLES
  request,  \* what each request is about to queue, or None
  job,      \* of each place: the job, or None
  slot,     \* of each slot: the job being processed, or None
  made,     \* archives are numbered as they are made
  commands, faults,
  lost,     \* history: runs that a failed statement, a crash of the gateway, a
            \* second delay or a crash after a first one left behind
  once      \* history: runs that an execution completed

vars == <<run, request, job, slot, made, commands, faults, passed, lost, once, undone>>

Statuses == {"none", "pending", "running", "completed", "failed", "gone"}
Kinds == {"execute", "restore", "verify"}

Init ==
  /\ run = [r \in Runs |-> [status |-> "none", file |-> FALSE, archive |-> 0, verdict |-> "none"]]
  /\ request = [q \in Requests |-> None]
  /\ job = [j \in Jobs |-> None]
  /\ slot = [w \in Slots |-> None]
  /\ made = 0 /\ commands = 0 /\ faults = 0
  /\ passed = {} /\ lost = {} /\ once = {} /\ undone = {}

Status(r) == run[r].status
Fault == faults < MaxFaults /\ faults' = faults + 1

-----------------------------------------------------------------------------
(* Users *)

(* triggerRun writes the row first. *)
Trigger(q) ==
  /\ request[q] = None
  /\ \E r \in Runs, file \in BOOLEAN :
       /\ Status(r) = "none" /\ \A s \in Runs : s < r => Status(s) # "none"
       /\ run' = [run EXCEPT ![r].status = "pending", ![r].file = file]
       /\ request' = [request EXCEPT ![q] = [kind |-> "execute", r |-> r, path |-> 0]]
  /\ UNCHANGED <<job, slot, made, commands, faults, passed, lost, once, undone>>

(* restoreRun and verifyRun ask for a completed run; the archive to verify is *)
(* passed on as it is now.                                                    *)
Order(q, r, kind) ==
  /\ request[q] = None /\ commands < MaxCommands
  /\ Status(r) = "completed" /\ (kind = "verify" => run[r].archive # 0)
  /\ request' = [request EXCEPT ![q] =
       [kind |-> kind, r |-> r, path |-> IF kind = "verify" THEN run[r].archive ELSE 0]]
  /\ commands' = commands + 1
  /\ UNCHANGED <<run, job, slot, made, faults, passed, lost, once, undone>>

Enqueue(q) ==
  /\ request[q] # None
  /\ \E j \in Jobs :
       /\ job[j] = None
       /\ job' = [job EXCEPT ![j] = [kind |-> request[q].kind, r |-> request[q].r,
            path |-> request[q].path, left |-> Attempts, active |-> FALSE, stalled |-> FALSE]]
  /\ request' = [request EXCEPT ![q] = None]
  /\ UNCHANGED <<run, slot, made, commands, faults, passed, lost, once, undone>>

(* The queue cannot be reached, or the gateway ends: the row stays.           *)
EnqueueFails(q) ==
  /\ Fault
  /\ request[q] # None
  /\ lost' = IF request[q].kind = "execute" THEN lost \cup {request[q].r} ELSE lost
  /\ request' = [request EXCEPT ![q] = None]
  /\ UNCHANGED <<run, job, slot, made, commands, passed, once, undone>>

(* Retention, or the deletion of the backup job with its runs.                *)
Delete(r) ==
  /\ Status(r) \notin {"none", "gone"}
  /\ run' = [run EXCEPT ![r] = [status |-> "gone", file |-> FALSE, archive |-> 0, verdict |-> "none"]]
  /\ UNCHANGED <<request, job, slot, made, commands, faults, passed, lost, once, undone>>

-----------------------------------------------------------------------------
(* The slots of the worker. *)

Held(j) == \E w \in Slots : slot[w] # None /\ slot[w].j = j

Take(w) ==
  /\ slot[w] = None
  /\ \E j \in Jobs :
       /\ job[j] # None /\ ~job[j].active
       /\ job' = [job EXCEPT ![j].active = TRUE]
       /\ slot' = [slot EXCEPT ![w] =
            [pc |-> "read", kind |-> job[j].kind, r |-> job[j].r, path |-> job[j].path, j |-> j,
             archive |-> 0, outrun |-> FALSE]]
  /\ UNCHANGED <<run, request, made, commands, faults, passed, lost, once, undone>>

(* A slot is done with its job, if it is still its own. *)
Done(w) ==
  /\ slot' = [slot EXCEPT ![w] = None]
  /\ job' = IF slot[w].j = None THEN job ELSE [job EXCEPT ![slot[w].j] = None]

Throw(w) ==
  LET j == slot[w].j IN
    /\ slot' = [slot EXCEPT ![w] = None]
    /\ job' = CASE j = None -> job
                [] j # None /\ job[j].left = 1 -> [job EXCEPT ![j] = None]
                [] OTHER -> [job EXCEPT ![j].active = FALSE, ![j].left = @ - 1]

(* Mutant of Read: an execution does not skip a completed run. *)
ReadAnyway(w) ==
  /\ slot[w] # None /\ slot[w].pc = "read"
  /\ IF Status(slot[w].r) = "gone" THEN Throw(w)
     ELSE /\ slot' = [slot EXCEPT ![w].pc = IF slot[w].kind = "verify" THEN "write" ELSE "start",
                                  ![w].archive = run[slot[w].r].archive]
          /\ job' = job
  /\ UNCHANGED <<run, request, made, commands, faults, passed, lost, once, undone>>

Read(w) ==
  /\ slot[w] # None /\ slot[w].pc = "read"
  /\ LET r == slot[w].r  kind == slot[w].kind IN
       \/ Status(r) = "gone" /\ Throw(w)
       \/ kind = "execute" /\ Status(r) = "completed" /\ Done(w)
       \/ /\ Status(r) # "gone" /\ ~(kind = "execute" /\ Status(r) = "completed")
          /\ slot' = [slot EXCEPT ![w].pc = IF kind = "verify" THEN "write" ELSE "start",
                                  ![w].archive = run[r].archive]
          /\ job' = job
  /\ UNCHANGED <<run, request, made, commands, faults, passed, lost, once, undone>>

(* A restore, too, sets the run running. *)
Start(w) ==
  /\ slot[w] # None /\ slot[w].pc = "start"
  /\ slot' = [slot EXCEPT ![w].pc = "write"]
  /\ run' = IF Status(slot[w].r) = "gone" THEN run ELSE [run EXCEPT ![slot[w].r].status = "running"]
  /\ UNCHANGED <<request, job, made, commands, faults, passed, lost, once, undone>>

(* The second write of slot w; an update of a deleted row fails unnoticed. *)
Writes(w, row) ==
  run' = IF Status(slot[w].r) = "gone" THEN run ELSE [run EXCEPT ![slot[w].r] = row]

Ends(w, kind) == slot[w] # None /\ slot[w].pc = "write" /\ slot[w].kind = kind

(* Executions of r that read it before it was completed. *)
Outrun(w) ==
  [v \in Slots |->
    IF v # w /\ slot[v] # None /\ slot[v].kind = "execute" /\ slot[v].pc # "read" /\ slot[v].r = slot[w].r
      THEN [slot[v] EXCEPT !.outrun = TRUE] ELSE slot[v]]

Undoes(w) == undone' = undone \cup (once \cap {slot[w].r})

(* Mutant of ExecuteFails: the error is thrown before the run is updated. *)
ExecuteThrows(w) ==
  /\ Ends(w, "execute")
  /\ Throw(w) /\ Undoes(w)
  /\ UNCHANGED <<run, request, made, commands, faults, passed, lost, once>>

(* The script fails, or makes no archive: its metadata forget the archive.   *)
ExecuteFails(w) ==
  /\ Ends(w, "execute")
  /\ Writes(w, [run[slot[w].r] EXCEPT !.status = "failed", !.archive = 0, !.verdict = "none"])
  /\ Throw(w) /\ Undoes(w)
  /\ UNCHANGED <<request, made, commands, faults, passed, lost, once>>

(* It makes an archive that does not pass its verification. *)
VerifyFails(w) ==
  /\ Ends(w, "execute") /\ made < MaxArchives
  /\ made' = made + 1
  /\ Writes(w, [run[slot[w].r] EXCEPT !.status = "failed", !.archive = made + 1, !.verdict = "failed"])
  /\ Throw(w) /\ Undoes(w)
  /\ UNCHANGED <<request, commands, faults, passed, lost, once>>

(* Mutant of Complete: it does not wait for the verification. *)
CompleteUnverified(w) ==
  /\ Ends(w, "execute") /\ made < MaxArchives
  /\ made' = made + 1
  /\ Writes(w, [run[slot[w].r] EXCEPT !.status = "completed", !.archive = made + 1, !.verdict = "none"])
  /\ slot' = [Outrun(w) EXCEPT ![w] = None]
  /\ job' = IF slot[w].j = None THEN job ELSE [job EXCEPT ![slot[w].j] = None]
  /\ Undoes(w) /\ once' = once \cup {slot[w].r}
  /\ UNCHANGED <<request, commands, faults, passed, lost>>

Complete(w) ==
  /\ Ends(w, "execute") /\ made < MaxArchives
  /\ made' = made + 1 /\ passed' = passed \cup {made + 1}
  /\ Writes(w, [run[slot[w].r] EXCEPT !.status = "completed", !.archive = made + 1, !.verdict = "verified"])
  /\ slot' = [Outrun(w) EXCEPT ![w] = None]
  /\ job' = IF slot[w].j = None THEN job ELSE [job EXCEPT ![slot[w].j] = None]
  /\ Undoes(w) /\ once' = once \cup {slot[w].r}
  /\ UNCHANGED <<request, commands, faults, lost>>

(* Only files can be restored: the script for anything else is not allowed,   *)
(* and a restore that fails makes the run a failed one.                       *)
Restore(w) ==
  /\ Ends(w, "restore")
  /\ LET r == slot[w].r IN
       \/ /\ run[r].file /\ slot[w].archive # 0
          /\ Writes(w, [run[r] EXCEPT !.status = "completed"])
          /\ slot' = [Outrun(w) EXCEPT ![w] = None]
       \/ /\ Writes(w, [run[r] EXCEPT !.status = "failed"])
          /\ slot' = [slot EXCEPT ![w] = None]
  /\ job' = IF slot[w].j = None THEN job ELSE [job EXCEPT ![slot[w].j] = None]
  /\ UNCHANGED <<request, made, commands, faults, passed, lost, once, undone>>

(* Mutant of Passes: the archive is not compared with the checksum.          *)
PassesAny(w) == TRUE

(* The archive to verify is the one of the checksum in the metadata that were *)
(* read, if they hold one.                                                    *)
Passes(w) == slot[w].archive \in {0, slot[w].path}

(* The verdict is written with the metadata as they were read.                *)
Verify(w) ==
  /\ Ends(w, "verify")
  /\ LET r == slot[w].r  row == [run[r] EXCEPT !.archive = slot[w].archive] IN
       \/ /\ Passes(w) /\ Writes(w, [row EXCEPT !.verdict = "verified"])
          /\ passed' = passed \cup {slot[w].path}
       \/ Writes(w, [row EXCEPT !.verdict = "failed"]) /\ passed' = passed
  /\ Done(w)
  /\ UNCHANGED <<request, made, commands, faults, lost, once, undone>>

(* The first write fails and the error is swallowed: the job goes on. *)
StartUnseen(w) ==
  /\ Fault
  /\ slot[w] # None /\ slot[w].pc = "start"
  /\ slot' = [slot EXCEPT ![w].pc = "write"]
  /\ UNCHANGED <<run, request, job, made, commands, passed, lost, once, undone>>

(* The second write fails and the error is swallowed: an execution that had   *)
(* succeeded, a restore and a verification are done all the same.             *)
Swallow(w) ==
  /\ Fault
  /\ slot[w] # None /\ slot[w].pc = "write"
  /\ \/ Done(w)
     \/ slot[w].kind = "execute" /\ Throw(w)
  /\ lost' = lost \cup {slot[w].r}
  /\ UNCHANGED <<run, request, made, commands, passed, once, undone>>

-----------------------------------------------------------------------------
(* The queue *)

(* A slot that lost its job to another leaves what it had begun.              *)
Crash(w) ==
  /\ Fault
  /\ slot[w] # None
  /\ slot' = [slot EXCEPT ![w] = None]
  /\ lost' = IF slot[w].j = None THEN lost \cup {slot[w].r} ELSE lost
  /\ UNCHANGED <<run, request, job, made, commands, passed, once, undone>>

(* A job whose lock was not renewed is delivered once more, then given up.    *)
Redeliver(j) ==
  /\ job[j] # None /\ job[j].active
  /\ IF job[j].stalled
       THEN job' = [job EXCEPT ![j] = None] /\ lost' = lost \cup {job[j].r}
       ELSE job' = [job EXCEPT ![j].active = FALSE, ![j].stalled = TRUE] /\ lost' = lost
  /\ slot' = [w \in Slots |-> IF slot[w] # None /\ slot[w].j = j THEN [slot[w] EXCEPT !.j = None] ELSE slot[w]]
  /\ UNCHANGED <<run, request, made, commands, passed, once, undone>>

Stall(j) == Held(j) /\ Fault /\ Redeliver(j)
Recover(j) == ~Held(j) /\ Redeliver(j) /\ UNCHANGED faults

-----------------------------------------------------------------------------
Work(w) ==
  \/ Take(w) \/ Read(w) \/ Start(w) \/ ExecuteFails(w) \/ VerifyFails(w) \/ Complete(w)
  \/ Restore(w) \/ Verify(w)

Next ==
  \/ \E q \in Requests :
       \/ Trigger(q) \/ Enqueue(q) \/ EnqueueFails(q)
       \/ \E r \in Runs, kind \in {"restore", "verify"} : Order(q, r, kind)
  \/ \E r \in Runs : Delete(r)
  \/ \E w \in Slots : Work(w) \/ StartUnseen(w) \/ Swallow(w) \/ Crash(w)
  \/ \E j \in Jobs : Stall(j) \/ Recover(j)

Spec == Init /\ [][Next]_vars

(* Requests go on, slots work, and the queue looks for stalled jobs.          *)
Fairness ==
  /\ \A q \in Requests : WF_vars(Enqueue(q))
  /\ \A w \in Slots : WF_vars(Work(w))
  /\ \A j \in Jobs : WF_vars(Recover(j))

-----------------------------------------------------------------------------
(* Types of the rows, the queue and the slots. *)
TypeOK ==
  /\ run \in [Runs -> [status : Statuses, file : BOOLEAN, archive : 0..MaxArchives,
                       verdict : {"none", "verified", "failed"}]]
  /\ request \in [Requests -> [kind : Kinds, r : Runs, path : 0..MaxArchives] \cup {None}]
  /\ job \in [Jobs -> [kind : Kinds, r : Runs, path : 0..MaxArchives, left : 1..Attempts,
                       active : BOOLEAN, stalled : BOOLEAN] \cup {None}]
  /\ slot \in [Slots -> [pc : {"read", "start", "write"}, kind : Kinds, r : Runs,
                         path : 0..MaxArchives, j : Jobs \cup {None},
                         archive : 0..MaxArchives, outrun : BOOLEAN] \cup {None}]
  /\ made \in 0..MaxArchives /\ commands \in Nat /\ faults \in Nat
  /\ passed \in SUBSET (1..MaxArchives) /\ lost \in SUBSET Runs
  /\ once \in SUBSET Runs /\ undone \in SUBSET Runs

(* processors.ts:391, "idempotent skip": a restore point stays one until it   *)
(* is deleted, restored (processors.ts:309 sets it running, and failed for    *)
(* good if the restore fails) or written by an execution that was outrun.     *)
Unmaking ==
  \A r \in Runs : Status(r) = "completed" /\ run'[r].status \notin {"completed", "gone"} =>
    \E w \in Slots : slot[w] # None /\ slot[w].r = r /\ (slot[w].kind = "restore" \/ slot[w].outrun)
RestorePointKept == [][Unmaking]_vars

(* A run that is asked for, or restored, ends: it stays pending or running    *)
(* only when it was never queued, a second write failed unnoticed, its job    *)
(* stalled twice, or a slot crashed after its job was delivered again.        *)
Settled(r) == Status(r) \notin {"pending", "running"}
RunSettles == \A r \in Runs : []<>(Settled(r) \/ r \in lost)
=============================================================================

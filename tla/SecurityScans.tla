---------------------------- MODULE SecurityScans ----------------------------
(* The security scans that users ask of one device, and what becomes of the    *)
(* findings.  The agent polls, collects and answers; the gateway checks that   *)
(* the scan is pending, twice, completes it, stores the findings and the score *)
(* and queues one job for the scan and one for each severe finding; the worker *)
(* raises alerts.  A call the agent gives up after 30 s may still be served.   *)
(*                                                                             *)
(* Abstracted: an answer has one severe finding, critical or high, or none;    *)
(* the two alert rules exist and are enabled; nobody but the retention job     *)
(* deletes scans, after months.                                                *)
EXTENDS Integers, FiniteSets, SevereAlerts

CONSTANTS
  Scans,      \* scan ids, numbered in the order of creation
  Openers,    \* requests of users that ask for a scan
  Answers,    \* calls of the agent that complete a scan, numbered in their order
  Slots,      \* of the workers
  Attempts,   \* runs of a job that may throw (3 in the code)
  MaxFaults,  \* bound: calls given up, failed statements, dead workers
  None

VARIABLES
  scan,       \* table SecurityScan: status
  opening,    \* requests that found no pending scan
  todo,       \* the scans of the agent's last poll still to do
  call,       \* of each answer: the gateway's side of it
  current,    \* the answer the agent waits for, or None
  finding,    \* table SecurityFinding: answer -> severity, None when not stored
  scored,     \* scans that have a score (unique)
  job,        \* of the queue: of each answer, its scan's job and its finding's
  slot,       \* what each slot runs
  faults,
  cut         \* history: answers and jobs lost by a fault the code does not make up for

agentVars == <<todo, current>>
gatewayVars == <<scan, call, finding, scored>>
workerVars == <<slot, raised, beside>>
vars == <<agentVars, gatewayVars, workerVars, opening, job, faults, cut>>

Kinds == {"scan", "finding"}
Severities == {"critical", "high", "none"}
Jobs == Kinds \X Answers
Unmade == [pc |-> "unmade", s |-> None, sev |-> None]
NoJob == [st |-> "none", by |-> None, throws |-> 0, stalled |-> FALSE]
Free == [pc |-> "free", j |-> None, sees |-> {}]

Init ==
  /\ scan = [s \in Scans |-> "none"]
  /\ opening = {} /\ todo = {} /\ current = None
  /\ call = [a \in Answers |-> Unmade]
  /\ finding = [a \in Answers |-> None] /\ scored = {}
  /\ job = [j \in Jobs |-> NoJob] /\ slot = [w \in Slots |-> Free]
  /\ raised = [j \in Jobs |-> 0]
  /\ faults = 0 /\ beside = {} /\ cut = {}

Fail == faults < MaxFaults /\ faults' = faults + 1
Pending == {s \in Scans : scan[s] = "pending"}

-----------------------------------------------------------------------------
(* createPendingScan: a pending scan is returned, not asked again. *)

FindPending(o) ==
  /\ o \notin opening /\ Pending = {}
  /\ opening' = opening \cup {o}
  /\ UNCHANGED <<agentVars, gatewayVars, workerVars, job, faults, cut>>

Create(o) ==
  /\ o \in opening /\ opening' = opening \ {o}
  /\ \E s \in Scans :
       /\ scan[s] = "none" /\ \A r \in Scans : r < s => scan[r] # "none"
       /\ scan' = [scan EXCEPT ![s] = "pending"]
  /\ UNCHANGED <<agentVars, call, finding, scored, workerVars, job, faults, cut>>

-----------------------------------------------------------------------------
(* The agent: poll_pending_security_scans. *)

Poll ==
  /\ todo = {} /\ current = None
  /\ todo' = Pending
  /\ UNCHANGED <<current, gatewayVars, workerVars, opening, job, faults, cut>>

(* It collects findings and answers; the scan must still be pending. *)
Answer(s, sev) ==
  /\ current = None /\ s \in todo
  /\ \E a \in Answers :
       /\ call[a] = Unmade /\ \A b \in Answers : b < a => call[b] # Unmade
       /\ current' = a
       /\ call' = [call EXCEPT ![a] = [pc |-> IF s \in Pending THEN "owned" ELSE "over",
                                       s |-> s, sev |-> sev]]
  /\ todo' = todo \ {s}
  /\ UNCHANGED <<scan, finding, scored, workerVars, opening, job, faults, cut>>

Answered ==
  /\ current # None /\ call[current].pc = "over"
  /\ current' = None
  /\ UNCHANGED <<todo, gatewayVars, workerVars, opening, job, faults, cut>>

(* However an answer went, the agent only logs it. *)
GiveUp ==
  /\ current # None /\ call[current].pc # "over" /\ Fail
  /\ current' = None
  /\ UNCHANGED <<todo, gatewayVars, workerVars, opening, job, cut>>

-----------------------------------------------------------------------------
(* completePendingScan, one statement a step. *)

At(a, pc) == call[a].pc = pc
Goto(a, pc) == call' = [call EXCEPT ![a].pc = pc]
Waiting == [NoJob EXCEPT !.st = "waiting"]

Recheck(a) ==
  /\ At(a, "owned")
  /\ Goto(a, IF call[a].s \in Pending THEN "complete" ELSE "over")
  /\ UNCHANGED <<scan, finding, scored, job>>

Complete(a) ==
  /\ At(a, "complete")
  /\ scan' = [scan EXCEPT ![call[a].s] = "completed"]
  /\ Goto(a, "store")
  /\ UNCHANGED <<finding, scored, job>>

Store(a) ==
  /\ At(a, "store")
  /\ finding' = [finding EXCEPT ![a] = call[a].sev]
  /\ Goto(a, "score")
  /\ UNCHANGED <<scan, scored, job>>

(* A scan has one score: the second answer to one throws here. *)
Second(a) == At(a, "score") /\ call[a].s \in scored
Score(a) ==
  /\ At(a, "score")
  /\ scored' = scored \cup {call[a].s}
  /\ Goto(a, IF Second(a) THEN "over" ELSE "queue scan")
  /\ UNCHANGED <<scan, finding, job>>

QueueScan(a) ==
  /\ At(a, "queue scan")
  /\ job' = [job EXCEPT ![<<"scan", a>>] = Waiting]
  /\ Goto(a, IF call[a].sev = "none" THEN "over" ELSE "queue finding")
  /\ UNCHANGED <<scan, finding, scored>>

(* Mutant of QueueFinding: high findings are left to the scan's job. *)
QueueCritical(a) ==
  /\ At(a, "queue finding")
  /\ job' = IF call[a].sev = "critical" THEN [job EXCEPT ![<<"finding", a>>] = Waiting] ELSE job
  /\ Goto(a, "over")
  /\ UNCHANGED <<scan, finding, scored>>

QueueFinding(a) ==
  /\ At(a, "queue finding")
  /\ job' = [job EXCEPT ![<<"finding", a>>] = Waiting]
  /\ Goto(a, "over")
  /\ UNCHANGED <<scan, finding, scored>>

Serve(a) ==
  /\ Recheck(a) \/ Complete(a) \/ Store(a) \/ Score(a) \/ QueueScan(a) \/ QueueFinding(a)
  /\ cut' = IF Second(a) THEN cut \cup {a} ELSE cut
  /\ UNCHANGED <<agentVars, workerVars, opening, faults>>

(* A statement throws, the queue cannot be reached or the gateway stops.  What *)
(* was completed before is not asked of the agent again.                       *)
ServeFails(a) ==
  /\ call[a].pc \notin {"unmade", "over"} /\ Fail
  /\ Goto(a, "over")
  /\ cut' = cut \cup {a}
  /\ UNCHANGED <<agentVars, scan, finding, scored, workerVars, opening, job>>

-----------------------------------------------------------------------------
(* The worker: processSecurityJob. *)

Kind(w) == slot[w].j[1]
Of(w) == slot[w].j[2]
Holds(w) == job[slot[w].j].by = w
Keep(w) == job' = IF Holds(w) THEN [job EXCEPT ![slot[w].j] = [@ EXCEPT !.st = "kept", !.by = None]]
                  ELSE job
Run(w, next) == slot' = [slot EXCEPT ![w] = next]
workerRest == <<agentVars, gatewayVars, opening>>

Take(w) ==
  /\ slot[w] = Free
  /\ \E j \in Jobs :
       /\ job[j].st = "waiting"
       /\ job' = [job EXCEPT ![j].st = "active", ![j].by = w]
       /\ Run(w, [pc |-> "read", j |-> j, sees |-> {}])
  /\ UNCHANGED <<workerRest, raised, beside, faults, cut>>

(* Mutant of ToAlert: the finding's job does not look for its alert. *)
ToAlertAgain(k, a) ==
  IF k = "scan" THEN {b \in Answers : finding[b] = "critical" /\ call[b].s = call[a].s} ELSE {a}

(* The scan's job sees every critical finding of the scan, two answers' when   *)
(* two were stored, whether alerted before or not; the finding's job its own,  *)
(* unless it has an alert.                                                     *)
ToAlert(k, a) ==
  IF k = "scan" THEN {b \in Answers : finding[b] = "critical" /\ call[b].s = call[a].s}
  ELSE IF raised[<<k, a>>] > 0 THEN {} ELSE {a}

Read(w) ==
  /\ slot[w].pc = "read"
  /\ Run(w, [slot[w] EXCEPT !.pc = "alert", !.sees = ToAlert(Kind(w), Of(w))])
  /\ UNCHANGED <<workerRest, job, raised, beside, faults, cut>>

Raise(w) ==
  /\ slot[w].pc = "alert"
  /\ \E a \in slot[w].sees :
       /\ raised' = [raised EXCEPT ![<<Kind(w), a>>] = @ + 1]
       /\ Run(w, [slot[w] EXCEPT !.sees = @ \ {a}])
  /\ UNCHANGED <<workerRest, job, beside, faults, cut>>

(* After the webhook, whose failure is only logged. *)
Finish(w) ==
  /\ slot[w].pc = "alert" /\ slot[w].sees = {}
  /\ Run(w, Free) /\ Keep(w)
  /\ UNCHANGED <<workerRest, raised, beside, faults, cut>>

Throw(w) ==
  LET j == slot[w].j IN
  /\ slot[w] # Free /\ Holds(w) /\ Fail
  /\ Run(w, Free)
  /\ IF job[j].throws + 1 < Attempts
       THEN job' = [job EXCEPT ![j].st = "waiting", ![j].by = None, ![j].throws = @ + 1]
            /\ cut' = cut
       ELSE Keep(w) /\ cut' = cut \cup {j[2]}
  /\ UNCHANGED <<workerRest, raised, beside>>

(* The job's lock runs out: its worker died, or goes on beside the next run.   *)
(* The second time the job has failed.                                         *)
Stall(w, dead) ==
  LET j == slot[w].j IN
  /\ slot[w] # Free /\ Holds(w) /\ Fail
  /\ slot' = IF dead THEN [slot EXCEPT ![w] = Free] ELSE slot
  /\ beside' = IF dead THEN beside ELSE beside \cup {j}
  /\ IF job[j].stalled THEN Keep(w) /\ cut' = cut \cup {j[2]}
     ELSE /\ job' = [job EXCEPT ![j] = [@ EXCEPT !.st = "waiting", !.by = None, !.stalled = TRUE]]
          /\ cut' = cut
  /\ UNCHANGED <<workerRest, raised>>

-----------------------------------------------------------------------------
Work(w) == Take(w) \/ Read(w) \/ Raise(w) \/ Finish(w)

Next ==
  \/ \E o \in Openers : FindPending(o) \/ Create(o)
  \/ Poll \/ Answered \/ GiveUp
  \/ \E s \in Scans, sev \in Severities : Answer(s, sev)
  \/ \E a \in Answers : Serve(a) \/ ServeFails(a)
  \/ \E w \in Slots : Work(w) \/ Throw(w) \/ \E dead \in BOOLEAN : Stall(w, dead)

Spec == Init /\ [][Next]_vars

(* The gateway serves the calls it has, workers take what waits. *)
Fairness ==
  /\ \A a \in Answers : WF_vars(Serve(a))
  /\ \A w \in Slots : WF_vars(Work(w))

-----------------------------------------------------------------------------
(* Types of the tables, the calls and the queue. *)
TypeOK ==
  /\ scan \in [Scans -> {"none", "pending", "completed"}]
  /\ opening \in SUBSET Openers /\ todo \in SUBSET Scans
  /\ current \in Answers \cup {None}
  /\ call \in [Answers -> [pc : {"unmade", "owned", "complete", "store", "score",
                                 "queue scan", "queue finding", "over"},
                           s : Scans \cup {None}, sev : Severities \cup {None}]]
  /\ finding \in [Answers -> Severities \cup {None}]
  /\ scored \in SUBSET Scans
  /\ job \in [Jobs -> [st : {"none", "waiting", "active", "kept"}, by : Slots \cup {None},
                       throws : 0..Attempts, stalled : BOOLEAN]]
  /\ slot \in [Slots -> [pc : {"free", "read", "alert"}, j : Jobs \cup {None},
                         sees : SUBSET Answers]]
  /\ raised \in [Jobs -> Nat]
  /\ faults \in 0..MaxFaults /\ beside \in SUBSET Jobs /\ cut \in SUBSET Answers

(* security.service.ts:217: every severe finding stored is alerted in the end, *)
(* whichever runs of its job fail; but not those of a second answer to a scan, *)
(* and a fault between the completion and the last job is final, the agent is  *)
(* not asked again.                                                            *)
Unalerted ==
  \E a \in Answers \ cut : finding[a] \in {"critical", "high"} /\ raised[<<"finding", a>>] = 0
SevereIsAlerted == []<>~Unalerted
=============================================================================

------------------------------ MODULE Inventory ------------------------------
(* The inventory of one machine.  Its agent collects what is installed every   *)
(* few hours, or when a poll finds that a user asked for it, and reports it if *)
(* it changed.  The gateway queues a report under an id made of its hash, so   *)
(* the queue ignores one that it still has, and takes back what users asked;   *)
(* the worker writes the rows.  The mark that users set lives in the device's  *)
(* metadata; it is taken back by reading and then writing it, by whoever       *)
(* believes that it was served or is ten minutes old.                          *)
(*                                                                             *)
(* Abstracted: a report is the version of one item.  The rows are those of the *)
(* organization, one per name; here no other machine reports that name.        *)
EXTENDS Integers, FiniteSets, RefreshMark

CONSTANTS
  Versions,   \* of the item
  Requests,   \* refresh requests of users
  Slots,      \* of the workers
  Attempts,   \* runs of a job that may throw (3 in the code)
  MaxChanges, MaxRefreshes, MaxFaults,  \* bounds: installs, refreshes, faults
  None

VARIABLES
  machine,    \* the version installed
  barred,     \* the agent runs with its enrolment token (TF_ORG_TOKEN)
  agent,      \* the agent and the call it waits for
  uploaded,   \* the version of its last accepted report, in memory
  late,       \* a call it gave up, still served
  aged,       \* the mark (flag) was set ten minutes ago
  request,    \* of each refresh request: where it is
  job,        \* of the queue, by version
  slot,       \* what each slot runs
  row,        \* the version shown, and the last report written to it
  changes, refreshes, faults,
  reports, latest,   \* history: reports made; the last one queued of each version
  overtaken,  \* history: the row was last written from an older report
  missed,     \* history: versions whose last report was ignored, its job being
              \* over, or never made, the one in between being accepted unknown
  cut         \* history: a report that failed in the worker

machineVars == <<machine, changes, reports>>
flagVars == <<flag, aged, request, refreshes, asked, overlapped>>
queueVars == <<job, slot, row, latest, overtaken, missed, cut>>
vars == <<machineVars, barred, agent, uploaded, late, flagVars, queueVars, faults>>

(* clears: how often the mark is still to be taken back before the agent is    *)
(* done, by the gateway when it has queued the report, by the agent after it,  *)
(* and again after a collection that was asked.                                *)
AgentIdle == [pc |-> "idle", v |-> None, n |-> 0, cmd |-> FALSE, sent |-> FALSE, clears |-> 0]
NoJob == [st |-> "none", by |-> None, throws |-> 0]

Init ==
  /\ machine \in Versions /\ changes = 0 /\ barred \in BOOLEAN
  /\ agent = AgentIdle /\ uploaded = None /\ late = None
  /\ flag = FALSE /\ aged = FALSE /\ request = [u \in Requests |-> "idle"]
  /\ refreshes = 0 /\ asked = FALSE /\ overlapped = FALSE
  /\ job = [v \in Versions |-> NoJob] /\ slot = [w \in Slots |-> None]
  /\ row = [v |-> None, n |-> 0] /\ reports = 0
  /\ latest = [v \in Versions |-> 0] /\ missed = {} /\ overtaken = FALSE /\ cut = FALSE
  /\ faults = 0

Fail == faults < MaxFaults /\ faults' = faults + 1
Later(m, n) == IF m > n THEN m ELSE n
To(next) == agent' = next

-----------------------------------------------------------------------------
(* The machine and the users. *)

Install(v) ==
  /\ v # machine /\ changes < MaxChanges
  /\ machine' = v /\ changes' = changes + 1
  /\ UNCHANGED <<reports, barred, agent, uploaded, late, flagVars, queueVars, faults>>

(* getPendingInventoryFlag *)
Refresh(u) ==
  /\ request[u] = "idle" /\ refreshes < MaxRefreshes
  /\ refreshes' = refreshes + 1
  /\ request' = [request EXCEPT ![u] = IF ~flag THEN "set" ELSE IF aged THEN "clear" ELSE "idle"]
  /\ UNCHANGED <<machineVars, barred, agent, uploaded, late, flag, aged, asked, overlapped, queueVars, faults>>

ClearOld(u) ==
  /\ request[u] = "clear"
  /\ request' = [request EXCEPT ![u] = IF flag THEN "wipe" ELSE "set"]
  /\ UNCHANGED <<machineVars, barred, agent, uploaded, late, flag, aged, refreshes, asked, overlapped, queueVars, faults>>

WipeOld(u) ==
  /\ request[u] = "wipe"
  /\ request' = [request EXCEPT ![u] = "set"]
  /\ flag' = FALSE /\ aged' = FALSE
  /\ UNCHANGED <<machineVars, barred, agent, uploaded, late, refreshes, asked, overlapped, queueVars, faults>>

Clearing == agent.pc = "send" \/ agent.clears > 0 \/ late # None \/
            \E u \in Requests : request[u] \in {"clear", "wipe"}

SetPending(u) ==
  /\ request[u] = "set"
  /\ request' = [request EXCEPT ![u] = "idle"]
  /\ flag' = TRUE /\ aged' = FALSE
  /\ asked' = TRUE /\ overlapped' = Clearing
  /\ UNCHANGED <<machineVars, barred, agent, uploaded, late, refreshes, queueVars, faults>>

(* Ten minutes: a refresh is kept no longer. *)
Age ==
  /\ flag /\ ~aged
  /\ aged' = TRUE /\ asked' = FALSE
  /\ UNCHANGED <<machineVars, barred, agent, uploaded, late, flag, request, refreshes, overlapped, queueVars, faults>>

-----------------------------------------------------------------------------
(* The agent, and the gateway that serves its call. *)

(* Mutant of Check: the mark is taken back when the agent is told of it. *)
CheckOnce ==
  /\ agent.pc = "idle" /\ flag
  /\ To(IF aged THEN [AgentIdle EXCEPT !.pc = "clear", !.clears = 1]
        ELSE [AgentIdle EXCEPT !.pc = "collect", !.cmd = TRUE])
  /\ flag' = FALSE
  /\ UNCHANGED <<machineVars, barred, uploaded, late, aged, request, refreshes, asked, overlapped, queueVars, faults>>

Check ==
  /\ agent.pc = "idle" /\ flag
  /\ To(IF aged THEN [AgentIdle EXCEPT !.pc = "clear", !.clears = 1]
        ELSE [AgentIdle EXCEPT !.pc = "collect", !.cmd = TRUE])
  /\ UNCHANGED <<machineVars, barred, uploaded, late, flagVars, queueVars, faults>>

(* collect_and_send_inventory: what did not change is not reported.  (The     *)
(* history counts the reports that may be accepted.)                          *)
Collect ==
  /\ agent.pc \in {"idle", "collect"}
  /\ LET extra == IF agent.cmd THEN 1 ELSE 0 IN
     To(IF machine # uploaded
          THEN [agent EXCEPT !.pc = "send", !.v = machine, !.n = reports + 1,
                             !.sent = TRUE, !.clears = 2 + extra]
        ELSE IF agent.cmd THEN [agent EXCEPT !.pc = "clear", !.clears = 1]
        ELSE AgentIdle)
  /\ asked' = FALSE /\ reports' = IF machine # uploaded /\ ~barred THEN reports + 1 ELSE reports
  /\ missed' = IF machine = uploaded /\ \E v \in Versions : latest[v] > latest[machine]
                 THEN missed \cup {machine} ELSE missed
  /\ UNCHANGED <<machine, changes, barred, uploaded, late, flag, aged, request, refreshes, overlapped,
                 job, slot, row, latest, overtaken, cut, faults>>

(* addInventoryIngest *)
Enqueued(v, n) ==
  /\ latest' = [latest EXCEPT ![v] = Later(n, @)]
  /\ IF job[v].st = "none"
       THEN job' = [job EXCEPT ![v].st = "waiting"] /\ missed' = missed \ {v}
       ELSE job' = job /\ missed' = IF job[v].st = "kept" THEN missed \cup {v} ELSE missed
  /\ UNCHANGED <<slot, row, overtaken, cut>>

Send ==
  /\ agent.pc = "send" /\ ~barred
  /\ Enqueued(agent.v, agent.n)
  /\ To([agent EXCEPT !.pc = "clear"])
  /\ UNCHANGED <<machineVars, barred, uploaded, late, flagVars, faults>>

(* A report that fails is not uploaded, but a command is cleared all the same. *)
Failed ==
  To(IF agent.cmd /\ agent.clears > 1
       THEN [agent EXCEPT !.pc = "clear", !.clears = 1, !.sent = FALSE] ELSE AgentIdle)

(* The agent sends its enrolment token as X-Org-Id, which the gateway takes    *)
(* for another organization's name: it queues nothing.                         *)
Refuse ==
  /\ agent.pc = "send" /\ barred
  /\ Failed
  /\ UNCHANGED <<machineVars, barred, uploaded, late, flagVars, queueVars, faults>>

(* One clear is done: the first after a report is part of its answer. *)
Cleared ==
  /\ To(IF agent.clears > 1 THEN [agent EXCEPT !.pc = "clear", !.clears = @ - 1, !.sent = FALSE]
        ELSE AgentIdle)
  /\ uploaded' = IF agent.sent THEN agent.v ELSE uploaded

(* clearPendingInventory reads, *)
Clear ==
  /\ agent.pc = "clear"
  /\ IF flag THEN To([agent EXCEPT !.pc = "wipe"]) /\ uploaded' = uploaded ELSE Cleared
  /\ UNCHANGED <<machineVars, barred, late, flagVars, queueVars, faults>>

(* and then writes the metadata it read without the mark. *)
Wipe ==
  /\ agent.pc = "wipe"
  /\ flag' = FALSE /\ aged' = FALSE
  /\ Cleared
  /\ UNCHANGED <<machineVars, barred, late, request, refreshes, asked, overlapped, queueVars, faults>>

InCall == agent.pc \in {"send", "clear", "wipe"}
Call == [pc |-> agent.pc, v |-> agent.v, n |-> agent.n]

(* What a call that is given up still does: nothing, if it is refused. *)
Served == IF agent.pc = "send" /\ barred THEN None ELSE Call

(* The call is given up, served or not. *)
GiveUp ==
  /\ InCall /\ late = None /\ Fail
  /\ late' \in {Served, None}
  /\ Failed
  /\ UNCHANGED <<machineVars, barred, uploaded, flagVars, queueVars>>

(* It is started again, as a service or with a token. *)
AgentRestart ==
  /\ agent # AgentIdle \/ uploaded # None \/ barred
  /\ Fail
  /\ To(AgentIdle) /\ uploaded' = None
  /\ barred' \in BOOLEAN
  /\ late' = IF late = None /\ InCall THEN Served ELSE late
  /\ UNCHANGED <<machineVars, flagVars, queueVars>>

(* What was given up is served. *)
LateSend ==
  /\ late # None /\ late.pc = "send"
  /\ Enqueued(late.v, late.n)
  /\ late' = [late EXCEPT !.pc = "clear"]
  /\ UNCHANGED <<machineVars, barred, agent, uploaded, flagVars, faults>>

LateClear ==
  /\ late # None /\ late.pc = "clear"
  /\ late' = IF flag THEN [late EXCEPT !.pc = "wipe"] ELSE None
  /\ UNCHANGED <<machineVars, barred, agent, uploaded, flagVars, queueVars, faults>>

LateWipe ==
  /\ late # None /\ late.pc = "wipe"
  /\ late' = None
  /\ flag' = FALSE /\ aged' = FALSE
  /\ UNCHANGED <<machineVars, barred, agent, uploaded, request, refreshes, asked, overlapped, queueVars, faults>>

-----------------------------------------------------------------------------
(* The worker: processInventoryJob. *)

others == <<machineVars, barred, agent, uploaded, late, flagVars, latest, missed>>

Take(w) ==
  /\ slot[w] = None
  /\ \E v \in Versions :
       /\ job[v].st = "waiting"
       /\ job' = [job EXCEPT ![v].st = "active", ![v].by = w]
       /\ slot' = [slot EXCEPT ![w] = v]
  /\ UNCHANGED <<others, row, overtaken, faults, cut>>

Free(w) == slot' = [slot EXCEPT ![w] = None]
Over(w) ==
  LET v == slot[w] IN
  job' = IF job[v].by = w THEN [job EXCEPT ![v].st = "kept", ![v].by = None] ELSE job

(* Mutant of Upsert: a row that exists is left as it is. *)
Insert(w) ==
  /\ slot[w] # None /\ Free(w) /\ Over(w)
  /\ row' = IF row.v = None THEN [v |-> slot[w], n |-> latest[slot[w]]] ELSE row
  /\ UNCHANGED <<others, overtaken, faults, cut>>

(* The row is written, whichever report it shows. *)
Upsert(w) ==
  /\ slot[w] # None /\ Free(w) /\ Over(w)
  /\ row' = [v |-> slot[w], n |-> Later(latest[slot[w]], row.n)]
  /\ overtaken' = (latest[slot[w]] < row.n)
  /\ UNCHANGED <<others, faults, cut>>

(* An item that cannot be written is skipped; the job still completes. *)
ItemFails(w) ==
  /\ slot[w] # None /\ Fail
  /\ Free(w) /\ Over(w) /\ cut' = TRUE
  /\ UNCHANGED <<others, row, overtaken>>

(* The device cannot be looked up: the job is tried again, Attempts times. *)
Throw(w) ==
  LET v == slot[w] IN
  /\ v # None /\ job[v].by = w /\ Fail
  /\ Free(w)
  /\ IF job[v].throws + 1 < Attempts
       THEN /\ job' = [job EXCEPT ![v] = [st |-> "waiting", by |-> None, throws |-> @.throws + 1]]
            /\ cut' = cut
       ELSE Over(w) /\ cut' = TRUE
  /\ UNCHANGED <<others, row, overtaken>>

(* The job's lock runs out; its slot is dead, or goes on beside the next run. *)
Stall(w) ==
  LET v == slot[w] IN
  /\ v # None /\ job[v].by = w /\ Fail
  /\ slot' \in {slot, [slot EXCEPT ![w] = None]}
  /\ job' = [job EXCEPT ![v].st = "waiting", ![v].by = None]
  /\ UNCHANGED <<others, row, overtaken, cut>>

(* A hundred other jobs are done. *)
Evict(v) ==
  /\ job[v].st = "kept"
  /\ job' = [job EXCEPT ![v] = NoJob]
  /\ UNCHANGED <<others, slot, row, overtaken, faults, cut>>

-----------------------------------------------------------------------------
AgentStep == Check \/ Collect \/ Send \/ Refuse \/ Clear \/ Wipe
LateStep == LateSend \/ LateClear \/ LateWipe
RefreshStep(u) == ClearOld(u) \/ WipeOld(u) \/ SetPending(u)
Work(w) == Take(w) \/ Upsert(w)

Next ==
  \/ \E v \in Versions : Install(v) \/ Evict(v)
  \/ \E u \in Requests : Refresh(u) \/ RefreshStep(u)
  \/ Age \/ AgentStep \/ GiveUp \/ AgentRestart \/ LateStep
  \/ \E w \in Slots : Work(w) \/ ItemFails(w) \/ Throw(w) \/ Stall(w)

Spec == Init /\ [][Next]_vars

(* The agent goes on collecting and polling, workers take what waits. *)
Fairness == WF_vars(AgentStep) /\ \A w \in Slots : WF_vars(Work(w))

-----------------------------------------------------------------------------
(* Types of the machine, the mark, the calls and the queue. *)
TypeOK ==
  /\ machine \in Versions /\ changes \in 0..MaxChanges
  /\ agent \in [pc : {"idle", "collect", "send", "clear", "wipe"}, v : Versions \cup {None}, n : Nat,
                cmd : BOOLEAN, sent : BOOLEAN, clears : 0..3]
  /\ uploaded \in Versions \cup {None}
  /\ late \in [pc : {"send", "clear", "wipe"}, v : Versions \cup {None}, n : Nat] \cup {None}
  /\ {barred, flag, aged, asked, overlapped, overtaken, cut} \subseteq BOOLEAN
  /\ request \in [Requests -> {"idle", "clear", "wipe", "set"}]
  /\ refreshes \in 0..MaxRefreshes /\ faults \in 0..MaxFaults /\ reports \in Nat
  /\ job \in [Versions -> [st : {"none", "waiting", "active", "kept"},
                           by : Slots \cup {None}, throws : 0..Attempts]]
  /\ slot \in [Slots -> Versions \cup {None}]
  /\ row \in [v : Versions \cup {None}, n : Nat]
  /\ latest \in [Versions -> Nat] /\ missed \in SUBSET Versions

(* queue.service.ts:167: reports are queued by their hash, and their jobs run  *)
(* beside each other.  What is installed comes to be shown, whatever calls,    *)
(* agents and workers fail - but for an agent that goes on running with its    *)
(* enrolment token (inventory.controller.ts:33 refuses its reports), a report  *)
(* like an earlier one whose job the queue still keeps, one overtaken by an    *)
(* older one, and one that failed in the worker.                               *)
Behind == row.v # machine /\ ~barred /\ machine \notin missed /\ ~overtaken /\ ~cut
InstalledIsShown == []<>~Behind
=============================================================================

--------------------------- MODULE ReportSchedule ---------------------------
(***************************************************************************)
(* Scheduled reports: report-schedule-executor.service.ts, run by a cron   *)
(* every minute on every API instance, against the schedule CRUD of        *)
(* reporting.service.ts.  A tick discovers the due schedules and for each  *)
(* one loads the row, takes a Redis lock on the occurrence, claims the     *)
(* occurrence by a compare-and-set of nextRunAt, generates the report and  *)
(* releases the lock.  Ticks overlap, within one instance too: the cron    *)
(* does not wait for the tick before.                                      *)
(*                                                                         *)
(* Abstracted: time is a count of cron resolutions and a cron expression   *)
(* is its period; the formats of a schedule are one generation that        *)
(* succeeds (at least one format did) or fails; the lock's TTL is a step   *)
(* that may run out at any time.                                           *)
(***************************************************************************)
EXTENDS Integers, FiniteSets

CONSTANTS
  Schedules,  \* identities of ReportSchedule rows
  Ticks,      \* executor ticks in flight, over all API instances
  Edits,      \* PATCH requests in flight
  Crons,      \* cron expressions, as periods
  Batch,      \* how many schedules one discovery returns (50 in the code)
  MaxTime,    \* bound: when the clock stops
  MaxEdits,   \* bound: edits made
  MaxFaults,  \* bound: crashes and failed calls
  None        \* null

ASSUME CronAssumption == Crons \in SUBSET (Nat \ {0})
ASSUME BoundAssumption ==
  Batch \in Nat \ {0} /\ MaxTime \in Nat /\ MaxEdits \in Nat /\ MaxFaults \in Nat
ASSUME NoneAssumption ==
  None \notin Schedules \cup Ticks \cup Nat \cup BOOLEAN

VARIABLES
  now,        \* the wall clock
  rows,       \* identities present in the ReportSchedule table
  used,       \* identities ever created
  cron, enabled, nextRunAt,   \* columns of the table
  lastRunAt,  \* schedules whose lastRunAt is set (only shown to users)
  lock,       \* Redis: set of [s, occ, by], by = None once its owner died
  tick,       \* executor ticks
  edit,       \* PATCH requests between their read and their update
  edits, faults,                         \* counts, for the bounds
  claims,     \* history: [s, occ, at], the first claim of each occurrence
  repeated,   \* history: occurrences claimed more than once
  rewound,    \* history: occurrences a PATCH overlapping their claim set back
  generated,  \* history: occurrences whose generation was attempted
  dropped     \* history: claims whose owner died or never learnt of them

table == <<rows, used, cron, enabled, nextRunAt>>
history == <<claims, repeated, rewound, generated, dropped>>
vars == <<now, table, lastRunAt, lock, tick, edit, edits, faults, history>>

(* calculateNextRunAt: the next occurrence strictly after a date *)
NextOccurrence(c, from) == c * (from \div c + 1)

(* A tick: what is left of its batch and, for the schedule it is at, the   *)
(* occurrence it read, the one after it, and what became of it.  lease is  *)
(* history: the TTL of the lock it took has not run out.                   *)
Idle == [pc |-> "idle", todo |-> {}, s |-> None, occ |-> None,
         succ |-> None, ok |-> FALSE, lease |-> FALSE]

TickPc == {"idle", "scan", "acquire", "claim", "generate", "release", "record"}

Tick ==
  [pc : TickPc, todo : SUBSET Schedules, s : Schedules \cup {None},
   occ : Nat \cup {None}, succ : Nat \cup {None}, ok : BOOLEAN, lease : BOOLEAN]

(* A PATCH: when it read the clock and the columns it will write *)
NoEdit == [s |-> None, at |-> 0, cron |-> None, enabled |-> None, next |-> None]

Edit ==
  {NoEdit} \cup
  [s : Schedules, at : Nat, cron : Crons \cup {None},
   enabled : BOOLEAN \cup {None}, next : Nat \cup {None}]

TypeOK ==
  /\ now \in 0..MaxTime
  /\ rows \in SUBSET used
  /\ used \in SUBSET Schedules
  /\ cron \in [Schedules -> Crons]
  /\ enabled \in [Schedules -> BOOLEAN]
  /\ nextRunAt \in [Schedules -> Nat]
  /\ lastRunAt \in SUBSET Schedules
  /\ lock \in SUBSET [s : Schedules, occ : Nat, by : Ticks \cup {None}]
  /\ tick \in [Ticks -> Tick]
  /\ edit \in [Edits -> Edit]
  /\ edits \in 0..MaxEdits
  /\ faults \in 0..MaxFaults
  /\ claims \in SUBSET [s : Schedules, occ : Nat, at : Nat]
  /\ repeated \in SUBSET (Schedules \X Nat)
  /\ rewound \in SUBSET (Schedules \X Nat)
  /\ generated \in SUBSET (Schedules \X Nat)
  /\ dropped \in SUBSET (Schedules \X Nat)

Init ==
  /\ now = 0 /\ edits = 0 /\ faults = 0
  /\ rows = {} /\ used = {} /\ lock = {}
  /\ \E c \in Crons : cron = [s \in Schedules |-> c]
  /\ enabled = [s \in Schedules |-> TRUE]
  /\ nextRunAt = [s \in Schedules |-> 0]
  /\ lastRunAt = {}
  /\ tick = [t \in Ticks |-> Idle]
  /\ edit = [e \in Edits |-> NoEdit]
  /\ claims = {} /\ repeated = {} /\ rewound = {} /\ generated = {} /\ dropped = {}

-----------------------------------------------------------------------------
(* The executor's tick *)

IsAt(t, pc) == tick[t].pc = pc
Goto(t, pc) == tick' = [tick EXCEPT ![t].pc = pc]

(* The loop of handleScheduledReportsTick: on to the next due schedule *)
AfterItem(t) ==
  IF tick[t].todo = {} THEN Idle
  ELSE [Idle EXCEPT !.pc = "scan", !.todo = tick[t].todo]

NextItem(t) == tick' = [tick EXCEPT ![t] = AfterItem(t)]

Due(s) == s \in rows /\ enabled[s] /\ nextRunAt[s] <= now

(* findDueSchedules: the Batch due schedules with the earliest nextRunAt *)
DueBatch(D) ==
  /\ \A s \in D : Due(s)
  /\ \A s \in D, r \in Schedules \ D : Due(r) => nextRunAt[s] <= nextRunAt[r]
  /\ Cardinality(D) <= Batch
  /\ Cardinality(D) < Batch => \A s \in Schedules : Due(s) => s \in D

Discover(t) ==
  /\ IsAt(t, "idle")
  /\ \E D \in SUBSET Schedules \ {{}} :
       /\ DueBatch(D)
       /\ tick' = [tick EXCEPT ![t] = [Idle EXCEPT !.pc = "scan", !.todo = D]]
  /\ UNCHANGED <<now, table, lastRunAt, lock, edit, edits, faults, history>>

(* processDueSchedule re-reads the row; that it is still due is not asked *)
Load(t) ==
  /\ IsAt(t, "scan")
  /\ \E s \in tick[t].todo :
       LET item == [tick[t] EXCEPT !.todo = @ \ {s}] IN
       IF s \in rows
         THEN tick' = [tick EXCEPT ![t] =
                [item EXCEPT !.pc = "acquire", !.s = s, !.occ = nextRunAt[s],
                             !.succ = NextOccurrence(cron[s], nextRunAt[s])]]
         ELSE tick' = [tick EXCEPT ![t] =
                IF item.todo = {} THEN Idle ELSE item]
  /\ UNCHANGED <<now, table, lastRunAt, lock, edit, edits, faults, history>>

LockOf(t, by) == [s |-> tick[t].s, occ |-> tick[t].occ, by |-> by]

Locked(t) == \E l \in lock : l.s = tick[t].s /\ l.occ = tick[t].occ

(* Mutant of AcquireLock: nextRunAt is advanced before the lock is asked *)
ClaimThenLock(t) ==
  LET s == tick[t].s IN
  /\ IsAt(t, "acquire")
  /\ s \in rows /\ enabled[s] /\ nextRunAt[s] = tick[t].occ
  /\ nextRunAt' = [nextRunAt EXCEPT ![s] = tick[t].succ]
  /\ claims' = claims \cup {[s |-> s, occ |-> tick[t].occ, at |-> now]}
  /\ IF Locked(t)
       THEN NextItem(t) /\ UNCHANGED lock
       ELSE /\ lock' = lock \cup {LockOf(t, t)}
            /\ tick' = [tick EXCEPT ![t].pc = "generate", ![t].lease = TRUE]
  /\ UNCHANGED <<now, rows, used, cron, enabled, lastRunAt, edit, edits, faults,
                 repeated, rewound, generated, dropped>>

(* acquire: SET key token PX ttl NX; somebody else's lock ends the item *)
AcquireLock(t) ==
  /\ IsAt(t, "acquire")
  /\ IF Locked(t)
       THEN NextItem(t) /\ UNCHANGED lock
       ELSE /\ lock' = lock \cup {LockOf(t, t)}
            /\ tick' = [tick EXCEPT ![t].pc = "claim", ![t].lease = TRUE]
  /\ UNCHANGED <<now, table, lastRunAt, edit, edits, faults, history>>

(* acquire throws: the item is skipped, and the SET may have been applied *)
AcquireFails(t) ==
  /\ IsAt(t, "acquire")
  /\ faults < MaxFaults /\ faults' = faults + 1
  /\ \/ UNCHANGED lock
     \/ ~Locked(t) /\ lock' = lock \cup {LockOf(t, None)}
  /\ NextItem(t)
  /\ UNCHANGED <<now, table, lastRunAt, edit, edits, history>>

(* Mutant of Claimable: the compare-and-set forgets nextRunAt *)
ClaimableById(t) == tick[t].s \in rows /\ enabled[tick[t].s]

Claimable(t) ==
  /\ tick[t].s \in rows
  /\ enabled[tick[t].s]
  /\ nextRunAt[tick[t].s] = tick[t].occ

(* The update of nextRunAt, and its history *)
Advance(t) ==
  LET s == tick[t].s
      o == tick[t].occ
      before == \E c \in claims : c.s = s /\ c.occ = o IN
  /\ nextRunAt' = [nextRunAt EXCEPT ![s] = tick[t].succ]
  /\ claims' = IF before THEN claims
                ELSE claims \cup {[s |-> s, occ |-> o, at |-> now]}
  /\ repeated' = IF before THEN repeated \cup {<<s, o>>} ELSE repeated

(* The compare-and-set on (id, isEnabled, nextRunAt); lost, it only releases *)
Claim(t) ==
  /\ IsAt(t, "claim")
  /\ IF Claimable(t)
       THEN Advance(t) /\ Goto(t, "generate")
       ELSE Goto(t, "release") /\ UNCHANGED <<nextRunAt, claims, repeated>>
  /\ UNCHANGED <<now, rows, used, cron, enabled, lastRunAt, lock, edit, edits,
                 faults, rewound, generated, dropped>>

(* updateMany throws, applied or not; either way the tick did not claim *)
ClaimFails(t) ==
  /\ IsAt(t, "claim")
  /\ faults < MaxFaults /\ faults' = faults + 1
  /\ \/ UNCHANGED <<nextRunAt, claims, repeated, dropped>>
     \/ /\ Claimable(t)
        /\ Advance(t)
        /\ dropped' = dropped \cup {<<tick[t].s, tick[t].occ>>}
  /\ Goto(t, "release")
  /\ UNCHANGED <<now, rows, used, cron, enabled, lastRunAt, lock, edit, edits,
                 rewound, generated>>

(* executeScheduleGeneration: ok when at least one format succeeded *)
Generate(t) ==
  /\ IsAt(t, "generate")
  /\ \E ok \in BOOLEAN :
       tick' = [tick EXCEPT ![t].pc = "release", ![t].ok = ok]
  /\ generated' = generated \cup {<<tick[t].s, tick[t].occ>>}
  /\ UNCHANGED <<now, table, lastRunAt, lock, edit, edits, faults,
                 claims, repeated, rewound, dropped>>

AfterRelease(t) ==
  tick' = [tick EXCEPT ![t] =
    IF tick[t].ok THEN [tick[t] EXCEPT !.pc = "record", !.lease = FALSE]
                  ELSE AfterItem(t)]

(* Mutant of Release: the key is deleted whoever holds it *)
ReleaseAnyones(t) ==
  /\ IsAt(t, "release")
  /\ lock' = {l \in lock : l.s # tick[t].s \/ l.occ # tick[t].occ}
  /\ AfterRelease(t)
  /\ UNCHANGED <<now, table, lastRunAt, edit, edits, faults, history>>

(* release: the Lua script deletes the key only when its token is ours *)
Release(t) ==
  /\ IsAt(t, "release")
  /\ lock' = lock \ {LockOf(t, t)}
  /\ AfterRelease(t)
  /\ UNCHANGED <<now, table, lastRunAt, edit, edits, faults, history>>

(* Somebody's key outlives its owner until its TTL *)
Orphaned(t) ==
  IF tick[t].lease THEN (lock \ {LockOf(t, t)}) \cup {LockOf(t, None)} ELSE lock

ReleaseFails(t) ==
  /\ IsAt(t, "release")
  /\ faults < MaxFaults /\ faults' = faults + 1
  /\ lock' = Orphaned(t)
  /\ AfterRelease(t)
  /\ UNCHANGED <<now, table, lastRunAt, edit, edits, history>>

(* lastRunAt, when some format succeeded; a deleted row makes it a no-op *)
Record(t) ==
  /\ IsAt(t, "record")
  /\ lastRunAt' = lastRunAt \cup ({tick[t].s} \cap rows)
  /\ NextItem(t)
  /\ UNCHANGED <<now, table, lock, edit, edits, faults, history>>

(* The instance dies: the lock waits for its TTL, a claim has no owner left *)
Crash(t) ==
  /\ ~IsAt(t, "idle")
  /\ faults < MaxFaults /\ faults' = faults + 1
  /\ lock' = Orphaned(t)
  /\ dropped' = IF IsAt(t, "generate")
                  THEN dropped \cup {<<tick[t].s, tick[t].occ>>} ELSE dropped
  /\ tick' = [tick EXCEPT ![t] = Idle]
  /\ UNCHANGED <<now, table, lastRunAt, edit, edits,
                 claims, repeated, rewound, generated>>

(* REPORT_SCHEDULE_LOCK_TTL_MS runs out, of a working owner or a dead one *)
LeaseExpires(t) ==
  /\ tick[t].lease
  /\ lock' = lock \ {LockOf(t, t)}
  /\ tick' = [tick EXCEPT ![t].lease = FALSE]
  /\ UNCHANGED <<now, table, lastRunAt, edit, edits, faults, history>>

(* Mutant of OrphanExpires: SET NX without PX *)
OrphanStays == FALSE /\ UNCHANGED vars

OrphanExpires ==
  /\ \E l \in lock : l.by = None /\ lock' = lock \ {l}
  /\ UNCHANGED <<now, table, lastRunAt, tick, edit, edits, faults, history>>

-----------------------------------------------------------------------------
(* The schedule CRUD *)

(* createSchedule reads the clock, validates the devices, then inserts *)
CreateSchedule(s, c) ==
  /\ s \notin used
  /\ rows' = rows \cup {s} /\ used' = used \cup {s}
  /\ cron' = [cron EXCEPT ![s] = c]
  /\ enabled' = [enabled EXCEPT ![s] = TRUE]
  /\ \E at \in 0..now : nextRunAt' = [nextRunAt EXCEPT ![s] = NextOccurrence(c, at)]
  /\ UNCHANGED <<now, lastRunAt, lock, tick, edit, edits, faults, history>>

(* The nextRunAt a PATCH writes: a new cron restarts it, enabling a schedule *)
(* whose date has passed steps over what was missed                         *)
EditedNext(s, c, on) ==
  IF c # None THEN NextOccurrence(c, now)
  ELSE IF on = TRUE /\ nextRunAt[s] <= now THEN NextOccurrence(cron[s], now)
  ELSE None

(* updateSchedule reads the row and the clock, then validates the devices *)
EditRead(e, s, c, on) ==
  /\ edit[e] = NoEdit
  /\ edits < MaxEdits /\ edits' = edits + 1
  /\ s \in rows
  /\ c # None \/ on # None
  /\ edit' = [edit EXCEPT ![e] =
       [s |-> s, at |-> now, cron |-> c, enabled |-> on, next |-> EditedNext(s, c, on)]]
  /\ UNCHANGED <<now, table, lastRunAt, lock, tick, faults, history>>

(* ... and updates it by id, whatever has happened to it since *)
EditSave(e) ==
  LET q == edit[e]
      write(f, v) == IF v = None THEN f ELSE [f EXCEPT ![q.s] = v] IN
  /\ q # NoEdit
  /\ edit' = [edit EXCEPT ![e] = NoEdit]
  /\ IF q.s \in rows
       THEN /\ cron' = write(cron, q.cron)
            /\ enabled' = write(enabled, q.enabled)
            /\ nextRunAt' = write(nextRunAt, q.next)
            /\ rewound' = rewound \cup
                 {<<c.s, c.occ>> : c \in {d \in claims :
                    d.s = q.s /\ q.next # None /\ q.next <= d.occ /\ q.at < d.at}}
       ELSE UNCHANGED <<cron, enabled, nextRunAt, rewound>>
  /\ UNCHANGED <<now, rows, used, lastRunAt, lock, tick, edits, faults,
                 claims, repeated, generated, dropped>>

DeleteSchedule(s) ==
  /\ s \in rows
  /\ rows' = rows \ {s}
  /\ UNCHANGED <<now, used, cron, enabled, nextRunAt, lastRunAt, lock, tick,
                 edit, edits, faults, history>>

Tock ==
  /\ now < MaxTime
  /\ now' = now + 1
  /\ UNCHANGED <<table, lastRunAt, lock, tick, edit, edits, faults, history>>

-----------------------------------------------------------------------------
Work(t) ==
  Load(t) \/ AcquireLock(t) \/ Claim(t) \/ Generate(t) \/ Release(t) \/ Record(t)

Fault(t) == AcquireFails(t) \/ ClaimFails(t) \/ ReleaseFails(t) \/ Crash(t)

User ==
  \/ \E s \in Schedules, c \in Crons : CreateSchedule(s, c)
  \/ \E e \in Edits, s \in Schedules, c \in Crons \cup {None},
       on \in BOOLEAN \cup {None} : EditRead(e, s, c, on)
  \/ \E e \in Edits : EditSave(e)
  \/ \E s \in Schedules : DeleteSchedule(s)

Next ==
  \/ \E t \in Ticks : Discover(t) \/ Work(t) \/ Fault(t) \/ LeaseExpires(t)
  \/ OrphanExpires
  \/ User
  \/ Tock

Spec == Init /\ [][Next]_vars

(* The cron fires every minute, a tick runs to its end unless it crashes,  *)
(* and Redis drops a key whose TTL is over.  Nothing is asked of users,    *)
(* and faults are bounded.                                                 *)
Fairness ==
  /\ \A t \in Ticks : WF_vars(Discover(t)) /\ WF_vars(Work(t))
  /\ WF_vars(OrphanExpires)

FairSpec == Spec /\ Fairness

-----------------------------------------------------------------------------
(* Properties *)

(* The occurrence lock does its work while its TTL lasts: two ticks whose  *)
(* leases are running never hold the same occurrence, whatever releases,   *)
(* crashes and expiries came before (RedisDistributedLock).                *)
LeaseExclusive ==
  \A t1, t2 \in Ticks :
    tick[t1].lease /\ tick[t2].lease /\ LockOf(t1, None) = LockOf(t2, None)
      => t1 = t2

(* An occurrence is claimed twice only when a PATCH that overlapped the    *)
(* first claim set the schedule back, or when the first claim was made     *)
(* before the occurrence was due (processDueSchedule, updateSchedule).     *)
ClaimedOnce ==
  \A q \in repeated :
    \/ q \in rewound
    \/ \E c \in claims : c.s = q[1] /\ c.occ = q[2] /\ c.at < c.occ

(* nextRunAt never moves past an occurrence that nobody generates, unless  *)
(* the tick that claimed it died or never had the answer of its claim:     *)
(* what taking the lock before the claim is for.                           *)
NoOccurrenceLost ==
  \A c \in claims :
    \/ <<c.s, c.occ>> \in generated \cup dropped
    \/ \E t \in Ticks : IsAt(t, "generate") /\ tick[t].s = c.s /\ tick[t].occ = c.occ

(* An enabled schedule that is due does not stay so: its occurrence is     *)
(* claimed, even if the tick that had locked it died, or a user moves it.  *)
DueIsHandled ==
  \A s \in Schedules : \A o \in 0..MaxTime : []<>~(Due(s) /\ nextRunAt[s] = o)

(* What the documentation says and the interleavings deny: only "due       *)
(* schedules" are processed (report-schedule-executor.service.ts:132).     *)
ClaimedWhenDue == \A c \in claims : c.occ <= c.at

(* "only the instance holding both the lock and the DB claim performs      *)
(* generation" (docs/AH-3/AH-3D.2E_DISTRIBUTED_DUPLICATE_PROTECTION.md:35) *)
GeneratesUnderLock ==
  \A t \in Ticks : IsAt(t, "generate") => LockOf(t, t) \in lock
=============================================================================

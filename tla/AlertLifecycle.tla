--------------------------- MODULE AlertLifecycle ---------------------------
(***************************************************************************)
(* Monitoring alerts.  Device reports open alerts for metric rules         *)
(* (devices.service.ts ingestMetrics, alert-evaluation.service.ts), the    *)
(* worker's sweep opens alerts for presence rules and resolves both kinds  *)
(* (monitoring-sweep.ts), and operators acknowledge, resolve and edit      *)
(* rules (alerts.service.ts).  All of them meet in the Alert table, whose  *)
(* unique column activeKey is to keep one active alert per rule and        *)
(* device.                                                                 *)
(*                                                                         *)
(* Abstracted: a key is one rule on one device, so editing a rule touches  *)
(* one key; a reading is whether it breaches the rule, a device whether it *)
(* is OFFLINE; the values an alert is refreshed with are left out.         *)
(***************************************************************************)
EXTENDS Integers, FiniteSets

CONSTANTS
  PresenceKeys, MetricKeys,  \* activeKeys, by the kind of their rule
  Alerts,      \* identities of Alert rows, numbered in the order of createdAt
  Legacy,      \* rows left without activeKey by the migration that added it
  Reports,     \* ingestMetrics requests in flight
  Sweeps,      \* sweep jobs in flight
  MaxReports, MaxFlips, MaxCommands, MaxReopens, MaxFaults,
               \* bounds: reports received, devices lost and found, commands
               \* of operators, acknowledgements of RESOLVED alerts, crashes
  None         \* null

Keys == PresenceKeys \cup MetricKeys

ASSUME KeyAssumption == PresenceKeys \cap MetricKeys = {}
ASSUME AlertsAssumption == Legacy \subseteq Alerts /\ Alerts \subseteq Nat
ASSUME BoundAssumption ==
  {MaxReports, MaxFlips, MaxCommands, MaxReopens, MaxFaults} \subseteq Nat
ASSUME NoneAssumption == None \notin Keys \cup Alerts

VARIABLES
  rule,     \* the rule of each key: enabled, disabled or deleted
  bad,      \* keys in breach: the device is OFFLINE, its last reading breaches
  alert,    \* the Alert table
  report,   \* ingestMetrics requests, inside evaluateMetrics
  sweep,    \* runMonitoringSweep jobs
  reports, flips, commands, reopens, faults,  \* counts, for the bounds
  told,     \* history: how often each alert was notified
  reopened  \* history: alerts acknowledged after they were RESOLVED

counts == <<reports, flips, commands, reopens, faults>>
vars == <<rule, bad, alert, report, sweep, counts, told, reopened>>

Active == {"OPEN", "ACKNOWLEDGED"}
Row == [st : {"FREE", "OPEN", "ACKNOWLEDGED", "RESOLVED", "DELETED"},
        key : Keys \cup {None}, slot : BOOLEAN]

(* A request: breached rules still to treat, the one it is at, the alert   *)
(* it found for it, the alerts it created                                  *)
Waiting == [pc |-> "idle", todo |-> {}, key |-> None, found |-> None, made |-> {}]
Request ==
  [pc : {"idle", "find", "refresh", "create", "tell"}, todo : SUBSET MetricKeys,
   key : MetricKeys \cup {None}, found : Alerts \cup {None}, made : SUBSET Alerts]

(* A job: keys still to treat, those whose device was OFFLINE when the     *)
(* devices were read, the key it is at, its active and its slotless        *)
(* alerts, the alert to notify, and the metric alerts still to treat       *)
Asleep == [pc |-> "idle", todo |-> {}, off |-> {}, key |-> None, act |-> None,
           rest |-> {}, tell |-> None, metrics |-> {}]
Job ==
  [pc : {"idle", "find", "legacy", "act", "rest", "tell", "list", "metric", "clear"},
   todo : SUBSET PresenceKeys, off : SUBSET PresenceKeys,
   key : PresenceKeys \cup {None}, act : Alerts \cup {None}, rest : SUBSET Alerts,
   tell : Alerts \cup {None}, metrics : SUBSET Alerts]

TypeOK ==
  /\ rule \in [Keys -> {"on", "off", "deleted"}]
  /\ bad \in SUBSET Keys
  /\ alert \in [Alerts -> Row]
  /\ report \in [Reports -> Request]
  /\ sweep \in [Sweeps -> Job]
  /\ reports \in 0..MaxReports /\ flips \in 0..MaxFlips
  /\ commands \in 0..MaxCommands /\ reopens \in 0..MaxReopens
  /\ faults \in 0..MaxFaults
  /\ told \in [Alerts -> Nat]
  /\ reopened \in SUBSET Alerts

(* The migration gave activeKey to the oldest unresolved alert of a metric *)
(* rule only; its duplicates stay without.  That oldest one is resolved.   *)
Init ==
  /\ rule = [k \in Keys |-> "on"]
  /\ bad = {}
  /\ \E old \in [Legacy -> MetricKeys] :
       alert = [a \in Alerts |->
                  IF a \in Legacy THEN [st |-> "OPEN", key |-> old[a], slot |-> FALSE]
                  ELSE [st |-> "FREE", key |-> None, slot |-> FALSE]]
  /\ report = [r \in Reports |-> Waiting]
  /\ sweep = [w \in Sweeps |-> Asleep]
  /\ reports = 0 /\ flips = 0 /\ commands = 0 /\ reopens = 0 /\ faults = 0
  /\ told = [a \in Alerts |-> 0]
  /\ reopened = {}

-----------------------------------------------------------------------------
(* The Alert table *)

Exists(a) == alert[a].st \notin {"FREE", "DELETED"}
IsActive(a) == alert[a].st \in Active
OfKey(k) == {a \in Alerts : Exists(a) /\ alert[a].key = k}
SlotHolders(k) == {a \in OfKey(k) : alert[a].slot}

(* Mutant of Created: activeKey left out of the data                       *)
CreatedSlotless(k) == [st |-> "OPEN", key |-> k, slot |-> FALSE]

(* prisma.alert.create with an activeKey: the rule must exist and the      *)
(* activeKey must be free                                                  *)
CanCreate(k) == rule[k] # "deleted" /\ SlotHolders(k) = {}
Created(k) == [st |-> "OPEN", key |-> k, slot |-> TRUE]

(* The row the next create inserts *)
IsNew(a) == alert[a].st = "FREE" /\ \A b \in Alerts : b < a => alert[b].st # "FREE"

(* Mutant of Resolve: activeKey is not cleared *)
ResolveKeepingSlot(S) ==
  alert' = [a \in Alerts |->
              IF a \in S /\ Exists(a) THEN [alert[a] EXCEPT !.st = "RESOLVED"]
              ELSE alert[a]]

(* resolveAlertIds: by id, whatever the status has become meanwhile *)
Resolve(S) ==
  alert' = [a \in Alerts |->
              IF a \in S /\ Exists(a)
                THEN [alert[a] EXCEPT !.st = "RESOLVED", !.slot = FALSE]
                ELSE alert[a]]

-----------------------------------------------------------------------------
(* ingestMetrics of devices.service.ts *)

ReportTo(r, next) == report' = [report EXCEPT ![r] = next]

(* Mutant of AfterKey: when the last rule's alert is not new, none is told *)
AfterKeyForgetting(r) ==
  IF report[r].todo # {} THEN [report[r] EXCEPT !.pc = "find"] ELSE Waiting

(* On to the next breached rule, or to the notifications *)
AfterKey(r) ==
  IF report[r].todo # {} THEN [report[r] EXCEPT !.pc = "find"]
  ELSE IF report[r].made # {} THEN [report[r] EXCEPT !.pc = "tell"]
  ELSE Waiting

(* The readings are stored and the enabled rules they breach are loaded *)
Receive(r) ==
  /\ report[r].pc = "idle" /\ reports < MaxReports
  /\ reports' = reports + 1
  /\ \E B \in SUBSET MetricKeys :
       LET breached == {k \in B : rule[k] = "on"} IN
       /\ bad' = (bad \ MetricKeys) \cup B
       /\ IF breached = {} THEN UNCHANGED report
          ELSE ReportTo(r, [Waiting EXCEPT !.pc = "find", !.todo = breached])
  /\ UNCHANGED <<rule, alert, sweep, flips, commands, reopens, faults, told, reopened>>

(* Is there an alert with this activeKey?  Its status is not asked. *)
FindExisting(r) ==
  /\ report[r].pc = "find"
  /\ \E k \in report[r].todo :
       LET at == [report[r] EXCEPT !.todo = @ \ {k}, !.key = k] IN
       \/ /\ SlotHolders(k) = {}
          /\ ReportTo(r, [at EXCEPT !.pc = "create"])
       \/ \E a \in SlotHolders(k) :
            ReportTo(r, [at EXCEPT !.pc = "refresh", !.found = a])
  /\ UNCHANGED <<rule, bad, alert, sweep, counts, told, reopened>>

(* Mutant of Refresh: the refreshed alert is returned with the new ones *)
RefreshReturns(r) ==
  /\ report[r].pc = "refresh"
  /\ ReportTo(r, [report[r] EXCEPT
                    !.pc = IF report[r].todo = {} THEN "tell" ELSE "find",
                    !.made = @ \cup {report[r].found}, !.key = None, !.found = None])
  /\ UNCHANGED <<rule, bad, alert, sweep, counts, told, reopened>>

(* The update fails when the row is gone: the whole evaluation is given up *)
Refresh(r) ==
  /\ report[r].pc = "refresh"
  /\ ReportTo(r, IF Exists(report[r].found)
                   THEN [AfterKey(r) EXCEPT !.key = None, !.found = None]
                   ELSE Waiting)
  /\ UNCHANGED <<rule, bad, alert, sweep, counts, told, reopened>>

(* A free activeKey creates the alert; a taken one refreshes the row that  *)
(* took it; a deleted rule throws, and the alerts created so far are never *)
(* returned.                                                               *)
CreateMetric(r) ==
  LET k == report[r].key IN
  /\ report[r].pc = "create"
  /\ \/ /\ CanCreate(k)
        /\ \E a \in Alerts :
             /\ IsNew(a)
             /\ alert' = [alert EXCEPT ![a] = Created(k)]
             /\ ReportTo(r, [report[r] EXCEPT
                               !.made = @ \cup {a}, !.key = None,
                               !.pc = IF report[r].todo = {} THEN "tell" ELSE "find"])
     \/ /\ SlotHolders(k) # {}
        /\ ReportTo(r, [AfterKey(r) EXCEPT !.key = None])
        /\ UNCHANGED alert
     \/ /\ rule[k] = "deleted"
        /\ ReportTo(r, Waiting)
        /\ UNCHANGED alert
  /\ UNCHANGED <<rule, bad, sweep, counts, told, reopened>>

(* Each created alert is broadcast and its notification queued *)
TellMetric(r) ==
  /\ report[r].pc = "tell"
  /\ \E a \in report[r].made :
       /\ told' = [told EXCEPT ![a] = @ + 1]
       /\ ReportTo(r, IF report[r].made = {a} THEN Waiting
                      ELSE [report[r] EXCEPT !.made = @ \ {a}])
  /\ UNCHANGED <<rule, bad, alert, sweep, counts, reopened>>

-----------------------------------------------------------------------------
(* runMonitoringSweep of the worker *)

SweepTo(w, next) == sweep' = [sweep EXCEPT ![w] = next]

(* On to the next device and rule, or to the metric alerts *)
AfterPair(w) ==
  [Asleep EXCEPT !.pc = IF sweep[w].todo = {} THEN "list" ELSE "find",
                 !.todo = sweep[w].todo, !.off = sweep[w].off]

(* A throw: the job fails, to be retried as a sweep of its own *)
Abort(w) == SweepTo(w, Asleep)

(* The enabled presence rules are read, then every device's lastSeenAt *)
StartSweep(w) ==
  /\ sweep[w].pc = "idle"
  /\ LET on == {k \in PresenceKeys : rule[k] = "on"} IN
     SweepTo(w, [Asleep EXCEPT !.pc = IF on = {} THEN "list" ELSE "find",
                               !.todo = on, !.off = bad \cap on])
  /\ UNCHANGED <<rule, bad, alert, report, counts, told, reopened>>

(* The alert holding the activeKey, if its status is active *)
FindActive(w) ==
  /\ sweep[w].pc = "find"
  /\ \E k \in sweep[w].todo :
       LET held == {a \in SlotHolders(k) : IsActive(a)}
           at == [sweep[w] EXCEPT !.pc = "legacy", !.todo = @ \ {k}, !.key = k] IN
       \/ /\ held = {}
          /\ SweepTo(w, at)
       \/ \E a \in held : SweepTo(w, [at EXCEPT !.act = a])
  /\ UNCHANGED <<rule, bad, alert, report, counts, told, reopened>>

(* Active alerts of the rule and device that have no activeKey *)
FindLegacy(w) ==
  /\ sweep[w].pc = "legacy"
  /\ SweepTo(w, [sweep[w] EXCEPT !.pc = "act",
       !.rest = {a \in OfKey(sweep[w].key) : IsActive(a) /\ ~alert[a].slot}])
  /\ UNCHANGED <<rule, bad, alert, report, counts, told, reopened>>

IsOffline(w) == sweep[w].key \in sweep[w].off

(* Mutant of RefreshPresence: a lasting incident is notified by every sweep *)
RefreshAndTell(w) ==
  /\ sweep[w].pc = "act" /\ IsOffline(w) /\ sweep[w].act # None
  /\ SweepTo(w, [sweep[w] EXCEPT !.pc = "rest", !.tell = sweep[w].act])
  /\ UNCHANGED <<rule, bad, alert, report, counts, told, reopened>>

RefreshPresence(w) ==
  /\ sweep[w].pc = "act" /\ IsOffline(w) /\ sweep[w].act # None
  /\ IF Exists(sweep[w].act) THEN SweepTo(w, [sweep[w] EXCEPT !.pc = "rest"])
     ELSE Abort(w)
  /\ UNCHANGED <<rule, bad, alert, report, counts, told, reopened>>

(* The oldest slotless alert is given the activeKey; its status is neither *)
(* read again nor written.  A row gone or an activeKey taken throws.       *)
PromoteLegacy(w) ==
  LET k == sweep[w].key IN
  /\ sweep[w].pc = "act" /\ IsOffline(w) /\ sweep[w].act = None
  /\ \E a \in sweep[w].rest :
       /\ \A b \in sweep[w].rest : a <= b
       /\ IF Exists(a) /\ SlotHolders(k) \subseteq {a}
            THEN /\ alert' = [alert EXCEPT ![a].slot = TRUE]
                 /\ SweepTo(w, [sweep[w] EXCEPT
                                  !.pc = "rest", !.rest = @ \ {a}, !.tell = a])
            ELSE Abort(w) /\ UNCHANGED alert
  /\ UNCHANGED <<rule, bad, report, counts, told, reopened>>

(* No alert is known: one is created.  Unlike evaluateMetrics the sweep    *)
(* does not treat a taken activeKey: it throws.                            *)
CreatePresence(w) ==
  LET k == sweep[w].key IN
  /\ sweep[w].pc = "act" /\ IsOffline(w)
  /\ sweep[w].act = None /\ sweep[w].rest = {}
  /\ IF CanCreate(k)
       THEN \E a \in Alerts :
              /\ IsNew(a)
              /\ alert' = [alert EXCEPT ![a] = Created(k)]
              /\ SweepTo(w, [sweep[w] EXCEPT !.pc = "tell", !.tell = a])
       ELSE Abort(w) /\ UNCHANGED alert
  /\ UNCHANGED <<rule, bad, report, counts, told, reopened>>

(* Mutant of ResolvePresence: a recovered device is only counted *)
ResolveNothing(w) ==
  /\ sweep[w].pc = "act" /\ ~IsOffline(w)
  /\ SweepTo(w, [sweep[w] EXCEPT !.pc = "rest"])
  /\ UNCHANGED <<rule, bad, alert, report, counts, told, reopened>>

ResolvePresence(w) ==
  /\ sweep[w].pc = "act" /\ ~IsOffline(w)
  /\ Resolve({sweep[w].act})
  /\ SweepTo(w, [sweep[w] EXCEPT !.pc = "rest"])
  /\ UNCHANGED <<rule, bad, report, counts, told, reopened>>

ResolveRest(w) ==
  /\ sweep[w].pc = "rest"
  /\ Resolve(sweep[w].rest)
  /\ SweepTo(w, IF sweep[w].tell = None THEN AfterPair(w)
                 ELSE [sweep[w] EXCEPT !.pc = "tell"])
  /\ UNCHANGED <<rule, bad, report, counts, told, reopened>>

(* notify: an enqueue that fails is logged and forgotten *)
TellPresence(w) ==
  /\ sweep[w].pc = "tell"
  /\ told' = [told EXCEPT ![sweep[w].tell] = @ + 1]
  /\ SweepTo(w, AfterPair(w))
  /\ UNCHANGED <<rule, bad, alert, report, counts, reopened>>

AfterMetric(M) ==
  IF M = {} THEN Asleep ELSE [Asleep EXCEPT !.pc = "metric", !.metrics = M]

(* autoResolveMetricAlerts: every active alert of a metric rule *)
ListMetric(w) ==
  /\ sweep[w].pc = "list"
  /\ SweepTo(w, AfterMetric({a \in Alerts : IsActive(a) /\ alert[a].key \in MetricKeys}))
  /\ UNCHANGED <<rule, bad, alert, report, counts, told, reopened>>

Breached(k) == rule[k] = "on" /\ k \in bad

(* The rule and the last reading are read; the alert stays while it breaches *)
JudgeMetric(w) ==
  /\ sweep[w].pc = "metric"
  /\ \E a \in sweep[w].metrics :
       SweepTo(w,
         IF Breached(alert[a].key) THEN AfterMetric(sweep[w].metrics \ {a})
         ELSE [sweep[w] EXCEPT !.pc = "clear", !.act = a, !.metrics = @ \ {a}])
  /\ UNCHANGED <<rule, bad, alert, report, counts, told, reopened>>

ClearMetric(w) ==
  /\ sweep[w].pc = "clear"
  /\ Resolve({sweep[w].act})
  /\ SweepTo(w, AfterMetric(sweep[w].metrics))
  /\ UNCHANGED <<rule, bad, report, counts, told, reopened>>

-----------------------------------------------------------------------------
(* Operators, devices and failures *)

(* Any status is overwritten, RESOLVED too; activeKey is left alone *)
Acknowledge(a) ==
  /\ Exists(a) /\ commands < MaxCommands /\ commands' = commands + 1
  /\ \/ alert[a].st = "OPEN" /\ UNCHANGED <<reopens, reopened>>
     \/ /\ alert[a].st = "RESOLVED" /\ reopens < MaxReopens
        /\ reopens' = reopens + 1 /\ reopened' = reopened \cup {a}
  /\ alert' = [alert EXCEPT ![a].st = "ACKNOWLEDGED"]
  /\ UNCHANGED <<rule, bad, report, sweep, reports, flips, faults, told>>

ResolveAlert(a) ==
  /\ IsActive(a) /\ commands < MaxCommands /\ commands' = commands + 1
  /\ Resolve({a})
  /\ UNCHANGED <<rule, bad, report, sweep, reports, flips, reopens, faults, told, reopened>>

UpdateRule(k) ==
  /\ rule[k] # "deleted" /\ commands < MaxCommands /\ commands' = commands + 1
  /\ rule' = [rule EXCEPT ![k] = IF @ = "on" THEN "off" ELSE "on"]
  /\ UNCHANGED <<bad, alert, report, sweep, reports, flips, reopens, faults, told, reopened>>

(* The alerts of a deleted rule go with it (onDelete: Cascade) *)
DeleteRule(k) ==
  /\ rule[k] # "deleted" /\ commands < MaxCommands /\ commands' = commands + 1
  /\ rule' = [rule EXCEPT ![k] = "deleted"]
  /\ alert' = [a \in Alerts |->
                 IF a \in OfKey(k) THEN [alert[a] EXCEPT !.st = "DELETED", !.slot = FALSE]
                 ELSE alert[a]]
  /\ UNCHANGED <<bad, report, sweep, reports, flips, reopens, faults, told, reopened>>

(* derivePresenceState: 15 minutes without a heartbeat make a device       *)
(* OFFLINE, a heartbeat ends it                                            *)
Flip(k) ==
  /\ flips < MaxFlips /\ flips' = flips + 1
  /\ bad' = IF k \in bad THEN bad \ {k} ELSE bad \cup {k}
  /\ UNCHANGED <<rule, alert, report, sweep, reports, commands, reopens, faults, told, reopened>>

(* The API process or the worker dies between two statements *)
Fault ==
  /\ faults < MaxFaults /\ faults' = faults + 1
  /\ \/ \E r \in Reports : report[r].pc # "idle"
          /\ ReportTo(r, Waiting) /\ UNCHANGED sweep
     \/ \E w \in Sweeps : sweep[w].pc # "idle" /\ Abort(w) /\ UNCHANGED report
  /\ UNCHANGED <<rule, bad, alert, reports, flips, commands, reopens, told, reopened>>

ReportStep(r) ==
  FindExisting(r) \/ Refresh(r) \/ CreateMetric(r) \/ TellMetric(r)

SweepStep(w) ==
  \/ StartSweep(w) \/ FindActive(w) \/ FindLegacy(w) \/ RefreshPresence(w)
  \/ PromoteLegacy(w) \/ CreatePresence(w) \/ ResolvePresence(w) \/ ResolveRest(w)
  \/ TellPresence(w) \/ ListMetric(w) \/ JudgeMetric(w) \/ ClearMetric(w)

Next ==
  \/ \E r \in Reports : Receive(r) \/ ReportStep(r)
  \/ \E w \in Sweeps : SweepStep(w)
  \/ \E a \in Alerts : Acknowledge(a) \/ ResolveAlert(a)
  \/ \E k \in Keys : UpdateRule(k) \/ DeleteRule(k)
  \/ \E k \in PresenceKeys : Flip(k)
  \/ Fault

Spec == Init /\ [][Next]_vars

(* The cron enqueues a sweep every minute and the worker runs what is      *)
(* queued; a request handler runs to its end unless its process dies.      *)
FairSpec ==
  /\ Spec
  /\ \A r \in Reports : WF_vars(ReportStep(r))
  /\ \A w \in Sweeps : WF_vars(SweepStep(w))

-----------------------------------------------------------------------------
(* Properties *)

Tracked(a) == IsActive(a) /\ a \notin Legacy \cup reopened

OneTrackedAlert ==
  \A a, b \in Alerts :
    Tracked(a) /\ Tracked(b) /\ alert[a].key = alert[b].key => a = b

SlotFreed ==
  \A a \in Alerts \ reopened : Exists(a) /\ alert[a].slot => IsActive(a)

(* alert-evaluation.service.ts:26: a rule has one active alert on a device,  *)
(* whatever requests, sweeps and operators interleave: outside the slotless  *)
(* ones it holds the activeKey, so that no other can be created while it     *)
(* lasts.  resolveAlert: it frees the activeKey for the next incident when   *)
(* it leaves the active states, however it was resolved.                     *)
ActiveKeyKept == OneTrackedAlert /\ SlotFreed

(* evaluateMetrics returns only created alerts, the sweep notifies only    *)
(* created and promoted ones: no alert is notified twice unless it was     *)
(* reopened.                                                               *)
NotifiedOnce == \A a \in Alerts \ reopened : told[a] <= 1

(* alert-evaluation.service.ts:129: an active alert was notified, or will be *)
(* by the request or job that made it, unless a process died or a metric     *)
(* rule was deleted, which may have made an evaluation throw with the alerts *)
(* it had made.                                                              *)
Owed(a) == (\E r \in Reports : a \in report[r].made) \/ (\E w \in Sweeps : a = sweep[w].tell)
ToldUnlessDropped ==
  \A a \in Alerts \ Legacy : IsActive(a) /\ told[a] = 0 =>
    Owed(a) \/ faults > 0 \/ \E k \in MetricKeys : rule[k] = "deleted"

HasActive(k) == \E a \in OfKey(k) : IsActive(a)

(* A device that stays OFFLINE under an enabled presence rule gets an      *)
(* active alert, and keeps having one.                                     *)
OfflineIsAlerted ==
  \A k \in PresenceKeys : <>[](Breached(k)) => <>[]HasActive(k)

(* Alerts are resolved once their device is back, or their reading is      *)
(* good, or their metric rule was disabled.                                *)
RecoveryIsResolved ==
  /\ \A k \in PresenceKeys :
       <>[](rule[k] = "on" /\ k \notin bad) => <>[](~HasActive(k))
  /\ \A k \in MetricKeys : <>[](~Breached(k)) => <>[](~HasActive(k))

(* buildActiveKey's comment: at most one OPEN or ACKNOWLEDGED alert per    *)
(* rule and device (among those opened since the migration).               *)
OneActivePerKey ==
  \A a, b \in Alerts \ Legacy :
    IsActive(a) /\ IsActive(b) /\ alert[a].key = alert[b].key => a = b

(* buildActiveKey's comment: RESOLVED alerts clear activeKey. *)
ResolvedClearsKey ==
  \A a \in Alerts : alert[a].st = "RESOLVED" => ~alert[a].slot

(* evaluateMetrics' comment: callers notify once per incident.  An active  *)
(* alert has been notified, or the request or job that created it will.    *)
EveryIncidentTold ==
  \A a \in Alerts \ Legacy :
    IsActive(a) /\ told[a] = 0 => Owed(a)

(* The migration's comment: slotless duplicates are reconciled by the      *)
(* monitoring sweep.                                                       *)
LegacyReconciled ==
  \A k \in Keys : <>(Cardinality({a \in OfKey(k) : IsActive(a)}) <= 1)
=============================================================================

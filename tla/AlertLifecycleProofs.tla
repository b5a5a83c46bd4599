----------------------- MODULE AlertLifecycleProofs -----------------------
(***************************************************************************)
(* Proofs about AlertLifecycle, for any rules, alerts, requests, jobs and  *)
(* bounds.                                                                 *)
(***************************************************************************)
EXTENDS AlertLifecycle, TLAPS

(* Only rows of the table hold an activeKey, and no two rows the same one. *)
SlotUnique ==
  /\ \A a \in Alerts : alert[a].slot => Exists(a)
  /\ \A a, b \in Alerts :
       alert[a].slot /\ alert[b].slot /\ alert[a].key = alert[b].key => a = b

(* Active alerts hold their activeKey, but for the known exceptions. *)
TrackedHoldsSlot == \A a \in Alerts : Tracked(a) => alert[a].slot

(* Legacy alerts are of metric rules. *)
LegacyIsMetric ==
  \A a \in Legacy : alert[a].st # "FREE" /\ alert[a].key \in MetricKeys

Table == SlotUnique /\ TrackedHoldsSlot /\ SlotFreed /\ LegacyIsMetric

(* The slotless alerts a sweep works on were reopened by an operator. *)
RestReopened ==
  \A w \in Sweeps :
    /\ sweep[w].pc \in {"legacy", "act"} => sweep[w].key \in PresenceKeys
    /\ sweep[w].pc = "find" => sweep[w].rest = {}
    /\ \A a \in sweep[w].rest :
         a \in reopened /\ alert[a].st # "FREE" /\ alert[a].key = sweep[w].key

(* a is still to be notified by request r, by job w *)
Owes(r, a) == a \in report[r].made
OwesToo(w, a) == a = sweep[w].tell

(* A row not yet inserted is nobody's, and one alert is notified by at     *)
(* most one request or job, which has not done it yet.                     *)
Notifications ==
  /\ \A a \in Alerts : alert[a].st = "FREE" =>
       /\ told[a] = 0 /\ a \notin reopened
       /\ \A r \in Reports : ~Owes(r, a)
       /\ \A w \in Sweeps : ~OwesToo(w, a)
  /\ \A a \in Alerts \ reopened :
       /\ \A r \in Reports : Owes(r, a) => told[a] = 0
       /\ \A w \in Sweeps : OwesToo(w, a) => told[a] = 0
       /\ \A r, q \in Reports : Owes(r, a) /\ Owes(q, a) => r = q
       /\ \A w, v \in Sweeps : OwesToo(w, a) /\ OwesToo(v, a) => w = v
       /\ \A r \in Reports, w \in Sweeps : ~(Owes(r, a) /\ OwesToo(w, a))

IInv == TypeOK /\ Table /\ RestReopened /\ Notifications /\ NotifiedOnce

-----------------------------------------------------------------------------
(* Types of the operators the actions are built from *)

LEMMA RowTyped ==
  ASSUME TypeOK, NEW a \in Alerts
  PROVE  alert[a] \in Row
BY DEF TypeOK

LEMMA NoneIsNoAlert == None \notin Alerts /\ None \notin Keys
BY NoneAssumption

LEMMA CreatedTyped ==
  ASSUME NEW k \in Keys \cup {None}
  PROVE  Created(k) \in Row
BY DEF Created, Row

LEMMA ResolveTyped ==
  ASSUME TypeOK, NEW S, Resolve(S)
  PROVE  alert' \in [Alerts -> Row]
<1> SUFFICES ASSUME NEW a \in Alerts
             PROVE  (IF a \in S /\ Exists(a)
                      THEN [alert[a] EXCEPT !.st = "RESOLVED", !.slot = FALSE]
                      ELSE alert[a]) \in Row
  BY DEF Resolve
<1> QED
  BY RowTyped DEF Row

LEMMA AfterKeyTyped ==
  ASSUME TypeOK, NEW r \in Reports
  PROVE  AfterKey(r) \in Request
BY DEF TypeOK, AfterKey, Request, Waiting

LEMMA WaitingTyped == Waiting \in Request
BY DEF Waiting, Request

LEMMA AsleepTyped == Asleep \in Job
BY DEF Asleep, Job

LEMMA AfterPairTyped ==
  ASSUME TypeOK, NEW w \in Sweeps
  PROVE  AfterPair(w) \in Job
BY DEF TypeOK, AfterPair, Job, Asleep

LEMMA AfterMetricTyped ==
  ASSUME NEW S \in SUBSET Alerts
  PROVE  AfterMetric(S) \in Job
BY DEF AfterMetric, Job, Asleep

LEMMA ReportTyped ==
  ASSUME TypeOK, NEW r \in Reports, NEW x \in Request,
         ReportTo(r, x)
  PROVE  report' \in [Reports -> Request]
BY DEF TypeOK, ReportTo

LEMMA SweepTyped ==
  ASSUME TypeOK, NEW w \in Sweeps, NEW x \in Job,
         SweepTo(w, x)
  PROVE  sweep' \in [Sweeps -> Job]
BY DEF TypeOK, SweepTo


LEMMA TypeStep ==
  ASSUME TypeOK, [Next]_vars
  PROVE  TypeOK'
<1>1. ASSUME NEW r \in Reports, Receive(r) PROVE TypeOK'
  <2>1. PICK B \in SUBSET MetricKeys :
          LET breached == {k \in B : rule[k] = "on"} IN
          /\ bad' = (bad \ MetricKeys) \cup B
          /\ \/ UNCHANGED report
             \/ ReportTo(r, [Waiting EXCEPT !.pc = "find", !.todo = breached])
    BY <1>1 DEF Receive
  <2>2. [Waiting EXCEPT !.pc = "find", !.todo = {k \in B : rule[k] = "on"}] \in Request
    BY DEF Waiting, Request
  <2>3. report' \in [Reports -> Request]
    BY <2>1, <2>2, ReportTyped DEF TypeOK
  <2>4. bad' \in SUBSET Keys
    BY <2>1 DEF TypeOK, Keys
  <2> QED
    BY <1>1, <2>3, <2>4, BoundAssumption DEF Receive, TypeOK
<1>2. ASSUME NEW r \in Reports, FindExisting(r) PROVE TypeOK'
  <2>1. PICK k \in report[r].todo :
          LET at == [report[r] EXCEPT !.todo = @ \ {k}, !.key = k] IN
          \/ ReportTo(r, [at EXCEPT !.pc = "create"])
          \/ \E a \in SlotHolders(k) :
               ReportTo(r, [at EXCEPT !.pc = "refresh", !.found = a])
    BY <1>2 DEF FindExisting
  <2> DEFINE at == [report[r] EXCEPT !.todo = @ \ {k}, !.key = k]
  <2>2. at \in Request /\ [at EXCEPT !.pc = "create"] \in Request
    BY DEF TypeOK, Request
  <2>3. \A a \in SlotHolders(k) : [at EXCEPT !.pc = "refresh", !.found = a] \in Request
    BY <2>2 DEF SlotHolders, OfKey, Request
  <2> HIDE DEF at
  <2>4. report' \in [Reports -> Request]
    BY <2>1, <2>2, <2>3, ReportTyped DEF at
  <2> QED
    BY <1>2, <2>4 DEF FindExisting, TypeOK, counts
<1>3. ASSUME NEW r \in Reports, Refresh(r) PROVE TypeOK'
  <2>1. [AfterKey(r) EXCEPT !.key = None, !.found = None] \in Request
    BY AfterKeyTyped DEF Request
  <2>2. report' \in [Reports -> Request]
    BY <1>3, <2>1, WaitingTyped, ReportTyped DEF Refresh
  <2> QED
    BY <1>3, <2>2 DEF Refresh, TypeOK, counts
<1>4. ASSUME NEW r \in Reports, CreateMetric(r) PROVE TypeOK'
  <2> DEFINE k == report[r].key
  <2>0. k \in Keys \cup {None}
    BY DEF TypeOK, Request, Keys
  <2>1. [AfterKey(r) EXCEPT !.key = None] \in Request
    BY AfterKeyTyped DEF Request
  <2>2. \A a \in Alerts :
          [report[r] EXCEPT !.made = @ \cup {a}, !.key = None,
             !.pc = IF report[r].todo = {} THEN "tell" ELSE "find"] \in Request
    BY DEF TypeOK, Request
  <2>3. Created(k) \in Row
    BY <2>0, CreatedTyped
  <2>4. report' \in [Reports -> Request]
    <3>1. \/ \E a \in Alerts : ReportTo(r,
               [report[r] EXCEPT !.made = @ \cup {a}, !.key = None,
                  !.pc = IF report[r].todo = {} THEN "tell" ELSE "find"])
          \/ ReportTo(r, [AfterKey(r) EXCEPT !.key = None])
          \/ ReportTo(r, Waiting)
      BY <1>4 DEF CreateMetric
    <3> QED
      BY <2>1, <2>2, <3>1, WaitingTyped, ReportTyped
  <2>5. alert' \in [Alerts -> Row]
    BY <1>4, <2>3 DEF CreateMetric, TypeOK
  <2> QED
    BY <1>4, <2>4, <2>5 DEF CreateMetric, TypeOK, counts
<1>5. ASSUME NEW r \in Reports, TellMetric(r) PROVE TypeOK'
  <2>1. \A a \in Alerts : [report[r] EXCEPT !.made = @ \ {a}] \in Request
    BY DEF TypeOK, Request
  <2>2. report[r].made \subseteq Alerts
    BY DEF TypeOK, Request
  <2>3. PICK a \in report[r].made :
          /\ told' = [told EXCEPT ![a] = @ + 1]
          /\ ReportTo(r, IF report[r].made = {a} THEN Waiting
                         ELSE [report[r] EXCEPT !.made = @ \ {a}])
    BY <1>5 DEF TellMetric
  <2>4. report' \in [Reports -> Request]
    BY <2>1, <2>2, <2>3, WaitingTyped, ReportTyped
  <2>5. told' \in [Alerts -> Nat]
    BY <2>2, <2>3 DEF TypeOK
  <2> QED
    BY <1>5, <2>4, <2>5 DEF TellMetric, TypeOK, counts
<1>6. ASSUME NEW w \in Sweeps, StartSweep(w) PROVE TypeOK'
  <2> DEFINE on == {k \in PresenceKeys : rule[k] = "on"}
  <2>1. [Asleep EXCEPT !.pc = IF on = {} THEN "list" ELSE "find",
                       !.todo = on, !.off = bad \cap on] \in Job
    BY DEF Asleep, Job
  <2>9. sweep' \in [Sweeps -> Job]
    BY <1>6, <2>1, SweepTyped DEF StartSweep
  <2> QED
    BY <1>6, <2>9 DEF StartSweep, TypeOK, counts
<1>7. ASSUME NEW w \in Sweeps, FindActive(w) PROVE TypeOK'
  <2>1. PICK k \in sweep[w].todo :
          LET held == {a \in SlotHolders(k) : IsActive(a)}
              at == [sweep[w] EXCEPT !.pc = "legacy", !.todo = @ \ {k}, !.key = k] IN
          \/ SweepTo(w, at)
          \/ \E a \in held : SweepTo(w, [at EXCEPT !.act = a])
    BY <1>7 DEF FindActive
  <2> DEFINE at == [sweep[w] EXCEPT !.pc = "legacy", !.todo = @ \ {k}, !.key = k]
  <2>2. at \in Job
    BY DEF TypeOK, Job
  <2>3. \A a \in SlotHolders(k) : [at EXCEPT !.act = a] \in Job
    BY <2>2 DEF SlotHolders, OfKey, Job
  <2> HIDE DEF at
  <2>9. sweep' \in [Sweeps -> Job]
    BY <2>1, <2>2, <2>3, SweepTyped DEF at
  <2> QED
    BY <1>7, <2>9 DEF FindActive, TypeOK, counts
<1>8. ASSUME NEW w \in Sweeps, FindLegacy(w) PROVE TypeOK'
  <2>1. [sweep[w] EXCEPT !.pc = "act",
           !.rest = {a \in OfKey(sweep[w].key) : IsActive(a) /\ ~alert[a].slot}] \in Job
    BY DEF TypeOK, Job, OfKey
  <2>9. sweep' \in [Sweeps -> Job]
    BY <1>8, <2>1, SweepTyped DEF FindLegacy
  <2> QED
    BY <1>8, <2>9 DEF FindLegacy, TypeOK, counts
<1>9. ASSUME NEW w \in Sweeps, RefreshPresence(w) PROVE TypeOK'
  <2>1. [sweep[w] EXCEPT !.pc = "rest"] \in Job
    BY DEF TypeOK, Job
  <2>9. sweep' \in [Sweeps -> Job]
    BY <1>9, <2>1, AsleepTyped, SweepTyped DEF RefreshPresence, Abort
  <2> QED
    BY <1>9, <2>9 DEF RefreshPresence, TypeOK, counts
<1>10. ASSUME NEW w \in Sweeps, PromoteLegacy(w) PROVE TypeOK'
  <2>1. \A a \in Alerts :
          [sweep[w] EXCEPT !.pc = "rest", !.rest = @ \ {a}, !.tell = a] \in Job
    BY DEF TypeOK, Job
  <2>2. sweep[w].rest \subseteq Alerts
    BY DEF TypeOK, Job
  <2>3. \A a \in Alerts : [alert[a] EXCEPT !.slot = TRUE] \in Row
    BY RowTyped DEF Row
  <2>4. sweep' \in [Sweeps -> Job]
    <3>1. \/ \E a \in Alerts : SweepTo(w,
               [sweep[w] EXCEPT !.pc = "rest", !.rest = @ \ {a}, !.tell = a])
          \/ SweepTo(w, Asleep)
      BY <1>10, <2>2 DEF PromoteLegacy, Abort
    <3> QED
      BY <2>1, <3>1, AsleepTyped, SweepTyped
  <2>5. alert' \in [Alerts -> Row]
    BY <1>10, <2>2, <2>3 DEF PromoteLegacy, TypeOK
  <2> QED
    BY <1>10, <2>4, <2>5 DEF PromoteLegacy, TypeOK, counts
<1>11. ASSUME NEW w \in Sweeps, CreatePresence(w) PROVE TypeOK'
  <2> DEFINE k == sweep[w].key
  <2>0. k \in Keys \cup {None}
    BY DEF TypeOK, Job, Keys
  <2>1. \A a \in Alerts : [sweep[w] EXCEPT !.pc = "tell", !.tell = a] \in Job
    BY DEF TypeOK, Job
  <2>2. Created(k) \in Row
    BY <2>0, CreatedTyped
  <2>3. sweep' \in [Sweeps -> Job]
    BY <1>11, <2>1, AsleepTyped, SweepTyped DEF CreatePresence, Abort
  <2>4. alert' \in [Alerts -> Row]
    BY <1>11, <2>2 DEF CreatePresence, TypeOK
  <2> QED
    BY <1>11, <2>3, <2>4 DEF CreatePresence, TypeOK, counts
<1>12. ASSUME NEW w \in Sweeps, ResolvePresence(w) PROVE TypeOK'
  <2>1. [sweep[w] EXCEPT !.pc = "rest"] \in Job
    BY DEF TypeOK, Job
  <2>2. sweep' \in [Sweeps -> Job]
    BY <1>12, <2>1, SweepTyped DEF ResolvePresence
  <2>3. alert' \in [Alerts -> Row]
    BY <1>12, ResolveTyped DEF ResolvePresence
  <2> QED
    BY <1>12, <2>2, <2>3 DEF ResolvePresence, TypeOK, counts
<1>13. ASSUME NEW w \in Sweeps, ResolveRest(w) PROVE TypeOK'
  <2>1. [sweep[w] EXCEPT !.pc = "tell"] \in Job
    BY DEF TypeOK, Job
  <2>2. sweep' \in [Sweeps -> Job]
    BY <1>13, <2>1, AfterPairTyped, SweepTyped DEF ResolveRest
  <2>3. alert' \in [Alerts -> Row]
    BY <1>13, ResolveTyped DEF ResolveRest
  <2> QED
    BY <1>13, <2>2, <2>3 DEF ResolveRest, TypeOK, counts
<1>14. ASSUME NEW w \in Sweeps, TellPresence(w) PROVE TypeOK'
  <2>1. sweep' \in [Sweeps -> Job]
    BY <1>14, AfterPairTyped, SweepTyped DEF TellPresence
  <2>2. told' \in [Alerts -> Nat]
    <3>1. CASE sweep[w].tell \in Alerts
      BY <1>14, <3>1 DEF TellPresence, TypeOK
    <3>2. CASE sweep[w].tell \notin Alerts
      <4>1. told' = told
        BY <1>14, <3>2, Zenon DEF TellPresence, TypeOK
      <4> QED
        BY <4>1 DEF TypeOK
    <3> QED
      BY <3>1, <3>2
  <2> QED
    BY <1>14, <2>1, <2>2 DEF TellPresence, TypeOK, counts
<1>15. ASSUME NEW w \in Sweeps, ListMetric(w) PROVE TypeOK'
  <2>9. sweep' \in [Sweeps -> Job]
    BY <1>15, AfterMetricTyped, SweepTyped DEF ListMetric
  <2> QED
    BY <1>15, <2>9 DEF ListMetric, TypeOK, counts
<1>16. ASSUME NEW w \in Sweeps, JudgeMetric(w) PROVE TypeOK'
  <2>1. sweep[w].metrics \subseteq Alerts
    BY DEF TypeOK, Job
  <2>2. \A a \in Alerts :
          [sweep[w] EXCEPT !.pc = "clear", !.act = a, !.metrics = @ \ {a}] \in Job
    BY DEF TypeOK, Job
  <2>3. PICK a \in sweep[w].metrics :
          SweepTo(w,
            IF Breached(alert[a].key) THEN AfterMetric(sweep[w].metrics \ {a})
            ELSE [sweep[w] EXCEPT !.pc = "clear", !.act = a, !.metrics = @ \ {a}])
    BY <1>16 DEF JudgeMetric
  <2>4. AfterMetric(sweep[w].metrics \ {a}) \in Job
    BY <2>1, AfterMetricTyped
  <2>9. sweep' \in [Sweeps -> Job]
    BY <2>1, <2>2, <2>3, <2>4, SweepTyped
  <2> QED
    BY <1>16, <2>9 DEF JudgeMetric, TypeOK, counts
<1>17. ASSUME NEW w \in Sweeps, ClearMetric(w) PROVE TypeOK'
  <2>1. AfterMetric(sweep[w].metrics) \in Job
    BY AfterMetricTyped DEF TypeOK, Job
  <2>2. sweep' \in [Sweeps -> Job]
    BY <1>17, <2>1, SweepTyped DEF ClearMetric
  <2>3. alert' \in [Alerts -> Row]
    BY <1>17, ResolveTyped DEF ClearMetric
  <2> QED
    BY <1>17, <2>2, <2>3 DEF ClearMetric, TypeOK, counts
<1>18. ASSUME NEW a0 \in Alerts, Acknowledge(a0) PROVE TypeOK'
  <2>1. [alert[a0] EXCEPT !.st = "ACKNOWLEDGED"] \in Row
    BY RowTyped DEF Row
  <2>2. alert' \in [Alerts -> Row]
    BY <1>18, <2>1 DEF Acknowledge, TypeOK
  <2> QED
    BY <1>18, <2>2, BoundAssumption DEF Acknowledge, TypeOK
<1>19. ASSUME NEW a0 \in Alerts, ResolveAlert(a0) PROVE TypeOK'
  <2>1. alert' \in [Alerts -> Row]
    BY <1>19, ResolveTyped DEF ResolveAlert
  <2> QED
    BY <1>19, <2>1, BoundAssumption DEF ResolveAlert, TypeOK
<1>20. ASSUME NEW k \in Keys, UpdateRule(k) PROVE TypeOK'
  BY <1>20, BoundAssumption DEF UpdateRule, TypeOK
<1>21. ASSUME NEW k \in Keys, DeleteRule(k) PROVE TypeOK'
  <2>1. \A a \in Alerts : [alert[a] EXCEPT !.st = "DELETED", !.slot = FALSE] \in Row
    BY RowTyped DEF Row
  <2>2. alert' \in [Alerts -> Row]
    BY <1>21, <2>1 DEF DeleteRule, TypeOK
  <2>3. rule' \in [Keys -> {"on", "off", "deleted"}]
    BY <1>21 DEF DeleteRule, TypeOK
  <2>4. commands' \in 0..MaxCommands
    <3>1. commands < MaxCommands /\ commands' = commands + 1
      BY <1>21, Zenon DEF DeleteRule
    <3> QED
      BY <3>1, BoundAssumption DEF TypeOK
  <2> QED
    BY <1>21, <2>2, <2>3, <2>4 DEF DeleteRule, TypeOK
<1>22. ASSUME NEW k \in PresenceKeys, Flip(k) PROVE TypeOK'
  <2>1. bad' \in SUBSET Keys
    BY <1>22 DEF Flip, TypeOK, Keys
  <2> QED
    BY <1>22, <2>1, BoundAssumption DEF Flip, TypeOK
<1>23. CASE Fault
  <2>1. report' \in [Reports -> Request]
    BY <1>23, WaitingTyped, ReportTyped DEF Fault, TypeOK
  <2>2. sweep' \in [Sweeps -> Job]
    BY <1>23, AsleepTyped, SweepTyped DEF Fault, Abort, TypeOK
  <2> QED
    BY <1>23, <2>1, <2>2, BoundAssumption DEF Fault, TypeOK
<1>24. CASE UNCHANGED vars
  BY <1>24 DEF vars, counts, TypeOK
<1>25. QED
  BY <1>1, <1>2, <1>3, <1>4, <1>5, <1>6, <1>7, <1>8, <1>9, <1>10, <1>11, <1>12, <1>13, <1>14, <1>15, <1>16, <1>17, <1>18, <1>19, <1>20, <1>21, <1>22, <1>23, <1>24 DEF Next, ReportStep, SweepStep

-----------------------------------------------------------------------------
(* What each kind of write does to the invariants of the Alert table *)

OpenedRow(a, k) == CanCreate(k) /\ IsNew(a) /\ alert' = [alert EXCEPT ![a] = Created(k)]

LEMMA TableKept ==
  ASSUME Table, UNCHANGED alert, reopened \subseteq reopened'
  PROVE  Table'
BY DEF Table, SlotUnique, TrackedHoldsSlot, SlotFreed, LegacyIsMetric,
       Tracked, IsActive, Exists

LEMMA TableOpened ==
  ASSUME TypeOK, Table, NEW a \in Alerts, NEW k \in Keys \cup {None}, OpenedRow(a, k),
         UNCHANGED reopened
  PROVE  Table'
<1>1. \A b \in Alerts : b # a => alert'[b] = alert[b]
  BY DEF OpenedRow, TypeOK
<1>2. alert'[a].st = "OPEN" /\ alert'[a].slot /\ alert'[a].key = k
  BY DEF OpenedRow, Created, TypeOK
<1>3. \A b \in Alerts : alert[b].slot /\ alert[b].key = k => FALSE
  BY DEF OpenedRow, CanCreate, SlotHolders, OfKey, Table, SlotUnique
<1>4. a \notin Legacy
  BY DEF OpenedRow, IsNew, Table, LegacyIsMetric
<1>5. SlotUnique'
  BY <1>1, <1>2, <1>3 DEF Table, SlotUnique, Exists
<1>6. TrackedHoldsSlot'
  BY <1>1, <1>2 DEF Table, TrackedHoldsSlot, Tracked, IsActive
<1>7. SlotFreed'
  BY <1>1, <1>2 DEF Table, SlotFreed, Exists, IsActive, Active
<1>8. LegacyIsMetric'
  BY <1>1, <1>4, AlertsAssumption DEF Table, LegacyIsMetric
<1> QED
  BY <1>5, <1>6, <1>7, <1>8 DEF Table

(* A write to the status and the activeKey of some rows, keeping their keys *)
LEMMA TableWritten ==
  ASSUME TypeOK, Table, reopened \subseteq reopened',
         \A a \in Alerts : /\ alert'[a].key = alert[a].key
                           /\ alert'[a].slot => alert[a].slot
                           /\ alert'[a].st = "FREE" <=> alert[a].st = "FREE"
                           /\ alert'[a].slot => alert'[a].st # "DELETED"
                           /\ alert'[a].slot /\ a \notin reopened' =>
                                alert'[a].st \in Active
                           /\ alert'[a].st \in Active /\ a \notin reopened' =>
                                alert[a].st \in Active /\ (alert[a].slot => alert'[a].slot)
  PROVE  Table'
<1>1. SlotUnique'
  BY DEF Table, SlotUnique, Exists
<1>2. TrackedHoldsSlot'
  BY DEF Table, TrackedHoldsSlot, Tracked, IsActive
<1>3. SlotFreed'
  BY DEF Table, SlotFreed, Exists, IsActive
<1>4. LegacyIsMetric'
  BY AlertsAssumption DEF Table, LegacyIsMetric
<1> QED
  BY <1>1, <1>2, <1>3, <1>4 DEF Table

LEMMA TableResolved ==
  ASSUME TypeOK, Table, NEW S, Resolve(S), UNCHANGED reopened
  PROVE  Table'
<1>1. \A a \in Alerts :
        alert'[a] = IF a \in S /\ Exists(a)
                      THEN [alert[a] EXCEPT !.st = "RESOLVED", !.slot = FALSE]
                      ELSE alert[a]
  BY DEF Resolve
<1>2. \A a \in Alerts : alert[a] \in Row
  BY RowTyped
<1>3. ASSUME NEW a \in Alerts
      PROVE  /\ alert'[a].key = alert[a].key
             /\ alert'[a].slot => alert[a].slot
             /\ alert'[a].st = "FREE" <=> alert[a].st = "FREE"
             /\ alert'[a].slot => alert'[a].st # "DELETED"
             /\ alert'[a].slot /\ a \notin reopened' => alert'[a].st \in Active
             /\ alert'[a].st \in Active /\ a \notin reopened' =>
                  alert[a].st \in Active /\ (alert[a].slot => alert'[a].slot)
  <2>1. CASE a \in S /\ Exists(a)
    <3>1. alert'[a].key = alert[a].key /\ alert'[a].st = "RESOLVED" /\ alert'[a].slot = FALSE
      BY <1>1, <1>2, <2>1 DEF Row
    <3> QED
      BY <2>1, <3>1 DEF Exists, Active
  <2>2. CASE ~(a \in S /\ Exists(a))
    <3>1. alert'[a] = alert[a]
      BY <1>1, <2>2
    <3> QED
      BY <3>1 DEF Table, SlotUnique, SlotFreed, Exists, IsActive
  <2> QED
    BY <2>1, <2>2
<1> QED
  BY <1>3, TableWritten

LEMMA TablePromoted ==
  ASSUME TypeOK, Table, NEW a \in reopened, Exists(a),
         SlotHolders(alert[a].key) \subseteq {a},
         alert' = [alert EXCEPT ![a].slot = TRUE], UNCHANGED reopened
  PROVE  Table'
<1>0. a \in Alerts
  BY DEF TypeOK
<1>1. \A b \in Alerts : b # a => alert'[b] = alert[b]
  BY DEF TypeOK
<1>2. alert'[a].st = alert[a].st /\ alert'[a].key = alert[a].key /\ alert'[a].slot
  BY <1>0, RowTyped DEF TypeOK, Row
<1>3. \A b \in Alerts : alert[b].slot /\ alert[b].key = alert[a].key => b = a
  BY DEF SlotHolders, OfKey, Table, SlotUnique
<1>4. SlotUnique'
  BY <1>1, <1>2, <1>3 DEF Table, SlotUnique, Exists
<1>5. TrackedHoldsSlot'
  BY <1>1, <1>2 DEF Table, TrackedHoldsSlot, Tracked, IsActive
<1>6. SlotFreed'
  BY <1>1 DEF Table, SlotFreed, Exists, IsActive
<1>7. LegacyIsMetric'
  BY <1>0, <1>1, <1>2, AlertsAssumption DEF Table, LegacyIsMetric
<1> QED
  BY <1>4, <1>5, <1>6, <1>7 DEF Table


LEMMA TableStep ==
  ASSUME TypeOK, Table, RestReopened, [Next]_vars
  PROVE  Table'
<1>1. ASSUME NEW r \in Reports, Receive(r) PROVE Table'
  BY <1>1, TableKept DEF Receive
<1>2. ASSUME NEW r \in Reports, FindExisting(r) PROVE Table'
  BY <1>2, TableKept DEF FindExisting
<1>3. ASSUME NEW r \in Reports, Refresh(r) PROVE Table'
  BY <1>3, TableKept DEF Refresh
<1>4. ASSUME NEW r \in Reports, CreateMetric(r) PROVE Table'
  <2> DEFINE k == report[r].key
  <2>0. k \in Keys \cup {None}
    BY DEF TypeOK, Request, Keys
  <2>1. (\E a \in Alerts : OpenedRow(a, k)) \/ UNCHANGED alert
    BY <1>4 DEF CreateMetric, OpenedRow
  <2>2. UNCHANGED reopened
    BY <1>4 DEF CreateMetric
  <2> HIDE DEF k
  <2> QED
    BY <2>0, <2>1, <2>2, TableOpened, TableKept
<1>5. ASSUME NEW r \in Reports, TellMetric(r) PROVE Table'
  BY <1>5, TableKept DEF TellMetric
<1>6. ASSUME NEW w \in Sweeps, StartSweep(w) PROVE Table'
  BY <1>6, TableKept DEF StartSweep
<1>7. ASSUME NEW w \in Sweeps, FindActive(w) PROVE Table'
  BY <1>7, TableKept DEF FindActive
<1>8. ASSUME NEW w \in Sweeps, FindLegacy(w) PROVE Table'
  BY <1>8, TableKept DEF FindLegacy
<1>9. ASSUME NEW w \in Sweeps, RefreshPresence(w) PROVE Table'
  BY <1>9, TableKept DEF RefreshPresence
<1>10. ASSUME NEW w \in Sweeps, PromoteLegacy(w) PROVE Table'
  <2>1. PICK a \in sweep[w].rest :
          \/ /\ Exists(a) /\ SlotHolders(sweep[w].key) \subseteq {a}
             /\ alert' = [alert EXCEPT ![a].slot = TRUE]
          \/ UNCHANGED alert
    BY <1>10 DEF PromoteLegacy
  <2>2. a \in reopened /\ alert[a].key = sweep[w].key
    BY DEF RestReopened
  <2>3. UNCHANGED reopened
    BY <1>10 DEF PromoteLegacy
  <2> QED
    BY <2>1, <2>2, <2>3, TablePromoted, TableKept
<1>11. ASSUME NEW w \in Sweeps, CreatePresence(w) PROVE Table'
  <2> DEFINE k == sweep[w].key
  <2>0. k \in Keys \cup {None}
    BY DEF TypeOK, Job, Keys
  <2>1. (\E a \in Alerts : OpenedRow(a, k)) \/ UNCHANGED alert
    BY <1>11 DEF CreatePresence, OpenedRow
  <2>2. UNCHANGED reopened
    BY <1>11 DEF CreatePresence
  <2> HIDE DEF k
  <2> QED
    BY <2>0, <2>1, <2>2, TableOpened, TableKept
<1>12. ASSUME NEW w \in Sweeps, ResolvePresence(w) PROVE Table'
  BY <1>12, TableResolved DEF ResolvePresence
<1>13. ASSUME NEW w \in Sweeps, ResolveRest(w) PROVE Table'
  BY <1>13, TableResolved DEF ResolveRest
<1>14. ASSUME NEW w \in Sweeps, TellPresence(w) PROVE Table'
  BY <1>14, TableKept DEF TellPresence
<1>15. ASSUME NEW w \in Sweeps, ListMetric(w) PROVE Table'
  BY <1>15, TableKept DEF ListMetric
<1>16. ASSUME NEW w \in Sweeps, JudgeMetric(w) PROVE Table'
  BY <1>16, TableKept DEF JudgeMetric
<1>17. ASSUME NEW w \in Sweeps, ClearMetric(w) PROVE Table'
  BY <1>17, TableResolved DEF ClearMetric
<1>18. ASSUME NEW a0 \in Alerts, Acknowledge(a0) PROVE Table'
  <2>1. \A b \in Alerts : b # a0 => alert'[b] = alert[b]
    BY <1>18 DEF Acknowledge, TypeOK
  <2>2. /\ alert'[a0].st = "ACKNOWLEDGED" /\ alert'[a0].key = alert[a0].key
        /\ alert'[a0].slot <=> alert[a0].slot
    <3>1. alert'[a0] = [alert[a0] EXCEPT !.st = "ACKNOWLEDGED"]
      BY <1>18 DEF Acknowledge, TypeOK
    <3> QED
      BY <3>1, RowTyped DEF Row
  <2>3. /\ reopened \subseteq reopened'
        /\ alert[a0].st = "OPEN" \/ a0 \in reopened'
    BY <1>18 DEF Acknowledge
  <2>4. \A b \in Alerts : b # a0 /\ alert[b].slot => alert[b].st # "DELETED"
    BY DEF Table, SlotUnique, Exists
  <2>5. \A b \in Alerts : b # a0 /\ alert[b].slot /\ b \notin reopened' =>
          alert[b].st \in Active
    BY <2>3 DEF Table, SlotUnique, SlotFreed, IsActive
  <2>6. alert[a0].st # "FREE"
    BY <1>18 DEF Acknowledge, Exists
  <2> QED
    BY <2>1, <2>2, <2>3, <2>4, <2>5, <2>6, TableWritten DEF Active
<1>19. ASSUME NEW a0 \in Alerts, ResolveAlert(a0) PROVE Table'
  BY <1>19, TableResolved DEF ResolveAlert
<1>20. ASSUME NEW k \in Keys, UpdateRule(k) PROVE Table'
  BY <1>20, TableKept DEF UpdateRule
<1>21. ASSUME NEW k \in Keys, DeleteRule(k) PROVE Table'
  <2>1. \A a \in Alerts :
          alert'[a] = IF a \in OfKey(k)
                        THEN [alert[a] EXCEPT !.st = "DELETED", !.slot = FALSE]
                        ELSE alert[a]
    BY <1>21 DEF DeleteRule
  <2>2. ASSUME NEW a \in Alerts
        PROVE  /\ alert'[a].key = alert[a].key
               /\ alert'[a].slot => alert[a].slot
               /\ alert'[a].st = "FREE" <=> alert[a].st = "FREE"
               /\ alert'[a].slot => alert'[a].st # "DELETED"
               /\ alert'[a].slot /\ a \notin reopened => alert'[a].st \in Active
               /\ alert'[a].st \in Active /\ a \notin reopened =>
                    alert[a].st \in Active /\ (alert[a].slot => alert'[a].slot)
    <3>1. CASE a \in OfKey(k)
      <4>1. /\ alert'[a].key = alert[a].key /\ alert'[a].st = "DELETED"
            /\ alert'[a].slot = FALSE
        BY <2>1, <3>1, RowTyped DEF Row
      <4> QED
        BY <3>1, <4>1 DEF OfKey, Exists, Active
    <3>2. CASE a \notin OfKey(k)
      <4>1. alert'[a] = alert[a]
        BY <2>1, <3>2
      <4> QED
        BY <4>1 DEF Table, SlotUnique, SlotFreed, Exists, IsActive
    <3> QED
      BY <3>1, <3>2
  <2>3. UNCHANGED reopened
    BY <1>21 DEF DeleteRule
  <2> QED
    BY <2>2, <2>3, TableWritten
<1>22. ASSUME NEW k \in PresenceKeys, Flip(k) PROVE Table'
  BY <1>22, TableKept DEF Flip
<1>23. CASE Fault
  BY <1>23, TableKept DEF Fault
<1>24. CASE UNCHANGED vars
  BY <1>24, TableKept DEF vars
<1>25. QED
  BY <1>1, <1>2, <1>3, <1>4, <1>5, <1>6, <1>7, <1>8, <1>9, <1>10, <1>11, <1>12, <1>13, <1>14, <1>15, <1>16, <1>17, <1>18, <1>19, <1>20, <1>21, <1>22, <1>23, <1>24 DEF Next, ReportStep, SweepStep

-----------------------------------------------------------------------------
(* The slotless alerts a sweep works on *)

(* Job w moves on, dropping its slotless alerts or keeping some of them *)
Moves(w) ==
  /\ \A v \in Sweeps : v # w => sweep'[v] = sweep[v]
  /\ sweep'[w].pc \in {"legacy", "act"} => sweep'[w].key \in PresenceKeys
  /\ sweep'[w].pc = "find" => sweep'[w].rest = {}
  /\ \/ sweep'[w].rest = {}
     \/ sweep'[w].rest \subseteq sweep[w].rest /\ sweep'[w].key = sweep[w].key

LEMMA RestMoved ==
  ASSUME TypeOK, RestReopened, reopened \subseteq reopened',
         \A a \in Alerts : alert[a].st # "FREE" =>
            alert'[a].st # "FREE" /\ alert'[a].key = alert[a].key,
         NEW w \in Sweeps, Moves(w)
  PROVE  RestReopened'
<1> SUFFICES ASSUME NEW v \in Sweeps
             PROVE  /\ sweep'[v].pc \in {"legacy", "act"} => sweep'[v].key \in PresenceKeys
                    /\ sweep'[v].pc = "find" => sweep'[v].rest = {}
                    /\ \A a \in sweep'[v].rest :
                         /\ a \in reopened' /\ alert'[a].st # "FREE"
                         /\ alert'[a].key = sweep'[v].key
  BY DEF RestReopened
<1>1. sweep[v].rest \subseteq Alerts
  BY DEF TypeOK, Job
<1>2. CASE v = w
  BY <1>1, <1>2 DEF RestReopened, Moves
<1>3. CASE v # w
  <2>1. sweep'[v] = sweep[v]
    BY <1>3 DEF Moves
  <2> QED
    BY <1>1, <2>1 DEF RestReopened
<1> QED
  BY <1>2, <1>3

(* The same when no sweep moves *)
LEMMA RestStill ==
  ASSUME TypeOK, RestReopened, reopened \subseteq reopened', UNCHANGED sweep,
         \A a \in Alerts : alert[a].st # "FREE" =>
            alert'[a].st # "FREE" /\ alert'[a].key = alert[a].key
  PROVE  RestReopened'
<1>1. \A v \in Sweeps : sweep[v].rest \subseteq Alerts
  BY DEF TypeOK, Job
<1> QED
  BY <1>1 DEF RestReopened

(* No step takes a row out of the table or gives it another key. *)
LEMMA RowsStay ==
  ASSUME TypeOK, [Next]_vars
  PROVE  /\ \A a \in Alerts : alert[a].st # "FREE" =>
              alert'[a].st # "FREE" /\ alert'[a].key = alert[a].key
         /\ reopened \subseteq reopened'
<1> DEFINE P == /\ \A a \in Alerts : alert[a].st # "FREE" =>
                     alert'[a].st # "FREE" /\ alert'[a].key = alert[a].key
                /\ reopened \subseteq reopened'
<1>0. ASSUME NEW S, Resolve(S), UNCHANGED reopened PROVE P
  <2>1. ASSUME NEW a \in Alerts PROVE
          /\ alert'[a].key = alert[a].key
          /\ alert[a].st # "FREE" => alert'[a].st # "FREE"
    <3>1. alert'[a] = IF a \in S /\ Exists(a)
                        THEN [alert[a] EXCEPT !.st = "RESOLVED", !.slot = FALSE]
                        ELSE alert[a]
      BY <1>0 DEF Resolve
    <3> QED
      BY <3>1, RowTyped DEF Row
  <2> QED
    BY <1>0, <2>1
<1> HIDE DEF P
<1>1. ASSUME NEW r \in Reports, Receive(r) PROVE P
  BY <1>1 DEF Receive, P
<1>2. ASSUME NEW r \in Reports, FindExisting(r) PROVE P
  BY <1>2 DEF FindExisting, P
<1>3. ASSUME NEW r \in Reports, Refresh(r) PROVE P
  BY <1>3 DEF Refresh, P
<1>4. ASSUME NEW r \in Reports, CreateMetric(r) PROVE P
  BY <1>4 DEF CreateMetric, IsNew, TypeOK, P
<1>5. ASSUME NEW r \in Reports, TellMetric(r) PROVE P
  BY <1>5 DEF TellMetric, P
<1>6. ASSUME NEW w \in Sweeps, StartSweep(w) PROVE P
  BY <1>6 DEF StartSweep, P
<1>7. ASSUME NEW w \in Sweeps, FindActive(w) PROVE P
  BY <1>7 DEF FindActive, P
<1>8. ASSUME NEW w \in Sweeps, FindLegacy(w) PROVE P
  BY <1>8 DEF FindLegacy, P
<1>9. ASSUME NEW w \in Sweeps, RefreshPresence(w) PROVE P
  BY <1>9 DEF RefreshPresence, P
<1>10. ASSUME NEW w \in Sweeps, PromoteLegacy(w) PROVE P
  <2>1. PICK a \in sweep[w].rest :
          alert' = [alert EXCEPT ![a].slot = TRUE] \/ UNCHANGED alert
    BY <1>10 DEF PromoteLegacy
  <2>2. \A b \in Alerts : alert'[b].key = alert[b].key /\ alert'[b].st = alert[b].st
    BY <2>1, RowTyped DEF TypeOK, Row
  <2> QED
    BY <1>10, <2>2 DEF PromoteLegacy, P
<1>11. ASSUME NEW w \in Sweeps, CreatePresence(w) PROVE P
  BY <1>11 DEF CreatePresence, IsNew, TypeOK, P
<1>12. ASSUME NEW w \in Sweeps, ResolvePresence(w) PROVE P
  BY <1>12, <1>0 DEF ResolvePresence
<1>13. ASSUME NEW w \in Sweeps, ResolveRest(w) PROVE P
  BY <1>13, <1>0 DEF ResolveRest
<1>14. ASSUME NEW w \in Sweeps, TellPresence(w) PROVE P
  BY <1>14 DEF TellPresence, P
<1>15. ASSUME NEW w \in Sweeps, ListMetric(w) PROVE P
  BY <1>15 DEF ListMetric, P
<1>16. ASSUME NEW w \in Sweeps, JudgeMetric(w) PROVE P
  BY <1>16 DEF JudgeMetric, P
<1>17. ASSUME NEW w \in Sweeps, ClearMetric(w) PROVE P
  BY <1>17, <1>0 DEF ClearMetric
<1>18. ASSUME NEW a0 \in Alerts, Acknowledge(a0) PROVE P
  <2>1. \A b \in Alerts : alert'[b] = IF b = a0
                             THEN [alert[b] EXCEPT !.st = "ACKNOWLEDGED"] ELSE alert[b]
    BY <1>18 DEF Acknowledge, TypeOK
  <2>2. \A b \in Alerts : alert'[b].key = alert[b].key
    BY <2>1, RowTyped DEF Row
  <2>3. \A b \in Alerts : alert[b].st # "FREE" => alert'[b].st # "FREE"
    BY <2>1, RowTyped DEF Row
  <2>4. reopened \subseteq reopened'
    BY <1>18 DEF Acknowledge
  <2> QED
    BY <2>2, <2>3, <2>4 DEF P
<1>19. ASSUME NEW a0 \in Alerts, ResolveAlert(a0) PROVE P
  BY <1>19, <1>0 DEF ResolveAlert
<1>20. ASSUME NEW k \in Keys, UpdateRule(k) PROVE P
  BY <1>20 DEF UpdateRule, P
<1>21. ASSUME NEW k \in Keys, DeleteRule(k) PROVE P
  <2>1. \A b \in Alerts : alert'[b] = IF b \in OfKey(k)
             THEN [alert[b] EXCEPT !.st = "DELETED", !.slot = FALSE] ELSE alert[b]
    BY <1>21 DEF DeleteRule
  <2>2. \A b \in Alerts : alert'[b].key = alert[b].key
    BY <2>1, RowTyped DEF Row
  <2>3. \A b \in Alerts : alert[b].st # "FREE" => alert'[b].st # "FREE"
    BY <2>1, RowTyped DEF Row
  <2> QED
    BY <1>21, <2>2, <2>3 DEF DeleteRule, P
<1>22. ASSUME NEW k \in PresenceKeys, Flip(k) PROVE P
  BY <1>22 DEF Flip, P
<1>23. CASE Fault
  BY <1>23 DEF Fault, P
<1>24. CASE UNCHANGED vars
  BY <1>24 DEF vars, P
<1>25. QED
  BY <1>1, <1>2, <1>3, <1>4, <1>5, <1>6, <1>7, <1>8, <1>9, <1>10, <1>11, <1>12, <1>13, <1>14, <1>15, <1>16, <1>17, <1>18, <1>19, <1>20, <1>21, <1>22, <1>23, <1>24 DEF Next, ReportStep, SweepStep, P

LEMMA RestStep ==
  ASSUME TypeOK, Table, RestReopened, [Next]_vars
  PROVE  RestReopened'
<1>0. /\ \A a \in Alerts : alert[a].st # "FREE" =>
           alert'[a].st # "FREE" /\ alert'[a].key = alert[a].key
      /\ reopened \subseteq reopened'
  BY RowsStay
<1>a. Asleep.pc = "idle" /\ Asleep.rest = {}
  BY DEF Asleep
<1>1. ASSUME NEW r \in Reports, Receive(r) PROVE RestReopened'
  BY <1>1, <1>0, RestStill DEF Receive
<1>2. ASSUME NEW r \in Reports, FindExisting(r) PROVE RestReopened'
  BY <1>2, <1>0, RestStill DEF FindExisting
<1>3. ASSUME NEW r \in Reports, Refresh(r) PROVE RestReopened'
  BY <1>3, <1>0, RestStill DEF Refresh
<1>4. ASSUME NEW r \in Reports, CreateMetric(r) PROVE RestReopened'
  BY <1>4, <1>0, RestStill DEF CreateMetric
<1>5. ASSUME NEW r \in Reports, TellMetric(r) PROVE RestReopened'
  BY <1>5, <1>0, RestStill DEF TellMetric
<1>6. ASSUME NEW w \in Sweeps, StartSweep(w) PROVE RestReopened'
  <2>1. \E on \in SUBSET PresenceKeys : SweepTo(w, [Asleep EXCEPT !.pc = IF on = {} THEN "list" ELSE "find",
                                    !.todo = on, !.off = bad \cap on])
    BY <1>6 DEF StartSweep
  <2>2. sweep[w] \in Job /\ sweep[w].pc = "idle"
    BY <1>6 DEF StartSweep, TypeOK
  <2>3. \A v \in Sweeps : v # w => sweep'[v] = sweep[v]
    BY <2>1 DEF SweepTo, TypeOK
  <2>4. ASSUME NEW on \in SUBSET PresenceKeys, SweepTo(w, [Asleep EXCEPT !.pc = IF on = {} THEN "list" ELSE "find",
                                    !.todo = on, !.off = bad \cap on])
        PROVE  /\ sweep'[w].pc \notin {"legacy", "act"}
               /\ sweep'[w].pc = "find" => sweep'[w].rest = {}
               /\ \/ sweep'[w].rest = {}
                  \/ sweep'[w].rest \subseteq sweep[w].rest /\ sweep'[w].key = sweep[w].key
    <3>1. sweep'[w] = [Asleep EXCEPT !.pc = IF on = {} THEN "list" ELSE "find",
                                    !.todo = on, !.off = bad \cap on]
      BY <2>4 DEF SweepTo, TypeOK
    <3> QED
      BY <1>a, <2>2, <3>1 DEF Job, AfterPair, AfterMetric, Asleep
  <2>5. Moves(w)
    BY <2>1, <2>3, <2>4 DEF Moves
  <2> QED
    BY <1>0, <2>5, RestMoved
<1>7. ASSUME NEW w \in Sweeps, FindActive(w) PROVE RestReopened'
  <2>1. sweep[w] \in Job /\ sweep[w].pc = "find"
    BY <1>7 DEF FindActive, TypeOK
  <2>2. PICK k \in sweep[w].todo :
          LET held == {a \in SlotHolders(k) : IsActive(a)}
              at == [sweep[w] EXCEPT !.pc = "legacy", !.todo = @ \ {k}, !.key = k] IN
          \/ SweepTo(w, at)
          \/ \E a \in held : SweepTo(w, [at EXCEPT !.act = a])
    BY <1>7 DEF FindActive
  <2>3. k \in PresenceKeys /\ sweep[w].rest = {}
    BY <2>1 DEF Job, RestReopened
  <2> DEFINE at == [sweep[w] EXCEPT !.pc = "legacy", !.todo = @ \ {k}, !.key = k]
  <2>4. at.pc = "legacy" /\ at.key = k /\ at.rest = {}
    BY <2>1, <2>3 DEF Job
  <2>5. ASSUME NEW a PROVE
          LET x == [at EXCEPT !.act = a] IN
          x.pc = "legacy" /\ x.key = k /\ x.rest = {}
    BY <2>1, <2>3 DEF Job
  <2>6. PICK x : SweepTo(w, x) /\ x.pc = "legacy" /\ x.key = k /\ x.rest = {}
    BY <2>2, <2>4, <2>5
  <2>7. Moves(w)
    BY <2>1, <2>3, <2>6 DEF Moves, SweepTo, TypeOK
  <2> QED
    BY <1>0, <2>7, RestMoved
<1>8. ASSUME NEW w \in Sweeps, FindLegacy(w) PROVE RestReopened'
  <2> DEFINE S == {a \in OfKey(sweep[w].key) : IsActive(a) /\ ~alert[a].slot}
  <2>1. SweepTo(w, [sweep[w] EXCEPT !.pc = "act", !.rest = S])
    BY <1>8 DEF FindLegacy
  <2>2. sweep[w] \in Job /\ sweep[w].key \in PresenceKeys
    BY <1>8 DEF FindLegacy, TypeOK, RestReopened
  <2>3. ASSUME NEW a \in S
        PROVE  a \in reopened /\ alert[a].st # "FREE" /\ alert[a].key = sweep[w].key
    <3>1. a \in Alerts /\ alert[a].key = sweep[w].key /\ alert[a].st \in Active
      BY DEF OfKey, IsActive
    <3>2. a \in Legacy \cup reopened
      BY <3>1 DEF Table, TrackedHoldsSlot, Tracked
    <3>3. a \notin Legacy
      BY <2>2, <3>1, KeyAssumption DEF Table, LegacyIsMetric
    <3> QED
      BY <3>1, <3>2, <3>3 DEF Active
  <2>4. UNCHANGED <<alert, reopened>>
    BY <1>8 DEF FindLegacy
  <2>5. sweep'[w].key = sweep[w].key /\ sweep'[w].rest = S /\ sweep'[w].pc = "act"
    BY <2>1, <2>2 DEF SweepTo, TypeOK, Job
  <2>6. \A v \in Sweeps : v # w => sweep'[v] = sweep[v]
    BY <2>1 DEF SweepTo, TypeOK
  <2> HIDE DEF S
  <2> QED
    BY <2>2, <2>3, <2>4, <2>5, <2>6 DEF RestReopened
<1>9. ASSUME NEW w \in Sweeps, RefreshPresence(w) PROVE RestReopened'
  <2>1. \/ SweepTo(w, [sweep[w] EXCEPT !.pc = "rest"])
        \/ SweepTo(w, Asleep)
    BY <1>9 DEF RefreshPresence, Abort
  <2>2. sweep[w] \in Job /\ sweep[w].pc = "act"
    BY <1>9 DEF RefreshPresence, TypeOK
  <2>3. \A v \in Sweeps : v # w => sweep'[v] = sweep[v]
    BY <2>1 DEF SweepTo, TypeOK
  <2>4. ASSUME SweepTo(w, [sweep[w] EXCEPT !.pc = "rest"])
        PROVE  /\ sweep'[w].pc \notin {"legacy", "act"}
               /\ sweep'[w].pc = "find" => sweep'[w].rest = {}
               /\ \/ sweep'[w].rest = {}
                  \/ sweep'[w].rest \subseteq sweep[w].rest /\ sweep'[w].key = sweep[w].key
    <3>1. sweep'[w] = [sweep[w] EXCEPT !.pc = "rest"]
      BY <2>4 DEF SweepTo, TypeOK
    <3> QED
      BY <1>a, <2>2, <3>1 DEF Job, AfterPair, AfterMetric, Asleep
  <2>5. ASSUME SweepTo(w, Asleep)
        PROVE  /\ sweep'[w].pc \notin {"legacy", "act"}
               /\ sweep'[w].pc = "find" => sweep'[w].rest = {}
               /\ \/ sweep'[w].rest = {}
                  \/ sweep'[w].rest \subseteq sweep[w].rest /\ sweep'[w].key = sweep[w].key
    <3>1. sweep'[w] = Asleep
      BY <2>5 DEF SweepTo, TypeOK
    <3> QED
      BY <1>a, <2>2, <3>1 DEF Job, AfterPair, AfterMetric, Asleep
  <2>6. Moves(w)
    BY <2>1, <2>3, <2>4, <2>5 DEF Moves
  <2> QED
    BY <1>0, <2>6, RestMoved
<1>10. ASSUME NEW w \in Sweeps, PromoteLegacy(w) PROVE RestReopened'
  <2>1. \/ \E a \in sweep[w].rest : SweepTo(w, [sweep[w] EXCEPT !.pc = "rest", !.rest = @ \ {a}, !.tell = a])
        \/ SweepTo(w, Asleep)
    BY <1>10 DEF PromoteLegacy, Abort
  <2>2. sweep[w] \in Job /\ sweep[w].pc = "act"
    BY <1>10 DEF PromoteLegacy, TypeOK
  <2>3. \A v \in Sweeps : v # w => sweep'[v] = sweep[v]
    BY <2>1 DEF SweepTo, TypeOK
  <2>4. ASSUME NEW a \in sweep[w].rest, SweepTo(w, [sweep[w] EXCEPT !.pc = "rest", !.rest = @ \ {a}, !.tell = a])
        PROVE  /\ sweep'[w].pc \notin {"legacy", "act"}
               /\ sweep'[w].pc = "find" => sweep'[w].rest = {}
               /\ \/ sweep'[w].rest = {}
                  \/ sweep'[w].rest \subseteq sweep[w].rest /\ sweep'[w].key = sweep[w].key
    <3>1. sweep'[w] = [sweep[w] EXCEPT !.pc = "rest", !.rest = @ \ {a}, !.tell = a]
      BY <2>4 DEF SweepTo, TypeOK
    <3> QED
      BY <1>a, <2>2, <3>1 DEF Job, AfterPair, AfterMetric, Asleep
  <2>5. ASSUME SweepTo(w, Asleep)
        PROVE  /\ sweep'[w].pc \notin {"legacy", "act"}
               /\ sweep'[w].pc = "find" => sweep'[w].rest = {}
               /\ \/ sweep'[w].rest = {}
                  \/ sweep'[w].rest \subseteq sweep[w].rest /\ sweep'[w].key = sweep[w].key
    <3>1. sweep'[w] = Asleep
      BY <2>5 DEF SweepTo, TypeOK
    <3> QED
      BY <1>a, <2>2, <3>1 DEF Job, AfterPair, AfterMetric, Asleep
  <2>6. Moves(w)
    BY <2>1, <2>3, <2>4, <2>5 DEF Moves
  <2> QED
    BY <1>0, <2>6, RestMoved
<1>11. ASSUME NEW w \in Sweeps, CreatePresence(w) PROVE RestReopened'
  <2>1. \/ \E a \in Alerts : SweepTo(w, [sweep[w] EXCEPT !.pc = "tell", !.tell = a])
        \/ SweepTo(w, Asleep)
    BY <1>11 DEF CreatePresence, Abort
  <2>2. sweep[w] \in Job /\ sweep[w].pc = "act"
    BY <1>11 DEF CreatePresence, TypeOK
  <2>3. \A v \in Sweeps : v # w => sweep'[v] = sweep[v]
    BY <2>1 DEF SweepTo, TypeOK
  <2>4. ASSUME NEW a \in Alerts, SweepTo(w, [sweep[w] EXCEPT !.pc = "tell", !.tell = a])
        PROVE  /\ sweep'[w].pc \notin {"legacy", "act"}
               /\ sweep'[w].pc = "find" => sweep'[w].rest = {}
               /\ \/ sweep'[w].rest = {}
                  \/ sweep'[w].rest \subseteq sweep[w].rest /\ sweep'[w].key = sweep[w].key
    <3>1. sweep'[w] = [sweep[w] EXCEPT !.pc = "tell", !.tell = a]
      BY <2>4 DEF SweepTo, TypeOK
    <3> QED
      BY <1>a, <2>2, <3>1 DEF Job, AfterPair, AfterMetric, Asleep
  <2>5. ASSUME SweepTo(w, Asleep)
        PROVE  /\ sweep'[w].pc \notin {"legacy", "act"}
               /\ sweep'[w].pc = "find" => sweep'[w].rest = {}
               /\ \/ sweep'[w].rest = {}
                  \/ sweep'[w].rest \subseteq sweep[w].rest /\ sweep'[w].key = sweep[w].key
    <3>1. sweep'[w] = Asleep
      BY <2>5 DEF SweepTo, TypeOK
    <3> QED
      BY <1>a, <2>2, <3>1 DEF Job, AfterPair, AfterMetric, Asleep
  <2>6. Moves(w)
    BY <2>1, <2>3, <2>4, <2>5 DEF Moves
  <2> QED
    BY <1>0, <2>6, RestMoved
<1>12. ASSUME NEW w \in Sweeps, ResolvePresence(w) PROVE RestReopened'
  <2>1. SweepTo(w, [sweep[w] EXCEPT !.pc = "rest"])
    BY <1>12 DEF ResolvePresence
  <2>2. sweep[w] \in Job /\ sweep[w].pc = "act"
    BY <1>12 DEF ResolvePresence, TypeOK
  <2>3. \A v \in Sweeps : v # w => sweep'[v] = sweep[v]
    BY <2>1 DEF SweepTo, TypeOK
  <2>4. ASSUME SweepTo(w, [sweep[w] EXCEPT !.pc = "rest"])
        PROVE  /\ sweep'[w].pc \notin {"legacy", "act"}
               /\ sweep'[w].pc = "find" => sweep'[w].rest = {}
               /\ \/ sweep'[w].rest = {}
                  \/ sweep'[w].rest \subseteq sweep[w].rest /\ sweep'[w].key = sweep[w].key
    <3>1. sweep'[w] = [sweep[w] EXCEPT !.pc = "rest"]
      BY <2>4 DEF SweepTo, TypeOK
    <3> QED
      BY <1>a, <2>2, <3>1 DEF Job, AfterPair, AfterMetric, Asleep
  <2>5. Moves(w)
    BY <2>1, <2>3, <2>4 DEF Moves
  <2> QED
    BY <1>0, <2>5, RestMoved
<1>13. ASSUME NEW w \in Sweeps, ResolveRest(w) PROVE RestReopened'
  <2>1. \/ SweepTo(w, AfterPair(w))
        \/ SweepTo(w, [sweep[w] EXCEPT !.pc = "tell"])
    BY <1>13 DEF ResolveRest
  <2>2. sweep[w] \in Job /\ sweep[w].pc = "rest"
    BY <1>13 DEF ResolveRest, TypeOK
  <2>3. \A v \in Sweeps : v # w => sweep'[v] = sweep[v]
    BY <2>1 DEF SweepTo, TypeOK
  <2>4. ASSUME SweepTo(w, AfterPair(w))
        PROVE  /\ sweep'[w].pc \notin {"legacy", "act"}
               /\ sweep'[w].pc = "find" => sweep'[w].rest = {}
               /\ \/ sweep'[w].rest = {}
                  \/ sweep'[w].rest \subseteq sweep[w].rest /\ sweep'[w].key = sweep[w].key
    <3>1. sweep'[w] = AfterPair(w)
      BY <2>4 DEF SweepTo, TypeOK
    <3> QED
      BY <1>a, <2>2, <3>1 DEF Job, AfterPair, AfterMetric, Asleep
  <2>5. ASSUME SweepTo(w, [sweep[w] EXCEPT !.pc = "tell"])
        PROVE  /\ sweep'[w].pc \notin {"legacy", "act"}
               /\ sweep'[w].pc = "find" => sweep'[w].rest = {}
               /\ \/ sweep'[w].rest = {}
                  \/ sweep'[w].rest \subseteq sweep[w].rest /\ sweep'[w].key = sweep[w].key
    <3>1. sweep'[w] = [sweep[w] EXCEPT !.pc = "tell"]
      BY <2>5 DEF SweepTo, TypeOK
    <3> QED
      BY <1>a, <2>2, <3>1 DEF Job, AfterPair, AfterMetric, Asleep
  <2>6. Moves(w)
    BY <2>1, <2>3, <2>4, <2>5 DEF Moves
  <2> QED
    BY <1>0, <2>6, RestMoved
<1>14. ASSUME NEW w \in Sweeps, TellPresence(w) PROVE RestReopened'
  <2>1. SweepTo(w, AfterPair(w))
    BY <1>14 DEF TellPresence
  <2>2. sweep[w] \in Job /\ sweep[w].pc = "tell"
    BY <1>14 DEF TellPresence, TypeOK
  <2>3. \A v \in Sweeps : v # w => sweep'[v] = sweep[v]
    BY <2>1 DEF SweepTo, TypeOK
  <2>4. ASSUME SweepTo(w, AfterPair(w))
        PROVE  /\ sweep'[w].pc \notin {"legacy", "act"}
               /\ sweep'[w].pc = "find" => sweep'[w].rest = {}
               /\ \/ sweep'[w].rest = {}
                  \/ sweep'[w].rest \subseteq sweep[w].rest /\ sweep'[w].key = sweep[w].key
    <3>1. sweep'[w] = AfterPair(w)
      BY <2>4 DEF SweepTo, TypeOK
    <3> QED
      BY <1>a, <2>2, <3>1 DEF Job, AfterPair, AfterMetric, Asleep
  <2>5. Moves(w)
    BY <2>1, <2>3, <2>4 DEF Moves
  <2> QED
    BY <1>0, <2>5, RestMoved
<1>15. ASSUME NEW w \in Sweeps, ListMetric(w) PROVE RestReopened'
  <2>1. \E S \in SUBSET Alerts : SweepTo(w, AfterMetric(S))
    BY <1>15 DEF ListMetric
  <2>2. sweep[w] \in Job /\ sweep[w].pc = "list"
    BY <1>15 DEF ListMetric, TypeOK
  <2>3. \A v \in Sweeps : v # w => sweep'[v] = sweep[v]
    BY <2>1 DEF SweepTo, TypeOK
  <2>4. ASSUME NEW S \in SUBSET Alerts, SweepTo(w, AfterMetric(S))
        PROVE  /\ sweep'[w].pc \notin {"legacy", "act"}
               /\ sweep'[w].pc = "find" => sweep'[w].rest = {}
               /\ \/ sweep'[w].rest = {}
                  \/ sweep'[w].rest \subseteq sweep[w].rest /\ sweep'[w].key = sweep[w].key
    <3>1. sweep'[w] = AfterMetric(S)
      BY <2>4 DEF SweepTo, TypeOK
    <3> QED
      BY <1>a, <2>2, <3>1 DEF Job, AfterPair, AfterMetric, Asleep
  <2>5. Moves(w)
    BY <2>1, <2>3, <2>4 DEF Moves
  <2> QED
    BY <1>0, <2>5, RestMoved
<1>16. ASSUME NEW w \in Sweeps, JudgeMetric(w) PROVE RestReopened'
  <2>1. \/ \E a \in sweep[w].metrics : SweepTo(w, AfterMetric(sweep[w].metrics \ {a}))
        \/ \E a \in sweep[w].metrics : SweepTo(w, [sweep[w] EXCEPT !.pc = "clear", !.act = a, !.metrics = @ \ {a}])
    BY <1>16 DEF JudgeMetric
  <2>2. sweep[w] \in Job /\ sweep[w].pc = "metric"
    BY <1>16 DEF JudgeMetric, TypeOK
  <2>3. \A v \in Sweeps : v # w => sweep'[v] = sweep[v]
    BY <2>1 DEF SweepTo, TypeOK
  <2>4. ASSUME NEW a \in sweep[w].metrics, SweepTo(w, AfterMetric(sweep[w].metrics \ {a}))
        PROVE  /\ sweep'[w].pc \notin {"legacy", "act"}
               /\ sweep'[w].pc = "find" => sweep'[w].rest = {}
               /\ \/ sweep'[w].rest = {}
                  \/ sweep'[w].rest \subseteq sweep[w].rest /\ sweep'[w].key = sweep[w].key
    <3>1. sweep'[w] = AfterMetric(sweep[w].metrics \ {a})
      BY <2>4 DEF SweepTo, TypeOK
    <3> QED
      BY <1>a, <2>2, <3>1 DEF Job, AfterPair, AfterMetric, Asleep
  <2>5. ASSUME NEW a \in sweep[w].metrics, SweepTo(w, [sweep[w] EXCEPT !.pc = "clear", !.act = a, !.metrics = @ \ {a}])
        PROVE  /\ sweep'[w].pc \notin {"legacy", "act"}
               /\ sweep'[w].pc = "find" => sweep'[w].rest = {}
               /\ \/ sweep'[w].rest = {}
                  \/ sweep'[w].rest \subseteq sweep[w].rest /\ sweep'[w].key = sweep[w].key
    <3>1. sweep'[w] = [sweep[w] EXCEPT !.pc = "clear", !.act = a, !.metrics = @ \ {a}]
      BY <2>5 DEF SweepTo, TypeOK
    <3> QED
      BY <1>a, <2>2, <3>1 DEF Job, AfterPair, AfterMetric, Asleep
  <2>6. Moves(w)
    BY <2>1, <2>3, <2>4, <2>5 DEF Moves
  <2> QED
    BY <1>0, <2>6, RestMoved
<1>17. ASSUME NEW w \in Sweeps, ClearMetric(w) PROVE RestReopened'
  <2>1. SweepTo(w, AfterMetric(sweep[w].metrics))
    BY <1>17 DEF ClearMetric
  <2>2. sweep[w] \in Job /\ sweep[w].pc = "clear"
    BY <1>17 DEF ClearMetric, TypeOK
  <2>3. \A v \in Sweeps : v # w => sweep'[v] = sweep[v]
    BY <2>1 DEF SweepTo, TypeOK
  <2>4. ASSUME SweepTo(w, AfterMetric(sweep[w].metrics))
        PROVE  /\ sweep'[w].pc \notin {"legacy", "act"}
               /\ sweep'[w].pc = "find" => sweep'[w].rest = {}
               /\ \/ sweep'[w].rest = {}
                  \/ sweep'[w].rest \subseteq sweep[w].rest /\ sweep'[w].key = sweep[w].key
    <3>1. sweep'[w] = AfterMetric(sweep[w].metrics)
      BY <2>4 DEF SweepTo, TypeOK
    <3> QED
      BY <1>a, <2>2, <3>1 DEF Job, AfterPair, AfterMetric, Asleep
  <2>5. Moves(w)
    BY <2>1, <2>3, <2>4 DEF Moves
  <2> QED
    BY <1>0, <2>5, RestMoved
<1>18. ASSUME NEW a0 \in Alerts, Acknowledge(a0) PROVE RestReopened'
  BY <1>18, <1>0, RestStill DEF Acknowledge
<1>19. ASSUME NEW a0 \in Alerts, ResolveAlert(a0) PROVE RestReopened'
  BY <1>19, <1>0, RestStill DEF ResolveAlert
<1>20. ASSUME NEW k \in Keys, UpdateRule(k) PROVE RestReopened'
  BY <1>20, <1>0, RestStill DEF UpdateRule
<1>21. ASSUME NEW k \in Keys, DeleteRule(k) PROVE RestReopened'
  BY <1>21, <1>0, RestStill DEF DeleteRule
<1>22. ASSUME NEW k \in PresenceKeys, Flip(k) PROVE RestReopened'
  BY <1>22, <1>0, RestStill DEF Flip
<1>23. CASE Fault
  <2>1. UNCHANGED sweep \/ \E w \in Sweeps : SweepTo(w, Asleep)
    BY <1>23 DEF Fault, Abort
  <2>2. ASSUME NEW w \in Sweeps, SweepTo(w, Asleep) PROVE Moves(w)
    BY <1>a, <2>2 DEF Moves, SweepTo, TypeOK
  <2> QED
    BY <1>0, <2>1, <2>2, RestStill, RestMoved
<1>24. CASE UNCHANGED vars
  BY <1>24, <1>0, RestStill DEF vars
<1>25. QED
  BY <1>1, <1>2, <1>3, <1>4, <1>5, <1>6, <1>7, <1>8, <1>9, <1>10, <1>11, <1>12, <1>13, <1>14, <1>15, <1>16, <1>17, <1>18, <1>19, <1>20, <1>21, <1>22, <1>23, <1>24 DEF Next, ReportStep, SweepStep

-----------------------------------------------------------------------------
(* Notifications *)

(* The requests and jobs that owe a notification of a row *)
LEMMA OwnersAreTyped ==
  ASSUME TypeOK
  PROVE  /\ \A r \in Reports : \A a : Owes(r, a) => a \in Alerts
         /\ \A w \in Sweeps : \A a : OwesToo(w, a) /\ a # None => a \in Alerts
BY DEF TypeOK, Request, Job, Owes, OwesToo

(* A step that gives nobody a new duty and notifies nobody *)
LEMMA NotifyKept ==
  ASSUME TypeOK, [Next]_vars, Notifications, NotifiedOnce, UNCHANGED told,
         \A a \in Alerts : alert'[a].st = "FREE" => alert[a].st = "FREE",
         reopened' \subseteq reopened \/
           \E a \in Alerts : alert[a].st # "FREE" /\ reopened' = reopened \cup {a},
         \A r \in Reports, a \in Alerts : Owes(r, a)' => Owes(r, a),
         \A w \in Sweeps, a \in Alerts \ reopened : OwesToo(w, a)' => OwesToo(w, a)
  PROVE  Notifications' /\ NotifiedOnce'
<1>1. reopened \subseteq reopened'
  BY RowsStay
<1>2. \A a \in Alerts : alert'[a].st = "FREE" => a \notin reopened'
  BY DEF Notifications
<1>3. ASSUME NEW a \in Alerts, alert'[a].st = "FREE"
      PROVE  /\ told'[a] = 0 /\ a \notin reopened'
             /\ \A r \in Reports : ~Owes(r, a)'
             /\ \A w \in Sweeps : ~OwesToo(w, a)'
  BY <1>2, <1>3 DEF Notifications
<1>4. ASSUME NEW a \in Alerts \ reopened'
      PROVE  /\ \A r \in Reports : Owes(r, a)' => told'[a] = 0
             /\ \A w \in Sweeps : OwesToo(w, a)' => told'[a] = 0
             /\ \A r, q \in Reports : Owes(r, a)' /\ Owes(q, a)' => r = q
             /\ \A w, v \in Sweeps : OwesToo(w, a)' /\ OwesToo(v, a)' => w = v
             /\ \A r \in Reports, w \in Sweeps : ~(Owes(r, a)' /\ OwesToo(w, a)')
  <2>1. a \in Alerts \ reopened
    BY <1>1
  <2> QED
    BY <2>1 DEF Notifications
<1>5. NotifiedOnce'
  BY <1>1 DEF NotifiedOnce
<1>6. Notifications'
  BY <1>3, <1>4 DEF Notifications
<1> QED
  BY <1>5, <1>6


(* No row returns to the stock of unused identities. *)
LEMMA FreeShrinks ==
  ASSUME TypeOK, [Next]_vars
  PROVE  \A a \in Alerts : alert'[a].st = "FREE" => alert[a].st = "FREE"
BY RowsStay

(* Row a is inserted: request r or job w has to notify it, nobody else. *)
LEMMA NotifyInserted ==
  ASSUME TypeOK, [Next]_vars, Notifications, NotifiedOnce, UNCHANGED <<told, reopened>>,
         NEW a \in Alerts, alert[a].st = "FREE", alert'[a].st # "FREE",
         \/ /\ \E r \in Reports : \A q \in Reports, b \in Alerts :
                 Owes(q, b)' <=> Owes(q, b) \/ (q = r /\ b = a)
            /\ \A w \in Sweeps, b \in Alerts : OwesToo(w, b)' <=> OwesToo(w, b)
         \/ /\ \A r \in Reports, b \in Alerts : Owes(r, b)' <=> Owes(r, b)
            /\ \E w \in Sweeps : \A v \in Sweeps, b \in Alerts :
                 OwesToo(v, b)' => \/ v = w /\ b = a
                                   \/ v # w /\ OwesToo(v, b)
  PROVE  Notifications' /\ NotifiedOnce'
<1>1. \A b \in Alerts : alert'[b].st = "FREE" => alert[b].st = "FREE" /\ b # a
  BY FreeShrinks
<1>2. /\ told[a] = 0
      /\ \A r \in Reports : ~Owes(r, a)
      /\ \A w \in Sweeps : ~OwesToo(w, a)
  BY DEF Notifications
<1>3. ASSUME NEW b \in Alerts, alert'[b].st = "FREE"
      PROVE  /\ told'[b] = 0 /\ b \notin reopened'
             /\ \A r \in Reports : ~Owes(r, b)'
             /\ \A w \in Sweeps : ~OwesToo(w, b)'
  BY <1>1, <1>3 DEF Notifications
<1>4. ASSUME NEW b \in Alerts \ reopened'
      PROVE  /\ \A r \in Reports : Owes(r, b)' => told'[b] = 0
             /\ \A w \in Sweeps : OwesToo(w, b)' => told'[b] = 0
             /\ \A r, q \in Reports : Owes(r, b)' /\ Owes(q, b)' => r = q
             /\ \A w, v \in Sweeps : OwesToo(w, b)' /\ OwesToo(v, b)' => w = v
             /\ \A r \in Reports, w \in Sweeps : ~(Owes(r, b)' /\ OwesToo(w, b)')
  <2>1. CASE b = a
    BY <1>2, <2>1
  <2>2. CASE b # a
    <3>1. /\ \A r \in Reports : Owes(r, b)' => Owes(r, b)
          /\ \A w \in Sweeps : OwesToo(w, b)' => OwesToo(w, b)
      BY <2>2
    <3> QED
      BY <3>1 DEF Notifications
  <2> QED
    BY <2>1, <2>2
<1>5. NotifiedOnce'
  BY DEF NotifiedOnce
<1>6. Notifications'
  BY <1>3, <1>4 DEF Notifications
<1> QED
  BY <1>5, <1>6

(* Row a is notified by the one that owed it, which owes it no more. *)
LEMMA NotifyDone ==
  ASSUME TypeOK, [Next]_vars, Notifications, NotifiedOnce, UNCHANGED <<alert, reopened>>,
         NEW a \in Alerts, told' = [told EXCEPT ![a] = @ + 1],
         \A r \in Reports, b \in Alerts : Owes(r, b)' => Owes(r, b),
         \A w \in Sweeps, b \in Alerts : OwesToo(w, b)' => OwesToo(w, b),
         \/ \E r \in Reports : Owes(r, a) /\ ~Owes(r, a)'
         \/ \E w \in Sweeps : OwesToo(w, a) /\ ~OwesToo(w, a)'
  PROVE  Notifications' /\ NotifiedOnce'
<1>1. /\ told'[a] = told[a] + 1
      /\ \A b \in Alerts : b # a => told'[b] = told[b]
  BY DEF TypeOK
<1>2. alert[a].st # "FREE"
  BY DEF Notifications
<1>3. a \notin reopened =>
        /\ told[a] = 0
        /\ \A r \in Reports : ~Owes(r, a)'
        /\ \A w \in Sweeps : ~OwesToo(w, a)'
  BY DEF Notifications
<1>4. ASSUME NEW b \in Alerts, alert'[b].st = "FREE"
      PROVE  /\ told'[b] = 0 /\ b \notin reopened'
             /\ \A r \in Reports : ~Owes(r, b)'
             /\ \A w \in Sweeps : ~OwesToo(w, b)'
  BY <1>1, <1>2, <1>4 DEF Notifications
<1>5. ASSUME NEW b \in Alerts \ reopened'
      PROVE  /\ \A r \in Reports : Owes(r, b)' => told'[b] = 0
             /\ \A w \in Sweeps : OwesToo(w, b)' => told'[b] = 0
             /\ \A r, q \in Reports : Owes(r, b)' /\ Owes(q, b)' => r = q
             /\ \A w, v \in Sweeps : OwesToo(w, b)' /\ OwesToo(v, b)' => w = v
             /\ \A r \in Reports, w \in Sweeps : ~(Owes(r, b)' /\ OwesToo(w, b)')
  <2>1. CASE b = a
    BY <1>3, <2>1
  <2>2. CASE b # a
    BY <1>1, <2>2 DEF Notifications
  <2> QED
    BY <2>1, <2>2
<1>6. NotifiedOnce'
  <2> SUFFICES ASSUME NEW b \in Alerts \ reopened PROVE told'[b] <= 1
    BY DEF NotifiedOnce
  <2>1. CASE b = a
    BY <1>1, <1>3, <2>1
  <2>2. CASE b # a
    BY <1>1, <2>2 DEF NotifiedOnce
  <2> QED
    BY <2>1, <2>2
<1>7. Notifications'
  BY <1>4, <1>5 DEF Notifications
<1> QED
  BY <1>6, <1>7


LEMMA NotifyStep ==
  ASSUME TypeOK, Table, RestReopened, Notifications, NotifiedOnce, [Next]_vars
  PROVE  Notifications' /\ NotifiedOnce'
<1>0. \A a \in Alerts : alert'[a].st = "FREE" => alert[a].st = "FREE"
  BY FreeShrinks
<1>1. ASSUME NEW r \in Reports, Receive(r) PROVE Notifications' /\ NotifiedOnce'
  <2>1. \/ UNCHANGED report
        \/ \E S \in SUBSET MetricKeys : ReportTo(r, [Waiting EXCEPT !.pc = "find", !.todo = S])
    BY <1>1 DEF Receive
  <2>2. \A q \in Reports : q # r => report'[q] = report[q]
    BY <2>1 DEF ReportTo, TypeOK
  <2>3. report[r] \in Request
    BY DEF TypeOK
  <2>4. ASSUME UNCHANGED report PROVE report'[r].made \subseteq report[r].made
    BY <2>4
  <2>5. ASSUME NEW S \in SUBSET MetricKeys, ReportTo(r, [Waiting EXCEPT !.pc = "find", !.todo = S])
        PROVE  report'[r].made \subseteq report[r].made
    <3>1. report'[r] = [Waiting EXCEPT !.pc = "find", !.todo = S]
      BY <2>5 DEF ReportTo, TypeOK
    <3> QED
      BY <2>3, <3>1 DEF Request, AfterKey, Waiting
  <2>6. \A q \in Reports, b \in Alerts : Owes(q, b)' => Owes(q, b)
    BY <2>1, <2>2, <2>4, <2>5 DEF Owes
  <2> QED
    BY <1>1, <1>0, <2>6, NotifyKept DEF Receive, OwesToo
<1>2. ASSUME NEW r \in Reports, FindExisting(r) PROVE Notifications' /\ NotifiedOnce'
  <2>1. \/ \E k \in report[r].todo : ReportTo(r, [report[r] EXCEPT !.todo = @ \ {k}, !.key = k, !.pc = "create"])
        \/ \E k \in report[r].todo, a \in Alerts : ReportTo(r, [report[r] EXCEPT !.todo = @ \ {k}, !.key = k, !.pc = "refresh", !.found = a])
    <3>1. PICK k \in report[r].todo :
            LET at == [report[r] EXCEPT !.todo = @ \ {k}, !.key = k] IN
            \/ ReportTo(r, [at EXCEPT !.pc = "create"])
            \/ \E a \in Alerts : ReportTo(r, [at EXCEPT !.pc = "refresh", !.found = a])
      BY <1>2 DEF FindExisting, SlotHolders, OfKey
    <3> QED
      BY <3>1
  <2>2. \A q \in Reports : q # r => report'[q] = report[q]
    BY <2>1 DEF ReportTo, TypeOK
  <2>3. report[r] \in Request
    BY DEF TypeOK
  <2>4. ASSUME NEW k \in report[r].todo, ReportTo(r, [report[r] EXCEPT !.todo = @ \ {k}, !.key = k, !.pc = "create"])
        PROVE  report'[r].made \subseteq report[r].made
    <3>1. report'[r] = [report[r] EXCEPT !.todo = @ \ {k}, !.key = k, !.pc = "create"]
      BY <2>4 DEF ReportTo, TypeOK
    <3> QED
      BY <2>3, <3>1 DEF Request, AfterKey, Waiting
  <2>5. ASSUME NEW k \in report[r].todo, NEW a \in Alerts, ReportTo(r, [report[r] EXCEPT !.todo = @ \ {k}, !.key = k, !.pc = "refresh", !.found = a])
        PROVE  report'[r].made \subseteq report[r].made
    <3>1. report'[r] = [report[r] EXCEPT !.todo = @ \ {k}, !.key = k, !.pc = "refresh", !.found = a]
      BY <2>5 DEF ReportTo, TypeOK
    <3> QED
      BY <2>3, <3>1 DEF Request, AfterKey, Waiting
  <2>6. \A q \in Reports, b \in Alerts : Owes(q, b)' => Owes(q, b)
    BY <2>1, <2>2, <2>4, <2>5 DEF Owes
  <2> QED
    BY <1>2, <1>0, <2>6, NotifyKept DEF FindExisting, OwesToo
<1>3. ASSUME NEW r \in Reports, Refresh(r) PROVE Notifications' /\ NotifiedOnce'
  <2>1. \/ ReportTo(r, [AfterKey(r) EXCEPT !.key = None, !.found = None])
        \/ ReportTo(r, Waiting)
    BY <1>3 DEF Refresh
  <2>2. \A q \in Reports : q # r => report'[q] = report[q]
    BY <2>1 DEF ReportTo, TypeOK
  <2>3. report[r] \in Request
    BY DEF TypeOK
  <2>4. ASSUME ReportTo(r, [AfterKey(r) EXCEPT !.key = None, !.found = None])
        PROVE  report'[r].made \subseteq report[r].made
    <3>1. report'[r] = [AfterKey(r) EXCEPT !.key = None, !.found = None]
      BY <2>4 DEF ReportTo, TypeOK
    <3> QED
      BY <2>3, <3>1 DEF Request, AfterKey, Waiting
  <2>5. ASSUME ReportTo(r, Waiting)
        PROVE  report'[r].made \subseteq report[r].made
    <3>1. report'[r] = Waiting
      BY <2>5 DEF ReportTo, TypeOK
    <3> QED
      BY <2>3, <3>1 DEF Request, AfterKey, Waiting
  <2>6. \A q \in Reports, b \in Alerts : Owes(q, b)' => Owes(q, b)
    BY <2>1, <2>2, <2>4, <2>5 DEF Owes
  <2> QED
    BY <1>3, <1>0, <2>6, NotifyKept DEF Refresh, OwesToo
<1>4. ASSUME NEW r \in Reports, CreateMetric(r) PROVE Notifications' /\ NotifiedOnce'
  <2>1. CASE \E a \in Alerts :
               /\ IsNew(a) /\ alert' = [alert EXCEPT ![a] = Created(report[r].key)]
               /\ ReportTo(r, [report[r] EXCEPT
                                 !.made = @ \cup {a}, !.key = None,
                                 !.pc = IF report[r].todo = {} THEN "tell" ELSE "find"])
    <3>1. PICK a \in Alerts :
            /\ IsNew(a) /\ alert' = [alert EXCEPT ![a] = Created(report[r].key)]
            /\ ReportTo(r, [report[r] EXCEPT
                              !.made = @ \cup {a}, !.key = None,
                              !.pc = IF report[r].todo = {} THEN "tell" ELSE "find"])
      BY <2>1
    <3>2. alert[a].st = "FREE" /\ alert'[a].st # "FREE"
      BY <3>1 DEF IsNew, Created, TypeOK
    <3>3. \A q \in Reports, b \in Alerts :
            Owes(q, b)' <=> Owes(q, b) \/ (q = r /\ b = a)
      BY <3>1 DEF Owes, ReportTo, TypeOK, Request
    <3>4. UNCHANGED <<told, reopened, sweep>>
      BY <1>4 DEF CreateMetric
    <3>5. \A w \in Sweeps, b \in Alerts : OwesToo(w, b)' <=> OwesToo(w, b)
      BY <3>4 DEF OwesToo
    <3> QED
      BY <1>0, <3>2, <3>3, <3>4, <3>5, NotifyInserted
  <2>2. CASE ReportTo(r, [AfterKey(r) EXCEPT !.key = None]) \/ ReportTo(r, Waiting)
    <3>1. \A q \in Reports, b \in Alerts : Owes(q, b)' => Owes(q, b)
      BY <2>2 DEF Owes, ReportTo, TypeOK, Request, Waiting, AfterKey
    <3>2. UNCHANGED <<told, reopened, sweep>>
      BY <1>4 DEF CreateMetric
    <3> QED
      BY <1>0, <3>1, <3>2, NotifyKept DEF OwesToo
  <2> QED
    BY <1>4, <2>1, <2>2 DEF CreateMetric
<1>5. ASSUME NEW r \in Reports, TellMetric(r) PROVE Notifications' /\ NotifiedOnce'
  <2>1. PICK a \in report[r].made :
          /\ told' = [told EXCEPT ![a] = @ + 1]
          /\ ReportTo(r, IF report[r].made = {a} THEN Waiting
                         ELSE [report[r] EXCEPT !.made = @ \ {a}])
    BY <1>5 DEF TellMetric
  <2>2. a \in Alerts /\ Owes(r, a)
    BY DEF Owes, TypeOK, Request
  <2>3. report'[r].made = report[r].made \ {a}
    <3>1. CASE report[r].made = {a}
      BY <2>1, <3>1 DEF ReportTo, TypeOK, Waiting
    <3>2. CASE report[r].made # {a}
      BY <2>1, <3>2 DEF ReportTo, TypeOK, Request
    <3> QED
      BY <3>1, <3>2
  <2>4. \A q \in Reports : q # r => report'[q] = report[q]
    BY <2>1 DEF ReportTo, TypeOK
  <2>5. /\ \A q \in Reports, b \in Alerts : Owes(q, b)' => Owes(q, b)
        /\ ~Owes(r, a)'
    BY <2>3, <2>4 DEF Owes
  <2>6. UNCHANGED <<alert, reopened, sweep>>
    BY <1>5 DEF TellMetric
  <2>7. \A w \in Sweeps, b \in Alerts : OwesToo(w, b)' => OwesToo(w, b)
    BY <2>6 DEF OwesToo
  <2> QED
    BY <1>0, <2>1, <2>2, <2>5, <2>6, <2>7, NotifyDone
<1>6. ASSUME NEW w \in Sweeps, StartSweep(w) PROVE Notifications' /\ NotifiedOnce'
  <2>1. \/ \E on \in SUBSET PresenceKeys : SweepTo(w, [Asleep EXCEPT !.pc = IF on = {} THEN "list" ELSE "find",
                                    !.todo = on, !.off = bad \cap on])
    BY <1>6 DEF StartSweep
  <2>2. sweep[w] \in Job
    BY DEF TypeOK
  <2>3. \A v \in Sweeps : v # w => sweep'[v] = sweep[v]
    BY <2>1 DEF SweepTo, TypeOK
  <2>4. ASSUME NEW on \in SUBSET PresenceKeys, SweepTo(w, [Asleep EXCEPT !.pc = IF on = {} THEN "list" ELSE "find",
                                    !.todo = on, !.off = bad \cap on])
        PROVE  sweep'[w].tell \in {sweep[w].tell, None}
    <3>1. sweep'[w] = [Asleep EXCEPT !.pc = IF on = {} THEN "list" ELSE "find",
                                    !.todo = on, !.off = bad \cap on]
      BY <2>4 DEF SweepTo, TypeOK
    <3> QED
      BY <2>2, <3>1 DEF Job, AfterPair, AfterMetric, Asleep
  <2>5. sweep'[w].tell \in {sweep[w].tell, None}
    BY <2>1, <2>4
  <2>6. \A v \in Sweeps, b \in Alerts : OwesToo(v, b)' => OwesToo(v, b)
    BY <2>5, <2>3, NoneAssumption DEF OwesToo
  <2> QED
    BY <1>6, <1>0, <2>6, NotifyKept DEF StartSweep, Owes
<1>7. ASSUME NEW w \in Sweeps, FindActive(w) PROVE Notifications' /\ NotifiedOnce'
  <2>1. \/ \E k \in sweep[w].todo : SweepTo(w, [sweep[w] EXCEPT !.pc = "legacy", !.todo = @ \ {k}, !.key = k])
        \/ \E k \in sweep[w].todo, a \in Alerts : SweepTo(w, [sweep[w] EXCEPT !.pc = "legacy", !.todo = @ \ {k}, !.key = k, !.act = a])
    <3>1. PICK k \in sweep[w].todo :
            LET at == [sweep[w] EXCEPT !.pc = "legacy", !.todo = @ \ {k}, !.key = k] IN
            \/ SweepTo(w, at)
            \/ \E a \in Alerts : SweepTo(w, [at EXCEPT !.act = a])
      BY <1>7 DEF FindActive, SlotHolders, OfKey
    <3> QED
      BY <3>1
  <2>2. sweep[w] \in Job
    BY DEF TypeOK
  <2>3. \A v \in Sweeps : v # w => sweep'[v] = sweep[v]
    BY <2>1 DEF SweepTo, TypeOK
  <2>4. ASSUME NEW k \in sweep[w].todo, SweepTo(w, [sweep[w] EXCEPT !.pc = "legacy", !.todo = @ \ {k}, !.key = k])
        PROVE  sweep'[w].tell \in {sweep[w].tell, None}
    <3>1. sweep'[w] = [sweep[w] EXCEPT !.pc = "legacy", !.todo = @ \ {k}, !.key = k]
      BY <2>4 DEF SweepTo, TypeOK
    <3> QED
      BY <2>2, <3>1 DEF Job, AfterPair, AfterMetric, Asleep
  <2>5. ASSUME NEW k \in sweep[w].todo, NEW a \in Alerts, SweepTo(w, [sweep[w] EXCEPT !.pc = "legacy", !.todo = @ \ {k}, !.key = k, !.act = a])
        PROVE  sweep'[w].tell \in {sweep[w].tell, None}
    <3>1. sweep'[w] = [sweep[w] EXCEPT !.pc = "legacy", !.todo = @ \ {k}, !.key = k, !.act = a]
      BY <2>5 DEF SweepTo, TypeOK
    <3> QED
      BY <2>2, <3>1 DEF Job, AfterPair, AfterMetric, Asleep
  <2>6. sweep'[w].tell \in {sweep[w].tell, None}
    BY <2>1, <2>4, <2>5
  <2>7. \A v \in Sweeps, b \in Alerts : OwesToo(v, b)' => OwesToo(v, b)
    BY <2>6, <2>3, NoneAssumption DEF OwesToo
  <2> QED
    BY <1>7, <1>0, <2>7, NotifyKept DEF FindActive, Owes
<1>8. ASSUME NEW w \in Sweeps, FindLegacy(w) PROVE Notifications' /\ NotifiedOnce'
  <2>1. \/ \E S \in SUBSET Alerts : SweepTo(w, [sweep[w] EXCEPT !.pc = "act", !.rest = S])
    BY <1>8 DEF FindLegacy, OfKey
  <2>2. sweep[w] \in Job
    BY DEF TypeOK
  <2>3. \A v \in Sweeps : v # w => sweep'[v] = sweep[v]
    BY <2>1 DEF SweepTo, TypeOK
  <2>4. ASSUME NEW S \in SUBSET Alerts, SweepTo(w, [sweep[w] EXCEPT !.pc = "act", !.rest = S])
        PROVE  sweep'[w].tell \in {sweep[w].tell, None}
    <3>1. sweep'[w] = [sweep[w] EXCEPT !.pc = "act", !.rest = S]
      BY <2>4 DEF SweepTo, TypeOK
    <3> QED
      BY <2>2, <3>1 DEF Job, AfterPair, AfterMetric, Asleep
  <2>5. sweep'[w].tell \in {sweep[w].tell, None}
    BY <2>1, <2>4
  <2>6. \A v \in Sweeps, b \in Alerts : OwesToo(v, b)' => OwesToo(v, b)
    BY <2>5, <2>3, NoneAssumption DEF OwesToo
  <2> QED
    BY <1>8, <1>0, <2>6, NotifyKept DEF FindLegacy, Owes
<1>9. ASSUME NEW w \in Sweeps, RefreshPresence(w) PROVE Notifications' /\ NotifiedOnce'
  <2>1. \/ SweepTo(w, [sweep[w] EXCEPT !.pc = "rest"])
        \/ SweepTo(w, Asleep)
    BY <1>9 DEF RefreshPresence, Abort
  <2>2. sweep[w] \in Job
    BY DEF TypeOK
  <2>3. \A v \in Sweeps : v # w => sweep'[v] = sweep[v]
    BY <2>1 DEF SweepTo, TypeOK
  <2>4. ASSUME SweepTo(w, [sweep[w] EXCEPT !.pc = "rest"])
        PROVE  sweep'[w].tell \in {sweep[w].tell, None}
    <3>1. sweep'[w] = [sweep[w] EXCEPT !.pc = "rest"]
      BY <2>4 DEF SweepTo, TypeOK
    <3> QED
      BY <2>2, <3>1 DEF Job, AfterPair, AfterMetric, Asleep
  <2>5. ASSUME SweepTo(w, Asleep)
        PROVE  sweep'[w].tell \in {sweep[w].tell, None}
    <3>1. sweep'[w] = Asleep
      BY <2>5 DEF SweepTo, TypeOK
    <3> QED
      BY <2>2, <3>1 DEF Job, AfterPair, AfterMetric, Asleep
  <2>6. sweep'[w].tell \in {sweep[w].tell, None}
    BY <2>1, <2>4, <2>5
  <2>7. \A v \in Sweeps, b \in Alerts : OwesToo(v, b)' => OwesToo(v, b)
    BY <2>6, <2>3, NoneAssumption DEF OwesToo
  <2> QED
    BY <1>9, <1>0, <2>7, NotifyKept DEF RefreshPresence, Owes
<1>10. ASSUME NEW w \in Sweeps, PromoteLegacy(w) PROVE Notifications' /\ NotifiedOnce'
  <2>1. \/ \E a \in sweep[w].rest : SweepTo(w, [sweep[w] EXCEPT !.pc = "rest", !.rest = @ \ {a}, !.tell = a])
        \/ SweepTo(w, Asleep)
    BY <1>10 DEF PromoteLegacy, Abort
  <2>2. sweep[w] \in Job
    BY DEF TypeOK
  <2>3. \A v \in Sweeps : v # w => sweep'[v] = sweep[v]
    BY <2>1 DEF SweepTo, TypeOK
  <2>4. ASSUME NEW a \in sweep[w].rest, SweepTo(w, [sweep[w] EXCEPT !.pc = "rest", !.rest = @ \ {a}, !.tell = a])
        PROVE  sweep'[w].tell \in sweep[w].rest \cup {None}
    <3>1. sweep'[w] = [sweep[w] EXCEPT !.pc = "rest", !.rest = @ \ {a}, !.tell = a]
      BY <2>4 DEF SweepTo, TypeOK
    <3> QED
      BY <2>2, <3>1 DEF Job, AfterPair, AfterMetric, Asleep
  <2>5. ASSUME SweepTo(w, Asleep)
        PROVE  sweep'[w].tell \in sweep[w].rest \cup {None}
    <3>1. sweep'[w] = Asleep
      BY <2>5 DEF SweepTo, TypeOK
    <3> QED
      BY <2>2, <3>1 DEF Job, AfterPair, AfterMetric, Asleep
  <2>6. sweep'[w].tell \in sweep[w].rest \cup {None}
    BY <2>1, <2>4, <2>5
  <2>7. \A v \in Sweeps, b \in Alerts \ reopened : OwesToo(v, b)' => OwesToo(v, b)
    BY <2>6, <2>3, NoneAssumption DEF OwesToo, RestReopened
  <2> QED
    BY <1>10, <1>0, <2>7, NotifyKept DEF PromoteLegacy, Owes
<1>11. ASSUME NEW w \in Sweeps, CreatePresence(w) PROVE Notifications' /\ NotifiedOnce'
  <2>0. UNCHANGED <<told, reopened, report>>
    BY <1>11 DEF CreatePresence
  <2>1. CASE \E a \in Alerts :
               /\ IsNew(a) /\ alert' = [alert EXCEPT ![a] = Created(sweep[w].key)]
               /\ SweepTo(w, [sweep[w] EXCEPT !.pc = "tell", !.tell = a])
    <3>1. PICK a \in Alerts :
            /\ IsNew(a) /\ alert' = [alert EXCEPT ![a] = Created(sweep[w].key)]
            /\ SweepTo(w, [sweep[w] EXCEPT !.pc = "tell", !.tell = a])
      BY <2>1
    <3>2. alert[a].st = "FREE" /\ alert'[a].st # "FREE"
      BY <3>1 DEF IsNew, Created, TypeOK
    <3>3. sweep'[w].tell = a /\ \A v \in Sweeps : v # w => sweep'[v] = sweep[v]
      BY <3>1 DEF SweepTo, TypeOK, Job
    <3>4. \A v \in Sweeps, b \in Alerts :
            OwesToo(v, b)' => \/ v = w /\ b = a
                              \/ v # w /\ OwesToo(v, b)
      BY <3>3 DEF OwesToo
    <3>5. \A r \in Reports, b \in Alerts : Owes(r, b)' <=> Owes(r, b)
      BY <2>0 DEF Owes
    <3> QED
      BY <1>0, <2>0, <3>2, <3>4, <3>5, NotifyInserted
  <2>2. CASE SweepTo(w, Asleep)
    <3>1. sweep'[w].tell = None /\ \A v \in Sweeps : v # w => sweep'[v] = sweep[v]
      BY <2>2 DEF SweepTo, TypeOK, Asleep
    <3>2. \A v \in Sweeps, b \in Alerts : OwesToo(v, b)' => OwesToo(v, b)
      BY <3>1, NoneAssumption DEF OwesToo
    <3> QED
      BY <1>0, <2>0, <3>2, NotifyKept DEF Owes
  <2> QED
    BY <1>11, <2>1, <2>2 DEF CreatePresence, Abort
<1>12. ASSUME NEW w \in Sweeps, ResolvePresence(w) PROVE Notifications' /\ NotifiedOnce'
  <2>1. \/ SweepTo(w, [sweep[w] EXCEPT !.pc = "rest"])
    BY <1>12 DEF ResolvePresence
  <2>2. sweep[w] \in Job
    BY DEF TypeOK
  <2>3. \A v \in Sweeps : v # w => sweep'[v] = sweep[v]
    BY <2>1 DEF SweepTo, TypeOK
  <2>4. ASSUME SweepTo(w, [sweep[w] EXCEPT !.pc = "rest"])
        PROVE  sweep'[w].tell \in {sweep[w].tell, None}
    <3>1. sweep'[w] = [sweep[w] EXCEPT !.pc = "rest"]
      BY <2>4 DEF SweepTo, TypeOK
    <3> QED
      BY <2>2, <3>1 DEF Job, AfterPair, AfterMetric, Asleep
  <2>5. sweep'[w].tell \in {sweep[w].tell, None}
    BY <2>1, <2>4
  <2>6. \A v \in Sweeps, b \in Alerts : OwesToo(v, b)' => OwesToo(v, b)
    BY <2>5, <2>3, NoneAssumption DEF OwesToo
  <2> QED
    BY <1>12, <1>0, <2>6, NotifyKept DEF ResolvePresence, Owes
<1>13. ASSUME NEW w \in Sweeps, ResolveRest(w) PROVE Notifications' /\ NotifiedOnce'
  <2>1. \/ SweepTo(w, AfterPair(w))
        \/ SweepTo(w, [sweep[w] EXCEPT !.pc = "tell"])
    BY <1>13 DEF ResolveRest
  <2>2. sweep[w] \in Job
    BY DEF TypeOK
  <2>3. \A v \in Sweeps : v # w => sweep'[v] = sweep[v]
    BY <2>1 DEF SweepTo, TypeOK
  <2>4. ASSUME SweepTo(w, AfterPair(w))
        PROVE  sweep'[w].tell \in {sweep[w].tell, None}
    <3>1. sweep'[w] = AfterPair(w)
      BY <2>4 DEF SweepTo, TypeOK
    <3> QED
      BY <2>2, <3>1 DEF Job, AfterPair, AfterMetric, Asleep
  <2>5. ASSUME SweepTo(w, [sweep[w] EXCEPT !.pc = "tell"])
        PROVE  sweep'[w].tell \in {sweep[w].tell, None}
    <3>1. sweep'[w] = [sweep[w] EXCEPT !.pc = "tell"]
      BY <2>5 DEF SweepTo, TypeOK
    <3> QED
      BY <2>2, <3>1 DEF Job, AfterPair, AfterMetric, Asleep
  <2>6. sweep'[w].tell \in {sweep[w].tell, None}
    BY <2>1, <2>4, <2>5
  <2>7. \A v \in Sweeps, b \in Alerts : OwesToo(v, b)' => OwesToo(v, b)
    BY <2>6, <2>3, NoneAssumption DEF OwesToo
  <2> QED
    BY <1>13, <1>0, <2>7, NotifyKept DEF ResolveRest, Owes
<1>14. ASSUME NEW w \in Sweeps, TellPresence(w) PROVE Notifications' /\ NotifiedOnce'
  <2>0. /\ told' = [told EXCEPT ![sweep[w].tell] = @ + 1]
        /\ SweepTo(w, AfterPair(w)) /\ UNCHANGED <<alert, reopened, report>>
    BY <1>14 DEF TellPresence
  <2>1. sweep'[w].tell = None /\ \A v \in Sweeps : v # w => sweep'[v] = sweep[v]
    BY <2>0 DEF SweepTo, TypeOK, AfterPair, Asleep
  <2>2. \A v \in Sweeps, b \in Alerts : OwesToo(v, b)' => OwesToo(v, b)
    BY <2>1, NoneAssumption DEF OwesToo
  <2>3. \A r \in Reports, b \in Alerts : Owes(r, b)' => Owes(r, b)
    BY <2>0 DEF Owes
  <2>4. CASE sweep[w].tell \in Alerts
    <3>1. PICK a \in Alerts : a = sweep[w].tell
      BY <2>4
    <3>2. OwesToo(w, a) /\ ~OwesToo(w, a)'
      BY <2>1, <3>1, NoneAssumption DEF OwesToo
    <3>3. told' = [told EXCEPT ![a] = @ + 1]
      BY <2>0, <3>1
    <3> QED
      BY <1>0, <2>0, <2>2, <2>3, <3>2, <3>3, NotifyDone
  <2>5. CASE sweep[w].tell \notin Alerts
    <3>1. told' = told
      BY <2>0, <2>5, Zenon DEF TypeOK
    <3> QED
      BY <1>0, <2>0, <2>2, <2>3, <3>1, NotifyKept
  <2> QED
    BY <2>4, <2>5
<1>15. ASSUME NEW w \in Sweeps, ListMetric(w) PROVE Notifications' /\ NotifiedOnce'
  <2>1. \/ \E S \in SUBSET Alerts : SweepTo(w, AfterMetric(S))
    BY <1>15 DEF ListMetric
  <2>2. sweep[w] \in Job
    BY DEF TypeOK
  <2>3. \A v \in Sweeps : v # w => sweep'[v] = sweep[v]
    BY <2>1 DEF SweepTo, TypeOK
  <2>4. ASSUME NEW S \in SUBSET Alerts, SweepTo(w, AfterMetric(S))
        PROVE  sweep'[w].tell \in {sweep[w].tell, None}
    <3>1. sweep'[w] = AfterMetric(S)
      BY <2>4 DEF SweepTo, TypeOK
    <3> QED
      BY <2>2, <3>1 DEF Job, AfterPair, AfterMetric, Asleep
  <2>5. sweep'[w].tell \in {sweep[w].tell, None}
    BY <2>1, <2>4
  <2>6. \A v \in Sweeps, b \in Alerts : OwesToo(v, b)' => OwesToo(v, b)
    BY <2>5, <2>3, NoneAssumption DEF OwesToo
  <2> QED
    BY <1>15, <1>0, <2>6, NotifyKept DEF ListMetric, Owes
<1>16. ASSUME NEW w \in Sweeps, JudgeMetric(w) PROVE Notifications' /\ NotifiedOnce'
  <2>1. \/ \E a \in sweep[w].metrics : SweepTo(w, AfterMetric(sweep[w].metrics \ {a}))
        \/ \E a \in sweep[w].metrics : SweepTo(w, [sweep[w] EXCEPT !.pc = "clear", !.act = a, !.metrics = @ \ {a}])
    BY <1>16 DEF JudgeMetric
  <2>2. sweep[w] \in Job
    BY DEF TypeOK
  <2>3. \A v \in Sweeps : v # w => sweep'[v] = sweep[v]
    BY <2>1 DEF SweepTo, TypeOK
  <2>4. ASSUME NEW a \in sweep[w].metrics, SweepTo(w, AfterMetric(sweep[w].metrics \ {a}))
        PROVE  sweep'[w].tell \in {sweep[w].tell, None}
    <3>1. sweep'[w] = AfterMetric(sweep[w].metrics \ {a})
      BY <2>4 DEF SweepTo, TypeOK
    <3> QED
      BY <2>2, <3>1 DEF Job, AfterPair, AfterMetric, Asleep
  <2>5. ASSUME NEW a \in sweep[w].metrics, SweepTo(w, [sweep[w] EXCEPT !.pc = "clear", !.act = a, !.metrics = @ \ {a}])
        PROVE  sweep'[w].tell \in {sweep[w].tell, None}
    <3>1. sweep'[w] = [sweep[w] EXCEPT !.pc = "clear", !.act = a, !.metrics = @ \ {a}]
      BY <2>5 DEF SweepTo, TypeOK
    <3> QED
      BY <2>2, <3>1 DEF Job, AfterPair, AfterMetric, Asleep
  <2>6. sweep'[w].tell \in {sweep[w].tell, None}
    BY <2>1, <2>4, <2>5
  <2>7. \A v \in Sweeps, b \in Alerts : OwesToo(v, b)' => OwesToo(v, b)
    BY <2>6, <2>3, NoneAssumption DEF OwesToo
  <2> QED
    BY <1>16, <1>0, <2>7, NotifyKept DEF JudgeMetric, Owes
<1>17. ASSUME NEW w \in Sweeps, ClearMetric(w) PROVE Notifications' /\ NotifiedOnce'
  <2>1. \/ SweepTo(w, AfterMetric(sweep[w].metrics))
    BY <1>17 DEF ClearMetric
  <2>2. sweep[w] \in Job
    BY DEF TypeOK
  <2>3. \A v \in Sweeps : v # w => sweep'[v] = sweep[v]
    BY <2>1 DEF SweepTo, TypeOK
  <2>4. ASSUME SweepTo(w, AfterMetric(sweep[w].metrics))
        PROVE  sweep'[w].tell \in {sweep[w].tell, None}
    <3>1. sweep'[w] = AfterMetric(sweep[w].metrics)
      BY <2>4 DEF SweepTo, TypeOK
    <3> QED
      BY <2>2, <3>1 DEF Job, AfterPair, AfterMetric, Asleep
  <2>5. sweep'[w].tell \in {sweep[w].tell, None}
    BY <2>1, <2>4
  <2>6. \A v \in Sweeps, b \in Alerts : OwesToo(v, b)' => OwesToo(v, b)
    BY <2>5, <2>3, NoneAssumption DEF OwesToo
  <2> QED
    BY <1>17, <1>0, <2>6, NotifyKept DEF ClearMetric, Owes
<1>18. ASSUME NEW a0 \in Alerts, Acknowledge(a0) PROVE Notifications' /\ NotifiedOnce'
  <2>1. alert[a0].st # "FREE" /\ UNCHANGED <<told, report, sweep>>
    BY <1>18 DEF Acknowledge, Exists
  <2>2. reopened' \subseteq reopened \/ reopened' = reopened \cup {a0}
    BY <1>18 DEF Acknowledge
  <2> QED
    BY <1>0, <2>1, <2>2, NotifyKept DEF Owes, OwesToo
<1>19. ASSUME NEW a0 \in Alerts, ResolveAlert(a0) PROVE Notifications' /\ NotifiedOnce'
  BY <1>19, <1>0, NotifyKept DEF ResolveAlert, Owes, OwesToo
<1>20. ASSUME NEW k \in Keys, UpdateRule(k) PROVE Notifications' /\ NotifiedOnce'
  BY <1>20, <1>0, NotifyKept DEF UpdateRule, Owes, OwesToo
<1>21. ASSUME NEW k \in Keys, DeleteRule(k) PROVE Notifications' /\ NotifiedOnce'
  BY <1>21, <1>0, NotifyKept DEF DeleteRule, Owes, OwesToo
<1>22. ASSUME NEW k \in PresenceKeys, Flip(k) PROVE Notifications' /\ NotifiedOnce'
  BY <1>22, <1>0, NotifyKept DEF Flip, Owes, OwesToo
<1>23. CASE Fault
  <2>0. UNCHANGED <<told, reopened>>
    BY <1>23 DEF Fault
  <2>1. \A r \in Reports, b \in Alerts : Owes(r, b)' => Owes(r, b)
    BY <1>23 DEF Fault, ReportTo, Owes, Waiting, TypeOK
  <2>2. \A w \in Sweeps : sweep'[w] = sweep[w] \/ sweep'[w].tell = None
    BY <1>23 DEF Fault, Abort, SweepTo, Asleep, TypeOK
  <2>3. \A v \in Sweeps, b \in Alerts : OwesToo(v, b)' => OwesToo(v, b)
    BY <2>2, NoneAssumption DEF OwesToo
  <2> QED
    BY <1>0, <2>0, <2>1, <2>3, NotifyKept
<1>24. CASE UNCHANGED vars
  BY <1>24, <1>0, NotifyKept DEF vars, Owes, OwesToo
<1>25. QED
  BY <1>1, <1>2, <1>3, <1>4, <1>5, <1>6, <1>7, <1>8, <1>9, <1>10, <1>11, <1>12, <1>13, <1>14, <1>15, <1>16, <1>17, <1>18, <1>19, <1>20, <1>21, <1>22, <1>23, <1>24 DEF Next, ReportStep, SweepStep

-----------------------------------------------------------------------------
(* The invariant *)

LEMMA InitIInv == ASSUME Init PROVE IInv
<1>0. PICK old \in [Legacy -> MetricKeys] :
        alert = [a \in Alerts |->
                   IF a \in Legacy THEN [st |-> "OPEN", key |-> old[a], slot |-> FALSE]
                   ELSE [st |-> "FREE", key |-> None, slot |-> FALSE]]
  BY DEF Init
<1>1. \A a \in Alerts :
        /\ alert[a].slot = FALSE
        /\ a \in Legacy => alert[a].st = "OPEN" /\ alert[a].key \in MetricKeys
        /\ a \notin Legacy => alert[a].st = "FREE"
  BY <1>0
<1>2. TypeOK
  <2>1. alert \in [Alerts -> Row]
    BY <1>0 DEF Row, Keys
  <2>2. report \in [Reports -> Request] /\ sweep \in [Sweeps -> Job]
    BY WaitingTyped, AsleepTyped DEF Init
  <2>3. /\ rule \in [Keys -> {"on", "off", "deleted"}] /\ bad \in SUBSET Keys
        /\ told \in [Alerts -> Nat] /\ reopened \in SUBSET Alerts
    BY DEF Init
  <2>4. /\ reports \in 0..MaxReports /\ flips \in 0..MaxFlips
        /\ commands \in 0..MaxCommands /\ reopens \in 0..MaxReopens
        /\ faults \in 0..MaxFaults
    BY BoundAssumption DEF Init
  <2> QED
    BY <2>1, <2>2, <2>3, <2>4 DEF TypeOK
<1>3. Table
  BY <1>1, AlertsAssumption DEF Table, SlotUnique, TrackedHoldsSlot, SlotFreed,
     LegacyIsMetric, Tracked, IsActive, Active, Exists
<1>4. RestReopened
  BY DEF Init, RestReopened, Asleep
<1>5. Notifications /\ NotifiedOnce
  BY NoneAssumption DEF Init, Notifications, NotifiedOnce, Owes, OwesToo, Waiting, Asleep
<1> QED
  BY <1>2, <1>3, <1>4, <1>5 DEF IInv

LEMMA NextIInv == ASSUME IInv, [Next]_vars PROVE IInv'
BY TypeStep, TableStep, RestStep, NotifyStep DEF IInv

LEMMA Invariance == Spec => []IInv
BY InitIInv, NextIInv, PTL DEF Spec

(* Types of the table, the rules, the requests and the jobs, for any       *)
(* instance of evaluateMetrics, runMonitoringSweep and alerts.service.ts.  *)
THEOREM TypeCorrect == Spec => []TypeOK
<1>1. IInv => TypeOK
  BY DEF IInv
<1> QED
  BY <1>1, Invariance, PTL

(* A rule has one active alert on a device, apart from the slotless ones   *)
(* of the migration and of acknowledgeAlert: tracked alerts hold their     *)
(* activeKey and the column is unique.  A resolved alert holds none,       *)
(* however it was resolved, unless it was acknowledged again after that.   *)
THEOREM OneAlertPerKey == Spec => []ActiveKeyKept
<1>1. IInv => OneTrackedAlert
  BY DEF IInv, Table, SlotUnique, TrackedHoldsSlot, OneTrackedAlert
<1>2. IInv => ActiveKeyKept
  BY <1>1 DEF IInv, Table, ActiveKeyKept
<1> QED
  BY <1>2, Invariance, PTL

(* evaluateMetrics and the sweep notify an alert at most once.             *)
THEOREM AlertNotifiedOnce == Spec => []NotifiedOnce
<1>1. IInv => NotifiedOnce
  BY DEF IInv
<1> QED
  BY <1>1, Invariance, PTL

-----------------------------------------------------------------------------
(* No notification is forgotten *)

(* What may drop one: a process died, a metric rule was deleted. *)
Dropped == faults > 0 \/ \E k \in MetricKeys : rule[k] = "deleted"

(* A request that is over has made nothing it has not told, one that will   *)
(* create has a metric rule, one that will refresh a row of such a rule.    *)
OfRequest(x) ==
  /\ x.pc = "idle" => x.made = {}
  /\ x.pc = "create" => x.key \in MetricKeys
  /\ x.pc = "refresh" =>
       x.found \in Alerts /\ alert[x.found].st # "FREE" /\ alert[x.found].key \in MetricKeys

(* A job has an alert to notify only at the end of its pair. *)
OfJob(y) == y.pc \notin {"rest", "tell"} => y.tell = None

Handlers ==
  /\ \A r \in Reports : OfRequest(report[r])
  /\ \A w \in Sweeps : OfJob(sweep[w])

(* Rows of metric rules go with their rule only. *)
Gone == \A a \in Alerts : alert[a].st = "DELETED" /\ alert[a].key \in MetricKeys => Dropped

(* Whatever its status has become *)
EachTold ==
  \A a \in Alerts \ Legacy : alert[a].st # "FREE" /\ told[a] = 0 => Owed(a) \/ Dropped

DInv == IInv /\ Handlers /\ Gone /\ EachTold

LEMMA DroppedStays ==
  ASSUME TypeOK, [Next]_vars
  PROVE  Dropped => Dropped'
<1> SUFFICES ASSUME Dropped PROVE Dropped'
  OBVIOUS
<1>0. faults \in Nat
  BY BoundAssumption DEF TypeOK
<1>1. ASSUME NEW r \in Reports, Receive(r) \/ ReportStep(r) PROVE UNCHANGED <<faults, rule>>
  BY <1>1 DEF Receive, ReportStep, FindExisting, Refresh, CreateMetric, TellMetric, counts
<1>2. ASSUME NEW w \in Sweeps, SweepStep(w) PROVE UNCHANGED <<faults, rule>>
  BY <1>2 DEF SweepStep, StartSweep, FindActive, FindLegacy, RefreshPresence, PromoteLegacy,
     CreatePresence, ResolvePresence, ResolveRest, TellPresence, ListMetric, JudgeMetric,
     ClearMetric, counts
<1>3. ASSUME NEW a \in Alerts, Acknowledge(a) \/ ResolveAlert(a)
      PROVE  UNCHANGED <<faults, rule>>
  BY <1>3 DEF Acknowledge, ResolveAlert
<1>4. ASSUME NEW k \in Keys, UpdateRule(k) \/ DeleteRule(k) PROVE Dropped'
  <2>1. \A j \in Keys : rule[j] = "deleted" => rule'[j] = "deleted"
    BY <1>4 DEF UpdateRule, DeleteRule, TypeOK
  <2>2. faults' = faults
    BY <1>4 DEF UpdateRule, DeleteRule
  <2> QED
    BY <2>1, <2>2 DEF Dropped, Keys
<1>5. ASSUME NEW k \in PresenceKeys, Flip(k) PROVE UNCHANGED <<faults, rule>>
  BY <1>5 DEF Flip
<1>6. CASE Fault
  BY <1>0, <1>6 DEF Fault, Dropped
<1>7. CASE UNCHANGED vars
  BY <1>7 DEF vars, counts, Dropped
<1> QED
  BY <1>1, <1>2, <1>3, <1>4, <1>5, <1>6, <1>7 DEF Next, Dropped

(* A row is deleted with its rule. *)
LEMMA GoneStep ==
  ASSUME TypeOK, Gone, [Next]_vars
  PROVE  Gone'
<1> DEFINE P == \A a \in Alerts : alert'[a].st = "DELETED" =>
                  \/ alert[a].st = "DELETED"
                  \/ alert[a].st # "FREE" /\ rule'[alert[a].key] = "deleted"
<1>0. ASSUME NEW S, Resolve(S) PROVE P
  <2> SUFFICES ASSUME NEW a \in Alerts PROVE alert'[a].st = "DELETED" => alert[a].st = "DELETED"
    OBVIOUS
  <2>1. alert'[a] = IF a \in S /\ Exists(a)
                      THEN [alert[a] EXCEPT !.st = "RESOLVED", !.slot = FALSE]
                      ELSE alert[a]
    BY <1>0 DEF Resolve
  <2> QED
    BY <2>1, RowTyped DEF Row
<1>1. ASSUME NEW k, NEW a \in Alerts, alert' = [alert EXCEPT ![a] = Created(k)] PROVE P
  BY <1>1 DEF Created, TypeOK
<1>2. ASSUME UNCHANGED alert PROVE P
  BY <1>2
<1> HIDE DEF P
<1>3. ASSUME NEW r \in Reports, Receive(r) \/ ReportStep(r) PROVE P
  BY <1>1, <1>2, <1>3 DEF Receive, ReportStep, FindExisting, Refresh, CreateMetric, TellMetric
<1>4. ASSUME NEW w \in Sweeps, PromoteLegacy(w) PROVE P
  <2>1. PICK a \in sweep[w].rest :
          alert' = [alert EXCEPT ![a].slot = TRUE] \/ UNCHANGED alert
    BY <1>4 DEF PromoteLegacy
  <2>2. \A b \in Alerts : alert'[b].st = alert[b].st
    BY <2>1, RowTyped DEF TypeOK, Row
  <2> QED
    BY <2>2 DEF P
<1>5. ASSUME NEW w \in Sweeps, SweepStep(w) PROVE P
  BY <1>0, <1>1, <1>2, <1>4, <1>5 DEF SweepStep, StartSweep, FindActive, FindLegacy,
     RefreshPresence, CreatePresence, ResolvePresence, ResolveRest, TellPresence, ListMetric,
     JudgeMetric, ClearMetric
<1>6. ASSUME NEW a \in Alerts, Acknowledge(a) PROVE P
  <2>1. \A b \in Alerts : alert'[b] = IF b = a
                             THEN [alert[b] EXCEPT !.st = "ACKNOWLEDGED"] ELSE alert[b]
    BY <1>6 DEF Acknowledge, TypeOK
  <2>2. \A b \in Alerts : alert'[b].st = "DELETED" => alert[b].st = "DELETED"
    BY <2>1, RowTyped DEF Row
  <2> QED
    BY <2>2 DEF P
<1>7. ASSUME NEW a \in Alerts, ResolveAlert(a) PROVE P
  BY <1>0, <1>7 DEF ResolveAlert
<1>8. ASSUME NEW k \in Keys, DeleteRule(k) PROVE P
  <2>1. \A b \in Alerts : b \notin OfKey(k) => alert'[b] = alert[b]
    BY <1>8 DEF DeleteRule
  <2>2. rule'[k] = "deleted"
    BY <1>8 DEF DeleteRule, TypeOK
  <2> QED
    BY <2>1, <2>2 DEF P, OfKey, Exists
<1>9. P
  BY <1>2, <1>3, <1>5, <1>6, <1>7, <1>8 DEF Next, UpdateRule, Flip, Fault, vars
<1>10. /\ \A a \in Alerts : alert[a].st # "FREE" => alert'[a].key = alert[a].key
       /\ Dropped => Dropped'
       /\ \A a \in Alerts : alert'[a].st = "DELETED" => alert'[a].st # "FREE"
  BY RowsStay, DroppedStays
<1> SUFFICES ASSUME NEW a \in Alerts, alert'[a].st = "DELETED", alert'[a].key \in MetricKeys
             PROVE  Dropped'
  BY DEF Gone
<1>11. CASE alert[a].st = "DELETED"
  BY <1>10, <1>11 DEF Gone
<1>12. CASE alert[a].st # "DELETED"
  <2>1. alert[a].st # "FREE" /\ rule'[alert[a].key] = "deleted"
    BY <1>9, <1>12 DEF P
  <2>2. rule'[alert'[a].key] = "deleted"
    BY <1>10, <2>1
  <2> QED
    BY <2>2 DEF Dropped
<1> QED
  BY <1>11, <1>12

(* The handlers of a step of request r, of job w *)
LEMMA RequestHandled ==
  ASSUME TypeOK, Handlers, [Next]_vars, NEW r \in Reports, NEW x,
         ReportTo(r, x), OfRequest(x), UNCHANGED sweep
  PROVE  Handlers'
<1>1. \A a \in Alerts : alert[a].st # "FREE" =>
        alert'[a].st # "FREE" /\ alert'[a].key = alert[a].key
  BY RowsStay
<1>2. ASSUME NEW q \in Reports PROVE OfRequest(report[q])'
  <2>1. CASE q = r
    <3>1. report'[q] = x
      BY <2>1 DEF ReportTo, TypeOK
    <3> QED
      BY <1>1, <3>1 DEF OfRequest
  <2>2. CASE q # r
    <3>1. report'[q] = report[q]
      BY <2>2 DEF ReportTo, TypeOK
    <3>2. OfRequest(report[q])
      BY DEF Handlers
    <3> QED
      BY <1>1, <3>1, <3>2 DEF OfRequest
  <2> QED
    BY <2>1, <2>2
<1> QED
  BY <1>2 DEF Handlers, OfJob

LEMMA JobHandled ==
  ASSUME TypeOK, Handlers, [Next]_vars, NEW w \in Sweeps, NEW y,
         SweepTo(w, y), OfJob(y), UNCHANGED report
  PROVE  Handlers'
<1>1. \A a \in Alerts : alert[a].st # "FREE" =>
        alert'[a].st # "FREE" /\ alert'[a].key = alert[a].key
  BY RowsStay
<1>2. ASSUME NEW q \in Reports PROVE OfRequest(report[q])'
  BY <1>1 DEF Handlers, OfRequest
<1>3. ASSUME NEW v \in Sweeps PROVE OfJob(sweep[v])'
  <2>1. sweep'[v] = IF v = w THEN y ELSE sweep[v]
    BY DEF SweepTo, TypeOK
  <2> QED
    BY <2>1 DEF Handlers, OfJob
<1> QED
  BY <1>2, <1>3 DEF Handlers

(* Nothing is forgotten by a step that keeps what is owed, or tells it, or  *)
(* drops it knowingly.                                                      *)
LEMMA ToldKept ==
  ASSUME TypeOK, EachTold, [Next]_vars,
         \A a \in Alerts : alert'[a].st # "FREE" => alert[a].st # "FREE" \/ Owed(a)',
         \A a \in Alerts : told'[a] = 0 => told[a] = 0,
         \A a \in Alerts : Owed(a) => Owed(a)' \/ told'[a] # 0 \/ Dropped'
  PROVE  EachTold'
BY DroppedStays DEF EachTold

(* A request, a job moves on and owes what it owed. *)
LEMMA RequestOwes ==
  ASSUME TypeOK, NEW r \in Reports, NEW x, ReportTo(r, x), report[r].made \subseteq x.made,
         UNCHANGED sweep, NEW a, Owed(a)
  PROVE  Owed(a)'
<1>1. \A q \in Reports : report'[q] = IF q = r THEN x ELSE report[q]
  BY DEF ReportTo, TypeOK
<1> QED
  BY <1>1 DEF Owed

LEMMA JobOwes ==
  ASSUME TypeOK, NEW w \in Sweeps, NEW y, SweepTo(w, y),
         sweep[w].tell # None => y.tell = sweep[w].tell,
         UNCHANGED report, NEW a \in Alerts, Owed(a)
  PROVE  Owed(a)'
<1>1. \A v \in Sweeps : sweep'[v] = IF v = w THEN y ELSE sweep[v]
  BY DEF SweepTo, TypeOK
<1>2. a # None
  BY NoneIsNoAlert
<1> QED
  BY <1>1, <1>2 DEF Owed

(* One step of a request *)
LEMMA RequestKeeps ==
  ASSUME IInv, Handlers, Gone, EachTold, [Next]_vars, NEW r \in Reports,
         Receive(r) \/ ReportStep(r)
  PROVE  Handlers' /\ EachTold'
<1>0. /\ TypeOK /\ report[r] \in Request /\ OfRequest(report[r])
      /\ \A a \in Alerts : alert[a].st # "FREE" =>
           alert'[a].st # "FREE" /\ alert'[a].key = alert[a].key
      /\ Dropped => Dropped'
  BY RowsStay, DroppedStays DEF IInv, TypeOK, Handlers
<1>k. None \notin MetricKeys
  BY NoneIsNoAlert DEF Keys
<1>a. ASSUME NEW x, ReportTo(r, x), OfRequest(x), report[r].made \subseteq x.made,
             UNCHANGED <<alert, sweep, told>>
      PROVE  Handlers' /\ EachTold'
  <2>1. Handlers'
    BY <1>0, <1>a, RequestHandled
  <2>2. \A a \in Alerts : Owed(a) => Owed(a)'
    BY <1>0, <1>a, RequestOwes
  <2> QED
    BY <1>0, <1>a, <2>1, <2>2, ToldKept
<1>b. ASSUME ReportTo(r, Waiting), Dropped, UNCHANGED <<alert, sweep, told>>
      PROVE  Handlers' /\ EachTold'
  <2>1. OfRequest(Waiting)
    BY DEF OfRequest, Waiting
  <2>2. Handlers'
    BY <1>0, <1>b, <2>1, RequestHandled
  <2> QED
    BY <1>0, <1>b, <2>2, ToldKept
<1>1. CASE Receive(r)
  <2>1. /\ UNCHANGED <<alert, sweep, told>> /\ report[r].made = {}
        /\ \/ UNCHANGED report
           \/ \E B \in SUBSET MetricKeys :
                ReportTo(r, [Waiting EXCEPT !.pc = "find", !.todo = B])
    BY <1>0, <1>1 DEF Receive, OfRequest
  <2>2. CASE UNCHANGED report
    <3>1. Handlers'
      BY <2>1, <2>2 DEF Handlers, OfRequest, OfJob
    <3>2. \A a \in Alerts : Owed(a)' <=> Owed(a)
      BY <2>1, <2>2 DEF Owed
    <3> QED
      BY <1>0, <2>1, <3>1, <3>2, ToldKept
  <2>3. ASSUME NEW B \in SUBSET MetricKeys,
               ReportTo(r, [Waiting EXCEPT !.pc = "find", !.todo = B])
        PROVE  Handlers' /\ EachTold'
    <3> DEFINE x == [Waiting EXCEPT !.pc = "find", !.todo = B]
    <3>1. x.pc = "find" /\ x.made = {}
      BY DEF Waiting
    <3>2. ReportTo(r, x)
      BY <2>3
    <3> HIDE DEF x
    <3>3. OfRequest(x)
      BY <3>1 DEF OfRequest
    <3> QED
      BY <1>a, <2>1, <3>1, <3>2, <3>3
  <2> QED
    BY <2>1, <2>2, <2>3
<1>2. CASE FindExisting(r)
  <2>1. PICK k \in report[r].todo :
          LET at == [report[r] EXCEPT !.todo = @ \ {k}, !.key = k] IN
          \/ ReportTo(r, [at EXCEPT !.pc = "create"])
          \/ \E a \in SlotHolders(k) :
               ReportTo(r, [at EXCEPT !.pc = "refresh", !.found = a])
    BY <1>2 DEF FindExisting
  <2>2. k \in MetricKeys /\ UNCHANGED <<alert, sweep, told>>
    BY <1>0, <1>2 DEF FindExisting, Request
  <2> DEFINE at == [report[r] EXCEPT !.todo = @ \ {k}, !.key = k]
             x == [at EXCEPT !.pc = "create"]
             y(a) == [at EXCEPT !.pc = "refresh", !.found = a]
  <2>3. x.pc = "create" /\ x.key = k /\ x.made = report[r].made
    BY <1>0 DEF Request
  <2>4. \A a : y(a).pc = "refresh" /\ y(a).found = a /\ y(a).made = report[r].made
    BY <1>0 DEF Request
  <2>5. ReportTo(r, x) \/ \E a \in SlotHolders(k) : ReportTo(r, y(a))
    BY <2>1
  <2> HIDE DEF x, y, at
  <2>6. CASE ReportTo(r, x)
    <3>1. OfRequest(x)
      BY <2>2, <2>3 DEF OfRequest
    <3> QED
      BY <1>a, <2>2, <2>3, <2>6, <3>1
  <2>7. ASSUME NEW a \in SlotHolders(k), ReportTo(r, y(a)) PROVE Handlers' /\ EachTold'
    <3>1. a \in Alerts /\ alert[a].st # "FREE" /\ alert[a].key = k
      BY DEF SlotHolders, OfKey, Exists
    <3>2. OfRequest(y(a))
      BY <2>2, <2>4, <3>1 DEF OfRequest
    <3> QED
      BY <1>a, <2>2, <2>4, <2>7, <3>2
  <2> QED
    BY <2>5, <2>6, <2>7
<1>n. /\ AfterKey(r) \in Request /\ AfterKey(r).made = report[r].made
      /\ AfterKey(r).pc \in {"find", "tell"} \/ (AfterKey(r).pc = "idle" /\ report[r].made = {})
  BY <1>0, AfterKeyTyped DEF AfterKey, Waiting, Request
<1>3. CASE Refresh(r)
  <2> DEFINE x == [AfterKey(r) EXCEPT !.key = None, !.found = None]
  <2>1. /\ x.made = report[r].made
        /\ x.pc \in {"find", "tell"} \/ (x.pc = "idle" /\ report[r].made = {})
    BY <1>n DEF Request
  <2>2. UNCHANGED <<alert, sweep, told>> /\ report[r].pc = "refresh"
    BY <1>3 DEF Refresh
  <2>3. IF Exists(report[r].found) THEN ReportTo(r, x) ELSE ReportTo(r, Waiting)
    BY <1>3 DEF Refresh
  <2> HIDE DEF x
  <2>4. CASE Exists(report[r].found)
    <3>1. OfRequest(x)
      BY <2>1 DEF OfRequest
    <3> QED
      BY <1>a, <2>1, <2>2, <2>3, <2>4, <3>1
  <2>5. CASE ~Exists(report[r].found)
    <3>1. Dropped
      BY <1>0, <2>2, <2>5 DEF OfRequest, Exists, Gone
    <3> QED
      BY <1>b, <2>2, <2>3, <2>5, <3>1
  <2> QED
    BY <2>4, <2>5
<1>4. CASE CreateMetric(r)
  <2> DEFINE k == report[r].key
             x(a) == [report[r] EXCEPT !.made = @ \cup {a}, !.key = None,
                        !.pc = IF report[r].todo = {} THEN "tell" ELSE "find"]
             y == [AfterKey(r) EXCEPT !.key = None]
  <2>1. /\ y.made = report[r].made
        /\ y.pc \in {"find", "tell"} \/ (y.pc = "idle" /\ report[r].made = {})
    BY <1>n DEF Request
  <2>2. \A a : x(a).made = report[r].made \cup {a} /\ x(a).pc \in {"find", "tell"}
    BY <1>0 DEF Request
  <2>3. UNCHANGED <<sweep, told>> /\ report[r].pc = "create"
    BY <1>4 DEF CreateMetric
  <2>4. \/ \E a \in Alerts : alert' = [alert EXCEPT ![a] = Created(k)] /\ ReportTo(r, x(a))
        \/ ReportTo(r, y) /\ UNCHANGED alert
        \/ rule[k] = "deleted" /\ ReportTo(r, Waiting) /\ UNCHANGED alert
    BY <1>4 DEF CreateMetric
  <2> HIDE DEF x, y
  <2>5. ASSUME NEW a \in Alerts, alert' = [alert EXCEPT ![a] = Created(k)], ReportTo(r, x(a))
        PROVE  Handlers' /\ EachTold'
    <3>1. OfRequest(x(a))
      BY <2>2 DEF OfRequest
    <3>2. Handlers'
      BY <1>0, <2>3, <2>5, <3>1, RequestHandled
    <3>3. \A b \in Alerts : Owed(b) => Owed(b)'
      <4>1. report[r].made \subseteq x(a).made
        BY <2>2
      <4> QED
        BY <1>0, <2>3, <2>5, <4>1, RequestOwes
    <3>4. Owed(a)'
      <4>1. report'[r] = x(a)
        BY <1>0, <2>5 DEF ReportTo, TypeOK
      <4> QED
        BY <2>2, <4>1 DEF Owed
    <3>5. \A b \in Alerts : b # a => alert'[b] = alert[b]
      BY <2>5
    <3> QED
      BY <1>0, <2>3, <3>2, <3>3, <3>4, <3>5, ToldKept
  <2>6. CASE ReportTo(r, y) /\ UNCHANGED alert
    <3>1. OfRequest(y)
      BY <2>1 DEF OfRequest
    <3> QED
      BY <1>a, <2>1, <2>3, <2>6, <3>1
  <2>7. CASE rule[k] = "deleted" /\ ReportTo(r, Waiting) /\ UNCHANGED alert
    <3>1. Dropped
      BY <1>0, <2>3, <2>7 DEF OfRequest, Dropped
    <3> QED
      BY <1>b, <2>3, <2>7, <3>1
  <2> QED
    BY <2>4, <2>5, <2>6, <2>7
<1>5. CASE TellMetric(r)
  <2>1. PICK a \in report[r].made :
          /\ told' = [told EXCEPT ![a] = @ + 1]
          /\ ReportTo(r, IF report[r].made = {a} THEN Waiting
                         ELSE [report[r] EXCEPT !.made = @ \ {a}])
    BY <1>5 DEF TellMetric
  <2> DEFINE x == IF report[r].made = {a} THEN Waiting ELSE [report[r] EXCEPT !.made = @ \ {a}]
  <2>2. UNCHANGED <<alert, sweep>> /\ report[r].pc = "tell" /\ a \in Alerts
    BY <1>0, <1>5 DEF TellMetric, Request
  <2>3. x.made = report[r].made \ {a} /\ (x.pc = "tell" \/ (x.pc = "idle" /\ x.made = {}))
    BY <1>0, <2>2 DEF Request, Waiting
  <2>4. ReportTo(r, x)
    BY <2>1
  <2> HIDE DEF x
  <2>5. OfRequest(x)
    BY <2>3 DEF OfRequest
  <2>6. Handlers'
    BY <1>0, <2>2, <2>4, <2>5, RequestHandled
  <2>7. \A b \in Alerts : told[b] \in Nat /\ told'[b] = IF b = a THEN told[b] + 1 ELSE told[b]
    BY <1>0, <2>1, <2>2 DEF TypeOK
  <2>8. ASSUME NEW b \in Alerts, Owed(b) PROVE Owed(b)' \/ told'[b] # 0
    <3>1. CASE b = a
      BY <2>7, <3>1
    <3>2. CASE b # a
      <4>1. \A q \in Reports : report'[q] = IF q = r THEN x ELSE report[q]
        BY <1>0, <2>4 DEF ReportTo, TypeOK
      <4> QED
        BY <2>2, <2>3, <2>8, <3>2, <4>1 DEF Owed
    <3> QED
      BY <3>1, <3>2
  <2>9. \A b \in Alerts : told'[b] = 0 => told[b] = 0
    BY <2>7
  <2> QED
    BY <1>0, <2>2, <2>6, <2>8, <2>9, ToldKept
<1> QED
  BY <1>1, <1>2, <1>3, <1>4, <1>5 DEF ReportStep

(* One step of a job *)
LEMMA JobKeeps ==
  ASSUME IInv, Handlers, EachTold, [Next]_vars, NEW w \in Sweeps, SweepStep(w)
  PROVE  Handlers' /\ EachTold'
<1>0. TypeOK /\ sweep[w] \in Job /\ OfJob(sweep[w]) /\ UNCHANGED report
  BY DEF IInv, TypeOK, Handlers, SweepStep, StartSweep, FindActive, FindLegacy, RefreshPresence,
     PromoteLegacy, CreatePresence, ResolvePresence, ResolveRest, TellPresence, ListMetric,
     JudgeMetric, ClearMetric
<1>a. ASSUME NEW y, SweepTo(w, y), OfJob(y), sweep[w].tell # None => y.tell = sweep[w].tell,
             \A a \in Alerts : alert'[a].st # "FREE" => alert[a].st # "FREE" \/ a = y.tell,
             UNCHANGED told
      PROVE  Handlers' /\ EachTold'
  <2>1. Handlers'
    BY <1>0, <1>a, JobHandled
  <2>2. \A a \in Alerts : Owed(a) => Owed(a)'
    BY <1>0, <1>a, JobOwes
  <2>3. \A a \in Alerts : a = y.tell => Owed(a)'
    <3>1. sweep'[w] = y
      BY <1>0, <1>a DEF SweepTo, TypeOK
    <3> QED
      BY <3>1 DEF Owed
  <2> QED
    BY <1>0, <1>a, <2>1, <2>2, <2>3, ToldKept
<1>b. ASSUME NEW y, SweepTo(w, y), sweep[w].pc \notin {"rest", "tell"}, y.tell = None,
             UNCHANGED <<alert, told>>
      PROVE  Handlers' /\ EachTold'
  BY <1>0, <1>a, <1>b DEF OfJob
<1>c. ASSUME NEW S, Resolve(S)
      PROVE  \A a \in Alerts : alert'[a].st # "FREE" => alert[a].st # "FREE"
  BY <1>c DEF Resolve, Exists
<1>d. Asleep.tell = None /\ AfterPair(w).tell = None /\ \A M : AfterMetric(M).tell = None
  BY DEF Asleep, AfterPair, AfterMetric
<1>1. CASE StartSweep(w)
  <2> DEFINE on == {k \in PresenceKeys : rule[k] = "on"}
             y == [Asleep EXCEPT !.pc = IF on = {} THEN "list" ELSE "find",
                                 !.todo = on, !.off = bad \cap on]
  <2>1. y.tell = None
    BY DEF Asleep
  <2>2. SweepTo(w, y) /\ sweep[w].pc = "idle" /\ UNCHANGED <<alert, told>>
    BY <1>1 DEF StartSweep
  <2> HIDE DEF y
  <2> QED
    BY <1>b, <2>1, <2>2
<1>2. CASE FindActive(w)
  <2>1. PICK k \in sweep[w].todo :
          LET held == {a \in SlotHolders(k) : IsActive(a)}
              at == [sweep[w] EXCEPT !.pc = "legacy", !.todo = @ \ {k}, !.key = k] IN
          \/ SweepTo(w, at)
          \/ \E a \in held : SweepTo(w, [at EXCEPT !.act = a])
    BY <1>2 DEF FindActive
  <2> DEFINE at == [sweep[w] EXCEPT !.pc = "legacy", !.todo = @ \ {k}, !.key = k]
             y(a) == [at EXCEPT !.act = a]
  <2>2. UNCHANGED <<alert, told>> /\ sweep[w].pc = "find"
    BY <1>2 DEF FindActive
  <2>3. at.tell = None /\ \A a : y(a).tell = None
    BY <1>0, <2>2 DEF OfJob, Job
  <2>4. SweepTo(w, at) \/ \E a : SweepTo(w, y(a))
    BY <2>1
  <2> HIDE DEF at, y
  <2> QED
    BY <1>b, <2>2, <2>3, <2>4
<1>3. CASE FindLegacy(w)
  <2> DEFINE y == [sweep[w] EXCEPT !.pc = "act",
                     !.rest = {a \in OfKey(sweep[w].key) : IsActive(a) /\ ~alert[a].slot}]
  <2>1. UNCHANGED <<alert, told>> /\ sweep[w].pc = "legacy" /\ SweepTo(w, y)
    BY <1>3 DEF FindLegacy
  <2>2. y.tell = None
    BY <1>0, <2>1 DEF OfJob, Job
  <2> HIDE DEF y
  <2> QED
    BY <1>b, <2>1, <2>2
<1>4. CASE RefreshPresence(w)
  <2> DEFINE y == [sweep[w] EXCEPT !.pc = "rest"]
  <2>1. /\ UNCHANGED <<alert, told>> /\ sweep[w].pc = "act"
        /\ SweepTo(w, y) \/ SweepTo(w, Asleep)
    BY <1>4 DEF RefreshPresence, Abort
  <2>2. y.tell = None
    BY <1>0, <2>1 DEF OfJob, Job
  <2> HIDE DEF y
  <2> QED
    BY <1>b, <1>d, <2>1, <2>2
<1>5. CASE PromoteLegacy(w)
  <2> DEFINE y(a) == [sweep[w] EXCEPT !.pc = "rest", !.rest = @ \ {a}, !.tell = a]
  <2>1. PICK a \in sweep[w].rest :
          \/ alert' = [alert EXCEPT ![a].slot = TRUE] /\ SweepTo(w, y(a))
          \/ SweepTo(w, Asleep) /\ UNCHANGED alert
    BY <1>5 DEF PromoteLegacy, Abort
  <2>2. UNCHANGED told /\ sweep[w].pc = "act" /\ sweep[w].tell = None
    BY <1>0, <1>5 DEF PromoteLegacy, OfJob
  <2>3. y(a).pc = "rest"
    BY <1>0 DEF Job
  <2>4. \A b \in Alerts : alert'[b].st = alert[b].st
    BY <1>0, <2>1, RowTyped DEF TypeOK, Row
  <2> HIDE DEF y
  <2>5. OfJob(y(a))
    BY <2>3 DEF OfJob
  <2>6. CASE SweepTo(w, y(a))
    BY <1>a, <2>2, <2>4, <2>5, <2>6
  <2>7. CASE SweepTo(w, Asleep) /\ UNCHANGED alert
    BY <1>b, <1>d, <2>2, <2>7
  <2> QED
    BY <2>1, <2>6, <2>7
<1>6. CASE CreatePresence(w)
  <2> DEFINE k == sweep[w].key
             y(a) == [sweep[w] EXCEPT !.pc = "tell", !.tell = a]
  <2>1. \/ \E a \in Alerts : alert' = [alert EXCEPT ![a] = Created(k)] /\ SweepTo(w, y(a))
        \/ SweepTo(w, Asleep) /\ UNCHANGED alert
    BY <1>6 DEF CreatePresence, Abort
  <2>2. UNCHANGED told /\ sweep[w].pc = "act" /\ sweep[w].tell = None
    BY <1>0, <1>6 DEF CreatePresence, OfJob
  <2>3. \A a : y(a).pc = "tell" /\ y(a).tell = a
    BY <1>0 DEF Job
  <2> HIDE DEF y
  <2>4. ASSUME NEW a \in Alerts, alert' = [alert EXCEPT ![a] = Created(k)], SweepTo(w, y(a))
        PROVE  Handlers' /\ EachTold'
    <3>1. OfJob(y(a))
      BY <2>3 DEF OfJob
    <3>2. \A b \in Alerts : alert'[b].st # "FREE" => alert[b].st # "FREE" \/ b = y(a).tell
      BY <2>3, <2>4
    <3> QED
      BY <1>a, <2>2, <2>4, <3>1, <3>2
  <2>5. CASE SweepTo(w, Asleep) /\ UNCHANGED alert
    BY <1>b, <1>d, <2>2, <2>5
  <2> QED
    BY <2>1, <2>4, <2>5
<1>7. CASE ResolvePresence(w)
  <2> DEFINE y == [sweep[w] EXCEPT !.pc = "rest"]
  <2>1. SweepTo(w, y) /\ UNCHANGED told
    BY <1>7 DEF ResolvePresence
  <2>2. y.pc = "rest" /\ y.tell = sweep[w].tell
    BY <1>0 DEF Job
  <2>3. \A a \in Alerts : alert'[a].st # "FREE" => alert[a].st # "FREE"
    BY <1>7, <1>c DEF ResolvePresence
  <2> HIDE DEF y
  <2>4. OfJob(y)
    BY <2>2 DEF OfJob
  <2> QED
    BY <1>a, <2>1, <2>2, <2>3, <2>4
<1>8. CASE ResolveRest(w)
  <2> DEFINE y == [sweep[w] EXCEPT !.pc = "tell"]
  <2>1. /\ UNCHANGED told
        /\ SweepTo(w, IF sweep[w].tell = None THEN AfterPair(w) ELSE y)
    BY <1>8 DEF ResolveRest
  <2>2. y.pc = "tell" /\ y.tell = sweep[w].tell
    BY <1>0 DEF Job
  <2>3. \A a \in Alerts : alert'[a].st # "FREE" => alert[a].st # "FREE"
    BY <1>8, <1>c DEF ResolveRest
  <2> HIDE DEF y
  <2>4. OfJob(y) /\ OfJob(AfterPair(w))
    BY <1>d, <2>2 DEF OfJob
  <2>5. CASE sweep[w].tell = None
    BY <1>a, <2>1, <2>3, <2>4, <2>5
  <2>6. CASE sweep[w].tell # None
    BY <1>a, <2>1, <2>2, <2>3, <2>4, <2>6
  <2> QED
    BY <2>5, <2>6
<1>9. CASE TellPresence(w)
  <2>1. /\ UNCHANGED alert /\ SweepTo(w, AfterPair(w))
        /\ told' = [told EXCEPT ![sweep[w].tell] = @ + 1]
    BY <1>9 DEF TellPresence
  <2>2. OfJob(AfterPair(w))
    BY <1>d DEF OfJob
  <2>3. Handlers'
    BY <1>0, <2>1, <2>2, JobHandled
  <2>4. \A b \in Alerts :
          told[b] \in Nat /\ told'[b] = IF b = sweep[w].tell THEN told[b] + 1 ELSE told[b]
    BY <1>0, <2>1 DEF TypeOK
  <2>5. ASSUME NEW b \in Alerts, Owed(b) PROVE Owed(b)' \/ told'[b] # 0
    <3>1. CASE b = sweep[w].tell
      BY <2>4, <3>1
    <3>2. CASE b # sweep[w].tell
      <4>1. \A v \in Sweeps : v # w => sweep'[v] = sweep[v]
        BY <1>0, <2>1 DEF SweepTo, TypeOK
      <4> QED
        BY <1>0, <2>5, <3>2, <4>1 DEF Owed
    <3> QED
      BY <3>1, <3>2
  <2>6. \A b \in Alerts : told'[b] = 0 => told[b] = 0
    BY <2>4
  <2> QED
    BY <1>0, <2>1, <2>3, <2>5, <2>6, ToldKept
<1>10. CASE ListMetric(w)
  BY <1>b, <1>d, <1>10 DEF ListMetric
<1>11. CASE JudgeMetric(w)
  <2> DEFINE y(a) == [sweep[w] EXCEPT !.pc = "clear", !.act = a, !.metrics = @ \ {a}]
  <2>1. /\ UNCHANGED <<alert, told>> /\ sweep[w].pc = "metric"
        /\ \E a : SweepTo(w, y(a)) \/ SweepTo(w, AfterMetric(sweep[w].metrics \ {a}))
    BY <1>11 DEF JudgeMetric
  <2>2. \A a : y(a).tell = None
    BY <1>0, <2>1 DEF OfJob, Job
  <2> HIDE DEF y
  <2> QED
    BY <1>b, <1>d, <2>1, <2>2
<1>12. CASE ClearMetric(w)
  <2>1. SweepTo(w, AfterMetric(sweep[w].metrics)) /\ sweep[w].pc = "clear" /\ UNCHANGED told
    BY <1>12 DEF ClearMetric
  <2>2. \A a \in Alerts : alert'[a].st # "FREE" => alert[a].st # "FREE"
    BY <1>12, <1>c DEF ClearMetric
  <2>3. OfJob(AfterMetric(sweep[w].metrics)) /\ sweep[w].tell = None
    BY <1>0, <1>d, <2>1 DEF OfJob
  <2> QED
    BY <1>a, <2>1, <2>2, <2>3
<1> QED
  BY <1>1, <1>2, <1>3, <1>4, <1>5, <1>6, <1>7, <1>8, <1>9, <1>10, <1>11, <1>12 DEF SweepStep

(* One step of an operator, a device or a failure *)
LEMMA OthersKeep ==
  ASSUME IInv, Handlers, EachTold, [Next]_vars, UNCHANGED told,
         \A a \in Alerts : alert'[a].st # "FREE" => alert[a].st # "FREE",
         \/ UNCHANGED <<report, sweep>>
         \/ Fault
  PROVE  Handlers' /\ EachTold'
<1>0. TypeOK
  BY DEF IInv
<1>1. CASE UNCHANGED <<report, sweep>>
  <2>1. Handlers'
    BY <1>0, <1>1, RowsStay DEF Handlers, OfRequest, OfJob
  <2>2. \A a \in Alerts : Owed(a) => Owed(a)'
    BY <1>1 DEF Owed
  <2> QED
    BY <1>0, <2>1, <2>2, ToldKept
<1>2. CASE Fault
  <2>1. Dropped'
    BY <1>0, <1>2, BoundAssumption DEF Fault, TypeOK, Dropped
  <2>2. OfRequest(Waiting) /\ OfJob(Asleep)
    BY DEF OfRequest, OfJob, Waiting, Asleep
  <2>3. Handlers'
    BY <1>0, <1>2, <2>2, RequestHandled, JobHandled DEF Fault, Abort
  <2> QED
    BY <1>0, <2>1, <2>3, ToldKept
<1> QED
  BY <1>1, <1>2

LEMMA ToldStep ==
  ASSUME DInv, [Next]_vars
  PROVE  DInv'
<1>0. IInv /\ Handlers /\ Gone /\ EachTold /\ TypeOK
  BY DEF DInv, IInv
<1>1. IInv' /\ Gone'
  BY <1>0, NextIInv, GoneStep
<1>2. ASSUME NEW r \in Reports, Receive(r) \/ ReportStep(r) PROVE Handlers' /\ EachTold'
  BY <1>0, <1>2, RequestKeeps
<1>3. ASSUME NEW w \in Sweeps, SweepStep(w) PROVE Handlers' /\ EachTold'
  BY <1>0, <1>3, JobKeeps
<1>r. ASSUME NEW S, Resolve(S)
      PROVE  \A a \in Alerts : alert'[a].st # "FREE" => alert[a].st # "FREE"
  BY <1>r DEF Resolve, Exists
<1>4. ASSUME NEW a \in Alerts, Acknowledge(a) PROVE Handlers' /\ EachTold'
  <2>1. \A b \in Alerts : alert'[b].st # "FREE" => alert[b].st # "FREE"
    BY <1>0, <1>4 DEF Acknowledge, Exists, TypeOK
  <2>2. UNCHANGED <<told, report, sweep>>
    BY <1>4 DEF Acknowledge
  <2> QED
    BY <1>0, <2>1, <2>2, OthersKeep
<1>5. ASSUME NEW a \in Alerts, ResolveAlert(a) PROVE Handlers' /\ EachTold'
  BY <1>0, <1>5, <1>r, OthersKeep DEF ResolveAlert
<1>6. ASSUME NEW k \in Keys, UpdateRule(k) PROVE Handlers' /\ EachTold'
  BY <1>0, <1>6, OthersKeep DEF UpdateRule
<1>7. ASSUME NEW k \in Keys, DeleteRule(k) PROVE Handlers' /\ EachTold'
  <2>1. \A b \in Alerts : alert'[b].st # "FREE" => alert[b].st # "FREE"
    BY <1>7 DEF DeleteRule, OfKey, Exists
  <2>2. UNCHANGED <<told, report, sweep>>
    BY <1>7 DEF DeleteRule
  <2> QED
    BY <1>0, <2>1, <2>2, OthersKeep
<1>8. ASSUME NEW k \in PresenceKeys, Flip(k) PROVE Handlers' /\ EachTold'
  BY <1>0, <1>8, OthersKeep DEF Flip
<1>9. ASSUME Fault PROVE Handlers' /\ EachTold'
  BY <1>0, <1>9, OthersKeep DEF Fault
<1>10. ASSUME UNCHANGED vars PROVE Handlers' /\ EachTold'
  BY <1>0, <1>10, OthersKeep DEF vars
<1>11. Handlers' /\ EachTold'
  BY <1>2, <1>3, <1>4, <1>5, <1>6, <1>7, <1>8, <1>9, <1>10 DEF Next
<1> QED
  BY <1>1, <1>11 DEF DInv

(* An active alert was notified, or is about to be, unless a process died   *)
(* or a metric rule was deleted: evaluateMetrics and the sweep forget none  *)
(* by themselves, whatever they find changed.                               *)
THEOREM NoneForgotten == Spec => []ToldUnlessDropped
<1>1. ASSUME Init PROVE DInv
  <2>1. Handlers
    BY <1>1 DEF Init, Handlers, OfRequest, OfJob, Waiting, Asleep
  <2>2. \A a \in Alerts : alert[a].st = IF a \in Legacy THEN "OPEN" ELSE "FREE"
    BY <1>1 DEF Init
  <2>3. Gone /\ EachTold
    BY <2>2 DEF Gone, EachTold
  <2> QED
    BY <1>1, <2>1, <2>3, InitIInv DEF DInv
<1>2. DInv => ToldUnlessDropped
  BY DEF DInv, EachTold, ToldUnlessDropped, IsActive, Active, Dropped
<1> QED
  BY <1>1, <1>2, ToldStep, PTL DEF Spec
=============================================================================

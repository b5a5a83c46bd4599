---------------------------- MODULE MCBackground ----------------------------
(* What runs in the background and must get done, for TLC.  A behaviour is   *)
(* about two ticks at one report schedule, one tick at a batch of two,       *)
(* alerts, an article, an inventory that changes, one that users refresh, or *)
(* a security scan; what it is not about stays as it began.                  *)
EXTENDS Integers, FiniteSets, ArticleEmbeddings, RefreshMark, SevereAlerts

CONSTANTS s1, s2, t1, t2, e1,      \* schedules, ticks, a PATCH
          p1, m1, r1, w1, w2,      \* rules by kind, a report, sweeps
  u1, u2, k1, k2,          \* requests of users, slots of the workers
          None

VARIABLES
  focus,
  now, rows, used, cron, enabled, nextRunAt, lastRunAt, lock, tick, edit, edits, faults,
  claims, repeated, rewound, generated, dropped,                      \* ReportSchedule
  rule, bad, alert, report, sweep, reports, flips, commands, reopens, crashes,
  told, reopened,                                                     \* AlertLifecycle
  writes, embedFaults,                            \* KnowledgeBase, and ArticleEmbeddings'
  machine, barred, agent, uploaded, late, aged, request, job, slot, row, changes, refreshes,
  calls, collected, latest, overtaken, missed, cut,        \* Inventory, and RefreshMark's
  scan, opening, todo, call, current, finding, scored, alertJob, alerter, slips,
  lost                                              \* SecurityScans, and SevereAlerts'

(* Three texts, the last one empty. *)
ThreeTexts == <<2, 1, 0>>

scheduleVars == <<now, rows, used, cron, enabled, nextRunAt, lastRunAt, lock, tick, edit,
                  edits, faults, claims, repeated, rewound, generated, dropped>>
alertVars == <<rule, bad, alert, report, sweep, reports, flips, commands, reopens, crashes,
               told, reopened>>
kbVars == <<article, embedding, writer, embedJob, embedder, writes, embedFaults, ignored, broken>>
inventoryVars == <<machine, barred, agent, uploaded, late, flag, aged, request, job, slot, row,
                   changes, refreshes, calls, collected, latest, overtaken, missed, asked, overlapped, cut>>
securityVars == <<scan, opening, todo, call, current, finding, scored, alertJob, alerter, raised,
                  slips, beside, lost>>
allVars == <<focus, scheduleVars, alertVars, kbVars, inventoryVars, securityVars>>

R == INSTANCE ReportSchedule WITH
  Schedules <- {s1}, Ticks <- {t1, t2}, Edits <- {e1}, Crons <- {1, 2},
  Batch <- 1, MaxTime <- 1, MaxEdits <- 0, MaxFaults <- 1
S == INSTANCE ReportSchedule WITH
  Schedules <- {s1, s2}, Ticks <- {t1}, Edits <- {e1}, Crons <- {1, 2},
  Batch <- 1, MaxTime <- 1, MaxEdits <- 0, MaxFaults <- 1
A == INSTANCE AlertLifecycle WITH
  PresenceKeys <- {p1}, MetricKeys <- {m1}, Alerts <- 1..5, Legacy <- {},
  Reports <- {r1}, Sweeps <- {w1, w2}, MaxReports <- 1, MaxFlips <- 2,
  MaxCommands <- 1, MaxReopens <- 0, MaxFaults <- 0, faults <- crashes
K == INSTANCE KnowledgeBase WITH
  Requests <- {u1, u2}, Slots <- {k1, k2}, Attempts <- 2, MaxWrites <- 3, MaxFaults <- 1,
  faults <- embedFaults
I == INSTANCE Inventory WITH
  Versions <- {1, 2}, Requests <- {u1}, Slots <- {k1, k2}, Attempts <- 2,
  MaxChanges <- 2, MaxRefreshes <- 0, MaxFaults <- 1, faults <- calls, reports <- collected
J == INSTANCE Inventory WITH
  Versions <- {1, 2}, Requests <- {u1, u2}, Slots <- {}, Attempts <- 2,
  MaxChanges <- 1, MaxRefreshes <- 2, MaxFaults <- 1, faults <- calls, reports <- collected
Z == INSTANCE SecurityScans WITH
  Scans <- {1}, Openers <- {u1}, Answers <- {1, 2}, Slots <- {k1, k2}, Attempts <- 2,
  MaxFaults <- 2, job <- alertJob, slot <- alerter, faults <- slips, cut <- lost

OfSchedules(f, X) ==
  focus = f /\ X /\ UNCHANGED <<focus, alertVars, kbVars, inventoryVars, securityVars>>
OfTicks(X) == OfSchedules("ticks", X)
OfBatch(X) == OfSchedules("batch", X)
OfAlerts(X) ==
  focus = "alerts" /\ X /\ UNCHANGED <<focus, scheduleVars, kbVars, inventoryVars, securityVars>>
OfArticle(X) ==
  focus = "article" /\ X /\ UNCHANGED <<focus, scheduleVars, alertVars, inventoryVars, securityVars>>
OfInventory(f, X) ==
  focus = f /\ X /\ UNCHANGED <<focus, scheduleVars, alertVars, kbVars, securityVars>>
OfChanges(X) == OfInventory("changes", X)
OfRefreshes(X) == OfInventory("refreshes", X)
OfScan(X) ==
  focus = "scan" /\ X /\ UNCHANGED <<focus, scheduleVars, alertVars, kbVars, inventoryVars>>

MCInit ==
  /\ A!Init /\ K!Init /\ Z!Init
  /\ \/ focus = "ticks" /\ R!Init
     \/ focus = "batch" /\ S!Init
     \/ focus \in {"alerts", "article", "changes", "refreshes", "scan"} /\ R!Init /\ cron[s1] = 1
  /\ IF focus = "refreshes" THEN J!Init ELSE I!Init
  /\ focus \notin {"changes", "refreshes"} => machine = 1 /\ ~barred

(* One fault while the scan has been answered twice. *)
ScanNext == Z!Next /\ (call'[2].pc # "unmade" => slips' <= 1)
MCNext ==
  \/ OfTicks(R!Next) \/ OfBatch(S!Next) \/ OfAlerts(A!Next) \/ OfArticle(K!Next)
  \/ OfChanges(I!Next) \/ OfRefreshes(J!Next) \/ OfScan(ScanNext)

(* The fairness of the modules. *)
Ticks == focus = "ticks"
Batch == focus = "batch"
Alerts == focus = "alerts"
Article == focus = "article"
Changes == focus = "changes"
Scan == focus = "scan"
InTurn ==
  /\ MCInit /\ [][MCNext]_allVars
  /\ \A t \in {t1, t2} : /\ WF_scheduleVars(Ticks /\ R!Discover(t))
                        /\ WF_scheduleVars(Ticks /\ R!Work(t))
  /\ WF_scheduleVars(Ticks /\ R!OrphanExpires)
  /\ WF_scheduleVars(Batch /\ S!Discover(t1)) /\ WF_scheduleVars(Batch /\ S!Work(t1))
  /\ WF_scheduleVars(Batch /\ S!OrphanExpires)
  /\ WF_alertVars(Alerts /\ A!ReportStep(r1))
  /\ \A w \in {w1, w2} : WF_alertVars(Alerts /\ A!SweepStep(w))
  /\ \A u \in {u1, u2} : WF_kbVars(Article /\ K!Serve(u))
  /\ WF_inventoryVars(Changes /\ I!AgentStep)
  /\ \A a \in {1, 2} : WF_securityVars(Scan /\ Z!Serve(a))
  /\ \A k \in {k1, k2} : /\ WF_kbVars(Article /\ K!Work(k))
                        /\ WF_inventoryVars(Changes /\ I!Work(k))
                        /\ WF_securityVars(Scan /\ Z!Work(k))

(* ReportSchedule: an occurrence that is due does not stay due.              *)
DueIsHandled ==
  /\ \A o \in 0..1 : []<>~(S!Due(s1) /\ nextRunAt[s1] = o)
  /\ \A o \in 0..1 : []<>~(S!Due(s2) /\ nextRunAt[s2] = o)

(* AlertLifecycle: lasting outages are alerted, recovered ones resolved.     *)
OfflineIsAlerted == A!OfflineIsAlerted
RecoveryIsResolved == A!RecoveryIsResolved

(* KnowledgeBase: an article does not stay without its embeddings.           *)
ArticleIsEmbedded == K!ArticleIsEmbedded

(* Inventory: what is installed comes to be shown.                           *)
InstalledIsShown == []<>~(Changes /\ I!Behind)

(* SecurityScans: a severe finding is alerted.                               *)
SevereIsAlerted == Z!SevereIsAlerted
=============================================================================

------------------------ MODULE ReportScheduleProofs ------------------------
(***************************************************************************)
(* Proofs about ReportSchedule, for any number of schedules, ticks and     *)
(* edits, any cron periods and any bounds.                                 *)
(***************************************************************************)
EXTENDS ReportSchedule, TLAPS

Busy(t) == tick[t].pc \in {"acquire", "claim", "generate", "release", "record"}

(* A tick at work on a schedule knows its occurrence and a later one. *)
WorkingOnItem ==
  \A t \in Ticks :
    Busy(t) => /\ tick[t].s \in Schedules
               /\ tick[t].occ \in Nat /\ tick[t].succ \in Nat
               /\ tick[t].occ < tick[t].succ

(* While the TTL of its lock runs, the lock is in Redis with its token. *)
LeaseHeld ==
  \A t \in Ticks :
    tick[t].lease => /\ tick[t].pc \in {"claim", "generate", "release"}
                     /\ LockOf(t, t) \in lock

(* A key has one value. *)
KeyUnique ==
  \A k, l \in lock : k.s = l.s /\ k.occ = l.occ => k = l

(* nextRunAt is past what was claimed, but for the two exceptions. *)
ClaimsPassed ==
  \A c \in claims :
    /\ c.s \in used
    /\ nextRunAt[c.s] > c.occ \/ <<c.s, c.occ>> \in rewound \/ c.at < c.occ

(* A PATCH writes a date after the moment it read the clock. *)
EditAhead ==
  \A e \in Edits :
    edit[e] # NoEdit /\ edit[e].next # None => edit[e].at < edit[e].next

IInv ==
  /\ TypeOK
  /\ WorkingOnItem
  /\ LeaseHeld
  /\ KeyUnique
  /\ ClaimsPassed
  /\ EditAhead
  /\ ClaimedOnce
  /\ NoOccurrenceLost

-----------------------------------------------------------------------------
(* The next occurrence is a later date. *)
LEMMA NextIsLater ==
  ASSUME NEW c \in Nat \ {0}, NEW from \in Nat
  PROVE  NextOccurrence(c, from) \in Nat /\ from < NextOccurrence(c, from)
BY SMT DEF NextOccurrence

LEMMA CronPositive == ASSUME NEW c \in Crons PROVE c \in Nat \ {0}
BY CronAssumption

(* A tick between two schedules holds nothing. *)
LEMMA AfterItemFree ==
  ASSUME TypeOK, NEW t \in Ticks
  PROVE  /\ AfterItem(t) \in Tick
         /\ ~AfterItem(t).lease
         /\ AfterItem(t).pc \in {"idle", "scan"}
<1>1. tick[t] \in Tick
  BY DEF TypeOK
<1>2. {} \in SUBSET Schedules /\ tick[t].todo \in SUBSET Schedules
  BY <1>1 DEF Tick
<1>3. Idle \in Tick /\ ~Idle.lease /\ Idle.pc = "idle"
  BY <1>2 DEF Idle, Tick, TickPc
<1>4. LET scan == [Idle EXCEPT !.pc = "scan", !.todo = tick[t].todo] IN
        scan \in Tick /\ ~scan.lease /\ scan.pc = "scan"
  BY <1>2 DEF Idle, Tick, TickPc
<1>5. QED
  BY <1>3, <1>4 DEF AfterItem

(* What an action of a tick may do to the ticks: only its own entry moves,  *)
(* to another step of the same item or on to the next item.                *)
SameItem(t) ==
  /\ tick'[t].s = tick[t].s
  /\ tick'[t].occ = tick[t].occ
  /\ tick'[t].succ = tick[t].succ

Freed(t) == tick'[t].pc \in {"idle", "scan"} /\ ~tick'[t].lease

OthersKept(t) ==
  /\ tick' \in [Ticks -> Tick]
  /\ \A u \in Ticks \ {t} : tick'[u] = tick[u]

LEMMA TickUpdate ==
  ASSUME TypeOK, NEW t \in Ticks, NEW v \in Tick, tick' = [tick EXCEPT ![t] = v]
  PROVE  OthersKept(t) /\ tick'[t] = v
BY DEF TypeOK, OthersKept

LEMMA NextItemEffect ==
  ASSUME TypeOK, NEW t \in Ticks, NextItem(t)
  PROVE  OthersKept(t) /\ Freed(t)
BY AfterItemFree, TickUpdate DEF NextItem, Freed

LEMMA StepTo ==
  ASSUME TypeOK, NEW t \in Ticks, NEW pc \in TickPc, NEW ok \in BOOLEAN, NEW lease \in BOOLEAN,
         tick' = [tick EXCEPT ![t] =
                   [tick[t] EXCEPT !.pc = pc, !.ok = ok, !.lease = lease]]
  PROVE  /\ OthersKept(t) /\ SameItem(t)
         /\ tick'[t].pc = pc /\ tick'[t].lease = lease
<1>1. tick[t] \in Tick
  BY DEF TypeOK
<1>2. [tick[t] EXCEPT !.pc = pc, !.ok = ok, !.lease = lease] \in Tick
  BY <1>1 DEF Tick
<1>3. tick'[t] = [tick[t] EXCEPT !.pc = pc, !.ok = ok, !.lease = lease] /\ OthersKept(t)
  BY <1>2, TickUpdate
<1>4. tick'[t].lease = lease
  BY <1>1, <1>3, Zenon DEF Tick
<1>5. tick'[t].pc = pc
  BY <1>1, <1>3 DEF Tick
<1>6. SameItem(t)
  BY <1>1, <1>3 DEF SameItem, Tick
<1>7. QED
  BY <1>3, <1>4, <1>5, <1>6

LEMMA DiscoverEffect ==
  ASSUME TypeOK, NEW t \in Ticks, Discover(t)
  PROVE  OthersKept(t) /\ Freed(t)
<1>1. PICK D \in SUBSET Schedules :
        tick' = [tick EXCEPT ![t] = [Idle EXCEPT !.pc = "scan", !.todo = D]]
  BY DEF Discover
<1>2. [Idle EXCEPT !.pc = "scan", !.todo = D] \in Tick
  BY DEF Idle, Tick, TickPc
<1>3. OthersKept(t) /\ tick'[t] = [Idle EXCEPT !.pc = "scan", !.todo = D]
  BY <1>1, <1>2, TickUpdate
<1>4. QED
  BY <1>3 DEF Freed, Idle

LEMMA LoadEffect ==
  ASSUME TypeOK, NEW t \in Ticks, Load(t), ~tick[t].lease
  PROVE  /\ OthersKept(t)
         /\ ~tick'[t].lease
         /\ \/ tick'[t].pc \in {"idle", "scan"}
            \/ /\ tick'[t].pc = "acquire"
               /\ tick'[t].s \in Schedules
               /\ tick'[t].occ \in Nat
               /\ tick'[t].succ \in Nat
               /\ tick'[t].occ < tick'[t].succ
<1>1. tick[t] \in Tick /\ tick[t].pc = "scan"
  BY DEF TypeOK, Load, IsAt
<1>2. PICK s \in tick[t].todo :
        LET item == [tick[t] EXCEPT !.todo = @ \ {s}] IN
        IF s \in rows
          THEN tick' = [tick EXCEPT ![t] =
                 [item EXCEPT !.pc = "acquire", !.s = s, !.occ = nextRunAt[s],
                              !.succ = NextOccurrence(cron[s], nextRunAt[s])]]
          ELSE tick' = [tick EXCEPT ![t] = IF item.todo = {} THEN Idle ELSE item]
  BY DEF Load
<1> DEFINE item == [tick[t] EXCEPT !.todo = @ \ {s}]
<1>3. s \in Schedules /\ nextRunAt[s] \in Nat /\ cron[s] \in Crons
  BY <1>1 DEF Tick, TypeOK
<1>4. item \in Tick /\ item.pc = "scan" /\ item.lease = FALSE
  BY <1>1 DEF Tick
<1>5. CASE s \in rows
  <2> DEFINE v == [item EXCEPT !.pc = "acquire", !.s = s, !.occ = nextRunAt[s],
                               !.succ = NextOccurrence(cron[s], nextRunAt[s])]
  <2>1. NextOccurrence(cron[s], nextRunAt[s]) \in Nat
        /\ nextRunAt[s] < NextOccurrence(cron[s], nextRunAt[s])
    BY <1>3, NextIsLater, CronPositive
  <2>2. v \in Tick
    <3> HIDE DEF item
    <3> QED BY <1>3, <1>4, <2>1 DEF Tick, TickPc
  <2>3. v.pc = "acquire" /\ v.s = s /\ v.occ = nextRunAt[s] /\ v.lease = FALSE
        /\ v.succ = NextOccurrence(cron[s], nextRunAt[s])
    <3> HIDE DEF item
    <3> QED BY <1>4 DEF Tick
  <2>4. OthersKept(t) /\ tick'[t] = v
    <3>1. tick' = [tick EXCEPT ![t] = v]
      BY <1>2, <1>5
    <3> HIDE DEF v
    <3> QED BY <2>2, <3>1, TickUpdate
  <2> HIDE DEF v
  <2>5. QED
    BY <1>3, <2>1, <2>3, <2>4
<1>6. CASE s \notin rows
  <2> DEFINE v == IF item.todo = {} THEN Idle ELSE item
  <2>1. {} \in SUBSET Schedules
    OBVIOUS
  <2>2. Idle \in Tick /\ Idle.pc = "idle" /\ ~Idle.lease
    BY <2>1 DEF Idle, Tick, TickPc
  <2>3. v \in Tick /\ v.pc \in {"idle", "scan"} /\ ~v.lease
    <3> HIDE DEF item
    <3> QED BY <1>4, <2>2
  <2>4. tick' = [tick EXCEPT ![t] = v]
    BY <1>2, <1>6
  <2> HIDE DEF v
  <2>5. QED
    BY <2>3, <2>4, TickUpdate
<1>7. QED
  BY <1>5, <1>6

LEMMA AcquireEffect ==
  ASSUME TypeOK, NEW t \in Ticks, AcquireLock(t)
  PROVE  /\ OthersKept(t)
         /\ \/ Locked(t) /\ Freed(t) /\ lock' = lock
            \/ /\ ~Locked(t) /\ SameItem(t) /\ tick'[t].pc = "claim" /\ tick'[t].lease
               /\ lock' = lock \cup {LockOf(t, t)}
<1>1. tick[t] \in Tick /\ tick[t].ok \in BOOLEAN
  BY DEF TypeOK, Tick
<1>2. CASE Locked(t)
  BY <1>2, NextItemEffect DEF AcquireLock
<1>3. CASE ~Locked(t)
  <2>1. tick' = [tick EXCEPT ![t].pc = "claim", ![t].lease = TRUE]
        /\ lock' = lock \cup {LockOf(t, t)}
    BY <1>3 DEF AcquireLock
  <2>2. tick' = [tick EXCEPT ![t] =
                  [tick[t] EXCEPT !.pc = "claim", !.ok = tick[t].ok, !.lease = TRUE]]
    BY <1>1, <2>1 DEF TypeOK, Tick
  <2>3. OthersKept(t) /\ SameItem(t) /\ tick'[t].pc = "claim" /\ tick'[t].lease = TRUE
    BY <1>1, <2>2, StepTo DEF TickPc
  <2>4. QED
    BY <1>3, <2>1, <2>3
<1>4. QED
  BY <1>2, <1>3

LEMMA GotoEffect ==
  ASSUME TypeOK, NEW t \in Ticks, NEW pc \in TickPc, Goto(t, pc)
  PROVE  OthersKept(t) /\ SameItem(t) /\ tick'[t].pc = pc /\ tick'[t].lease = tick[t].lease
<1>1. tick[t] \in Tick /\ tick[t].ok \in BOOLEAN /\ tick[t].lease \in BOOLEAN
  BY DEF TypeOK, Tick
<1>2. tick' = [tick EXCEPT ![t] =
                [tick[t] EXCEPT !.pc = pc, !.ok = tick[t].ok, !.lease = tick[t].lease]]
  BY <1>1 DEF Goto, TypeOK, Tick
<1>3. QED
  BY <1>1, <1>2, StepTo

LEMMA GenerateEffect ==
  ASSUME TypeOK, NEW t \in Ticks, Generate(t)
  PROVE  OthersKept(t) /\ SameItem(t) /\ tick'[t].pc = "release" /\ tick'[t].lease = tick[t].lease
<1>1. tick[t] \in Tick /\ tick[t].lease \in BOOLEAN
  BY DEF TypeOK, Tick
<1>2. PICK ok \in BOOLEAN : tick' = [tick EXCEPT ![t].pc = "release", ![t].ok = ok]
  BY DEF Generate
<1>3. tick' = [tick EXCEPT ![t] =
                [tick[t] EXCEPT !.pc = "release", !.ok = ok, !.lease = tick[t].lease]]
  BY <1>1, <1>2 DEF TypeOK, Tick
<1>4. QED
  BY <1>1, <1>3, StepTo DEF TickPc

LEMMA AfterReleaseEffect ==
  ASSUME TypeOK, NEW t \in Ticks, AfterRelease(t)
  PROVE  /\ OthersKept(t)
         /\ ~tick'[t].lease
         /\ \/ Freed(t)
            \/ SameItem(t) /\ tick'[t].pc = "record"
<1>1. tick[t] \in Tick /\ tick[t].ok \in BOOLEAN
  BY DEF TypeOK, Tick
<1>2. CASE tick[t].ok
  <2>1. tick' = [tick EXCEPT ![t] =
                  [tick[t] EXCEPT !.pc = "record", !.ok = tick[t].ok, !.lease = FALSE]]
    BY <1>1, <1>2 DEF AfterRelease, TypeOK, Tick
  <2>2. QED
    BY <1>1, <2>1, StepTo DEF TickPc
<1>3. CASE ~tick[t].ok
  <2>1. NextItem(t)
    BY <1>3 DEF AfterRelease, NextItem
  <2>2. QED
    BY <2>1, NextItemEffect DEF Freed
<1>4. QED
  BY <1>2, <1>3

LEMMA CrashEffect ==
  ASSUME TypeOK, NEW t \in Ticks, Crash(t)
  PROVE  OthersKept(t) /\ Freed(t)
<1>1. {} \in SUBSET Schedules
  OBVIOUS
<1>2. Idle \in Tick /\ Idle.pc = "idle" /\ Idle.lease = FALSE
  BY <1>1 DEF Idle, Tick, TickPc
<1>3. OthersKept(t) /\ tick'[t] = Idle
  BY <1>2, TickUpdate DEF Crash
<1>4. QED
  BY <1>2, <1>3 DEF Freed

LEMMA LeaseExpiresEffect ==
  ASSUME TypeOK, NEW t \in Ticks, LeaseExpires(t)
  PROVE  OthersKept(t) /\ SameItem(t) /\ tick'[t].pc = tick[t].pc /\ ~tick'[t].lease
<1>1. tick[t] \in Tick /\ tick[t].ok \in BOOLEAN /\ tick[t].pc \in TickPc
  BY DEF TypeOK, Tick
<1>2. tick' = [tick EXCEPT ![t] =
                [tick[t] EXCEPT !.pc = tick[t].pc, !.ok = tick[t].ok, !.lease = FALSE]]
  BY <1>1 DEF LeaseExpires, TypeOK, Tick
<1>3. QED
  BY <1>1, <1>2, StepTo

(* A PATCH computes its date strictly after its clock reading. *)
LEMMA EditAheadStep ==
  ASSUME IInv, [Next]_vars
  PROVE  EditAhead'
<1>1. ASSUME NEW t \in Ticks, Discover(t) PROVE EditAhead'
  BY <1>1 DEF Discover, IInv, EditAhead, table, history
<1>2. ASSUME NEW t \in Ticks, Load(t) PROVE EditAhead'
  BY <1>2 DEF Load, IInv, EditAhead, table, history
<1>3. ASSUME NEW t \in Ticks, AcquireLock(t) PROVE EditAhead'
  BY <1>3 DEF AcquireLock, IInv, EditAhead, table, history
<1>4. ASSUME NEW t \in Ticks, AcquireFails(t) PROVE EditAhead'
  BY <1>4 DEF AcquireFails, IInv, EditAhead, table, history
<1>5. ASSUME NEW t \in Ticks, Claim(t) PROVE EditAhead'
  BY <1>5 DEF Claim, IInv, EditAhead, table, history
<1>6. ASSUME NEW t \in Ticks, ClaimFails(t) PROVE EditAhead'
  BY <1>6 DEF ClaimFails, IInv, EditAhead, table, history
<1>7. ASSUME NEW t \in Ticks, Generate(t) PROVE EditAhead'
  BY <1>7 DEF Generate, IInv, EditAhead, table, history
<1>8. ASSUME NEW t \in Ticks, Release(t) PROVE EditAhead'
  BY <1>8 DEF Release, IInv, EditAhead, table, history
<1>9. ASSUME NEW t \in Ticks, ReleaseFails(t) PROVE EditAhead'
  BY <1>9 DEF ReleaseFails, IInv, EditAhead, table, history
<1>10. ASSUME NEW t \in Ticks, Record(t) PROVE EditAhead'
  BY <1>10 DEF Record, IInv, EditAhead, table, history
<1>11. ASSUME NEW t \in Ticks, Crash(t) PROVE EditAhead'
  BY <1>11 DEF Crash, IInv, EditAhead, table, history
<1>12. ASSUME NEW t \in Ticks, LeaseExpires(t) PROVE EditAhead'
  BY <1>12 DEF LeaseExpires, IInv, EditAhead, table, history
<1>13. ASSUME NEW s \in Schedules, NEW c \in Crons, CreateSchedule(s, c)
      PROVE  EditAhead'
  BY <1>13 DEF CreateSchedule, IInv, EditAhead, table, history
<1>14. ASSUME NEW e \in Edits, NEW s \in Schedules, NEW c \in Crons \cup {None},
             NEW on \in BOOLEAN \cup {None}, EditRead(e, s, c, on)
      PROVE  EditAhead'
  <2>1. EditedNext(s, c, on) # None => now < EditedNext(s, c, on)
    <3>1. now \in Nat /\ cron[s] \in Crons
      BY <1>14, BoundAssumption DEF EditRead, IInv, TypeOK
    <3>2. now < NextOccurrence(cron[s], now)
      BY <3>1, NextIsLater, CronPositive
    <3>3. c # None => now < NextOccurrence(c, now)
      BY <3>1, NextIsLater, CronPositive
    <3>4. QED
      BY <3>2, <3>3 DEF EditedNext
  <2>2. QED
    BY <1>14, <2>1 DEF EditRead, IInv, EditAhead, TypeOK
<1>15. ASSUME NEW e \in Edits, EditSave(e)
      PROVE  EditAhead'
  BY <1>15 DEF EditSave, IInv, EditAhead, TypeOK
<1>16. ASSUME NEW s \in Schedules, DeleteSchedule(s)
      PROVE  EditAhead'
  BY <1>16 DEF DeleteSchedule, IInv, EditAhead, table, history
<1>17. CASE OrphanExpires
  BY <1>17 DEF OrphanExpires, IInv, EditAhead, table, history
<1>18. CASE Tock
  BY <1>18 DEF Tock, IInv, EditAhead, table, history
<1>19. CASE UNCHANGED vars
  BY <1>19 DEF vars, IInv, EditAhead
<1>20. QED
  BY <1>1, <1>2, <1>3, <1>4, <1>5, <1>6, <1>7, <1>8, <1>9, <1>10, <1>11, <1>12, <1>13, <1>14, <1>15, <1>16, <1>17, <1>18, <1>19 DEF Next, Work, Fault, User

(* An orphaned key takes the place of its owner's. *)
LEMMA OrphanedUnique ==
  ASSUME IInv, NEW t \in Ticks,
         NEW k \in Orphaned(t), NEW l \in Orphaned(t), k.s = l.s, k.occ = l.occ
  PROVE  k = l
<1> DEFINE own == LockOf(t, t)
           orphan == LockOf(t, None)
<1>1. own.s = orphan.s /\ own.occ = orphan.occ
  BY DEF LockOf
<1>2. CASE ~tick[t].lease
  BY <1>2 DEF Orphaned, IInv, KeyUnique
<1>3. CASE tick[t].lease
  <2>1. own \in lock /\ Orphaned(t) = (lock \ {own}) \cup {orphan}
    BY <1>3 DEF Orphaned, IInv, LeaseHeld
  <2> HIDE DEF own, orphan
  <2>2. QED
    BY <1>1, <2>1 DEF IInv, KeyUnique
<1>4. QED
  BY <1>2, <1>3

(* SET NX writes a key only when it is free. *)
LEMMA KeyUniqueStep ==
  ASSUME IInv, [Next]_vars
  PROVE  KeyUnique'
<1>1. ASSUME NEW t \in Ticks, Discover(t) PROVE KeyUnique'
  BY <1>1 DEF Discover, IInv, KeyUnique, table, history
<1>2. ASSUME NEW t \in Ticks, Load(t) PROVE KeyUnique'
  BY <1>2 DEF Load, IInv, KeyUnique, table, history
<1>3. ASSUME NEW t \in Ticks, AcquireLock(t) PROVE KeyUnique'
  BY <1>3, AcquireEffect DEF IInv, KeyUnique, LockOf, Locked
<1>4. ASSUME NEW t \in Ticks, AcquireFails(t) PROVE KeyUnique'
  BY <1>4 DEF AcquireFails, IInv, KeyUnique, LockOf, Locked
<1>5. ASSUME NEW t \in Ticks, Claim(t) PROVE KeyUnique'
  BY <1>5 DEF Claim, IInv, KeyUnique, table, history
<1>6. ASSUME NEW t \in Ticks, ClaimFails(t) PROVE KeyUnique'
  BY <1>6 DEF ClaimFails, IInv, KeyUnique, table, history
<1>7. ASSUME NEW t \in Ticks, Generate(t) PROVE KeyUnique'
  BY <1>7 DEF Generate, IInv, KeyUnique, table, history
<1>8. ASSUME NEW t \in Ticks, Release(t) PROVE KeyUnique'
  BY <1>8 DEF Release, IInv, KeyUnique, table, history
<1>9. ASSUME NEW t \in Ticks, ReleaseFails(t) PROVE KeyUnique'
  BY <1>9, OrphanedUnique DEF ReleaseFails, KeyUnique
<1>10. ASSUME NEW t \in Ticks, Record(t) PROVE KeyUnique'
  BY <1>10 DEF Record, IInv, KeyUnique, table, history
<1>11. ASSUME NEW t \in Ticks, Crash(t) PROVE KeyUnique'
  BY <1>11, OrphanedUnique DEF Crash, KeyUnique
<1>12. ASSUME NEW t \in Ticks, LeaseExpires(t) PROVE KeyUnique'
  BY <1>12 DEF LeaseExpires, IInv, KeyUnique, table, history
<1>13. ASSUME NEW s \in Schedules, NEW c \in Crons, CreateSchedule(s, c)
      PROVE  KeyUnique'
  BY <1>13 DEF CreateSchedule, IInv, KeyUnique, table, history
<1>14. ASSUME NEW e \in Edits, NEW s \in Schedules, NEW c \in Crons \cup {None},
             NEW on \in BOOLEAN \cup {None}, EditRead(e, s, c, on)
      PROVE  KeyUnique'
  BY <1>14 DEF EditRead, IInv, KeyUnique, table, history
<1>15. ASSUME NEW e \in Edits, EditSave(e)
      PROVE  KeyUnique'
  BY <1>15 DEF EditSave, IInv, KeyUnique, table, history
<1>16. ASSUME NEW s \in Schedules, DeleteSchedule(s)
      PROVE  KeyUnique'
  BY <1>16 DEF DeleteSchedule, IInv, KeyUnique, table, history
<1>17. CASE OrphanExpires
  BY <1>17 DEF OrphanExpires, IInv, KeyUnique, table, history
<1>18. CASE Tock
  BY <1>18 DEF Tock, IInv, KeyUnique, table, history
<1>19. CASE UNCHANGED vars
  BY <1>19 DEF vars, IInv, KeyUnique
<1>20. QED
  BY <1>1, <1>2, <1>3, <1>4, <1>5, <1>6, <1>7, <1>8, <1>9, <1>10, <1>11, <1>12, <1>13, <1>14, <1>15, <1>16, <1>17, <1>18, <1>19 DEF Next, Work, Fault, User

(* Load is what gives a tick its item. *)
LEMMA WorkingStep ==
  ASSUME IInv, [Next]_vars
  PROVE  WorkingOnItem'
<1>1. ASSUME NEW t \in Ticks, Discover(t) PROVE WorkingOnItem'
  BY <1>1, DiscoverEffect DEF IInv, WorkingOnItem, Busy, OthersKept, Freed
<1>2. ASSUME NEW t \in Ticks, Load(t) PROVE WorkingOnItem'
  <2>1. ~tick[t].lease
    BY <1>2 DEF Load, IsAt, IInv, LeaseHeld
  <2>2. QED
    BY <1>2, <2>1, LoadEffect DEF IInv, WorkingOnItem, Busy, OthersKept
<1>3. ASSUME NEW t \in Ticks, AcquireLock(t) PROVE WorkingOnItem'
  BY <1>3, AcquireEffect DEF AcquireLock, IsAt, IInv, WorkingOnItem, Busy, OthersKept, SameItem, Freed
<1>4. ASSUME NEW t \in Ticks, AcquireFails(t) PROVE WorkingOnItem'
  BY <1>4, NextItemEffect DEF AcquireFails, IInv, WorkingOnItem, Busy, OthersKept, Freed
<1>5. ASSUME NEW t \in Ticks, Claim(t) PROVE WorkingOnItem'
  <2>1. PICK pc \in {"generate", "release"} : Goto(t, pc)
    BY <1>5 DEF Claim
  <2>2. pc \in TickPc
    BY <2>1 DEF TickPc
  <2>3. QED
    BY <1>5, <2>1, <2>2, GotoEffect DEF Claim, IsAt, IInv, WorkingOnItem, Busy, OthersKept, SameItem
<1>6. ASSUME NEW t \in Ticks, ClaimFails(t) PROVE WorkingOnItem'
  <2>1. Goto(t, "release") /\ "release" \in TickPc
    BY <1>6 DEF ClaimFails, TickPc
  <2>2. QED
    BY <1>6, <2>1, GotoEffect DEF ClaimFails, IsAt, IInv, WorkingOnItem, Busy, OthersKept, SameItem
<1>7. ASSUME NEW t \in Ticks, Generate(t) PROVE WorkingOnItem'
  BY <1>7, GenerateEffect DEF Generate, IsAt, IInv, WorkingOnItem, Busy, OthersKept, SameItem
<1>8. ASSUME NEW t \in Ticks, Release(t) PROVE WorkingOnItem'
  BY <1>8, AfterReleaseEffect DEF Release, IsAt, IInv, WorkingOnItem, Busy, OthersKept, SameItem, Freed
<1>9. ASSUME NEW t \in Ticks, ReleaseFails(t) PROVE WorkingOnItem'
  BY <1>9, AfterReleaseEffect DEF ReleaseFails, IsAt, IInv, WorkingOnItem, Busy, OthersKept, SameItem, Freed
<1>10. ASSUME NEW t \in Ticks, Record(t) PROVE WorkingOnItem'
  BY <1>10, NextItemEffect DEF Record, IInv, WorkingOnItem, Busy, OthersKept, Freed
<1>11. ASSUME NEW t \in Ticks, Crash(t) PROVE WorkingOnItem'
  BY <1>11, CrashEffect DEF IInv, WorkingOnItem, Busy, OthersKept, Freed
<1>12. ASSUME NEW t \in Ticks, LeaseExpires(t) PROVE WorkingOnItem'
  BY <1>12, LeaseExpiresEffect DEF IInv, WorkingOnItem, Busy, OthersKept, SameItem
<1>13. ASSUME NEW s \in Schedules, NEW c \in Crons, CreateSchedule(s, c)
      PROVE  WorkingOnItem'
  BY <1>13 DEF CreateSchedule, IInv, WorkingOnItem, Busy, table, history
<1>14. ASSUME NEW e \in Edits, NEW s \in Schedules, NEW c \in Crons \cup {None},
             NEW on \in BOOLEAN \cup {None}, EditRead(e, s, c, on)
      PROVE  WorkingOnItem'
  BY <1>14 DEF EditRead, IInv, WorkingOnItem, Busy, table, history
<1>15. ASSUME NEW e \in Edits, EditSave(e)
      PROVE  WorkingOnItem'
  BY <1>15 DEF EditSave, IInv, WorkingOnItem, Busy, table, history
<1>16. ASSUME NEW s \in Schedules, DeleteSchedule(s)
      PROVE  WorkingOnItem'
  BY <1>16 DEF DeleteSchedule, IInv, WorkingOnItem, Busy, table, history
<1>17. CASE OrphanExpires
  BY <1>17 DEF OrphanExpires, IInv, WorkingOnItem, Busy, table, history
<1>18. CASE Tock
  BY <1>18 DEF Tock, IInv, WorkingOnItem, Busy, table, history
<1>19. CASE UNCHANGED vars
  BY <1>19 DEF vars, IInv, WorkingOnItem, Busy
<1>20. QED
  BY <1>1, <1>2, <1>3, <1>4, <1>5, <1>6, <1>7, <1>8, <1>9, <1>10, <1>11, <1>12, <1>13, <1>14, <1>15, <1>16, <1>17, <1>18, <1>19 DEF Next, Work, Fault, User

(* Only its owner, or its TTL, ends a lease. *)
LEMMA LeaseStep ==
  ASSUME IInv, [Next]_vars
  PROVE  LeaseHeld'
<1>1. ASSUME NEW t \in Ticks, Discover(t) PROVE LeaseHeld'
  BY <1>1, DiscoverEffect DEF Discover, IInv, LeaseHeld, LockOf, OthersKept, Freed
<1>2. ASSUME NEW t \in Ticks, Load(t) PROVE LeaseHeld'
  <2>1. ~tick[t].lease
    BY <1>2 DEF Load, IsAt, IInv, LeaseHeld
  <2>2. QED
    BY <1>2, <2>1, LoadEffect DEF Load, IInv, LeaseHeld, LockOf, OthersKept
<1>3. ASSUME NEW t \in Ticks, AcquireLock(t) PROVE LeaseHeld'
  BY <1>3, AcquireEffect DEF IInv, LeaseHeld, LockOf, OthersKept, SameItem, Freed
<1>4. ASSUME NEW t \in Ticks, AcquireFails(t) PROVE LeaseHeld'
  BY <1>4, NextItemEffect DEF AcquireFails, IInv, LeaseHeld, LockOf, OthersKept, Freed
<1>5. ASSUME NEW t \in Ticks, Claim(t) PROVE LeaseHeld'
  <2>1. PICK pc \in {"generate", "release"} : Goto(t, pc)
    BY <1>5 DEF Claim
  <2>2. pc \in TickPc
    BY <2>1 DEF TickPc
  <2>3. QED
    BY <1>5, <2>1, <2>2, GotoEffect DEF Claim, IInv, LeaseHeld, LockOf, OthersKept, SameItem
<1>6. ASSUME NEW t \in Ticks, ClaimFails(t) PROVE LeaseHeld'
  <2>1. Goto(t, "release") /\ "release" \in TickPc
    BY <1>6 DEF ClaimFails, TickPc
  <2>2. QED
    BY <1>6, <2>1, GotoEffect DEF ClaimFails, IInv, LeaseHeld, LockOf, OthersKept, SameItem
<1>7. ASSUME NEW t \in Ticks, Generate(t) PROVE LeaseHeld'
  BY <1>7, GenerateEffect DEF Generate, IInv, LeaseHeld, LockOf, OthersKept, SameItem
<1>8. ASSUME NEW t \in Ticks, Release(t) PROVE LeaseHeld'
  BY <1>8, AfterReleaseEffect DEF Release, IInv, LeaseHeld, LockOf, OthersKept, Freed
<1>9. ASSUME NEW t \in Ticks, ReleaseFails(t) PROVE LeaseHeld'
  BY <1>9, AfterReleaseEffect, NoneAssumption DEF ReleaseFails, Orphaned, IInv, LeaseHeld, LockOf, OthersKept, Freed
<1>10. ASSUME NEW t \in Ticks, Record(t) PROVE LeaseHeld'
  BY <1>10, NextItemEffect DEF Record, IInv, LeaseHeld, LockOf, OthersKept, Freed
<1>11. ASSUME NEW t \in Ticks, Crash(t) PROVE LeaseHeld'
  BY <1>11, CrashEffect, NoneAssumption DEF Crash, Orphaned, IInv, LeaseHeld, LockOf, OthersKept, Freed
<1>12. ASSUME NEW t \in Ticks, LeaseExpires(t) PROVE LeaseHeld'
  BY <1>12, LeaseExpiresEffect DEF LeaseExpires, IInv, LeaseHeld, LockOf, OthersKept, SameItem
<1>13. ASSUME NEW s \in Schedules, NEW c \in Crons, CreateSchedule(s, c)
      PROVE  LeaseHeld'
  BY <1>13 DEF CreateSchedule, IInv, LeaseHeld, LockOf, table, history
<1>14. ASSUME NEW e \in Edits, NEW s \in Schedules, NEW c \in Crons \cup {None},
             NEW on \in BOOLEAN \cup {None}, EditRead(e, s, c, on)
      PROVE  LeaseHeld'
  BY <1>14 DEF EditRead, IInv, LeaseHeld, LockOf, table, history
<1>15. ASSUME NEW e \in Edits, EditSave(e)
      PROVE  LeaseHeld'
  BY <1>15 DEF EditSave, IInv, LeaseHeld, LockOf, table, history
<1>16. ASSUME NEW s \in Schedules, DeleteSchedule(s)
      PROVE  LeaseHeld'
  BY <1>16 DEF DeleteSchedule, IInv, LeaseHeld, LockOf, table, history
<1>17. CASE OrphanExpires
  BY <1>17, NoneAssumption DEF OrphanExpires, IInv, LeaseHeld, LockOf
<1>18. CASE Tock
  BY <1>18 DEF Tock, IInv, LeaseHeld, LockOf, table, history
<1>19. CASE UNCHANGED vars
  BY <1>19 DEF vars, IInv, LeaseHeld, LockOf
<1>20. QED
  BY <1>1, <1>2, <1>3, <1>4, <1>5, <1>6, <1>7, <1>8, <1>9, <1>10, <1>11, <1>12, <1>13, <1>14, <1>15, <1>16, <1>17, <1>18, <1>19 DEF Next, Work, Fault, User

(* What the compare-and-set does when it succeeds. *)
LEMMA AdvanceEffect ==
  ASSUME IInv, NEW t \in Ticks, Busy(t), Claimable(t), Advance(t)
  PROVE  /\ nextRunAt' \in [Schedules -> Nat]
         /\ \A s \in Schedules : nextRunAt'[s] >= nextRunAt[s]
         /\ nextRunAt[tick[t].s] = tick[t].occ
         /\ nextRunAt'[tick[t].s] > tick[t].occ
         /\ tick[t].s \in used
         /\ claims \subseteq claims'
         /\ \A c \in claims' \ claims : c = [s |-> tick[t].s, occ |-> tick[t].occ, at |-> now]
         /\ \A q \in repeated' \ repeated :
              /\ q = <<tick[t].s, tick[t].occ>>
              /\ \E c \in claims : c.s = tick[t].s /\ c.occ = tick[t].occ
<1>1. /\ tick[t].s \in Schedules /\ tick[t].occ \in Nat /\ tick[t].succ \in Nat
      /\ tick[t].occ < tick[t].succ
  BY DEF IInv, WorkingOnItem
<1>2. nextRunAt' = [nextRunAt EXCEPT ![tick[t].s] = tick[t].succ]
  BY DEF Advance
<1>3. QED
  BY <1>1, <1>2 DEF IInv, TypeOK, Claimable, Advance

(* Claims move nextRunAt forwards; a PATCH that moves it back is noted. *)
LEMMA ClaimsStep ==
  ASSUME IInv, [Next]_vars
  PROVE  ClaimsPassed'
<1>1. ASSUME NEW t \in Ticks, Discover(t) PROVE ClaimsPassed'
  BY <1>1 DEF Discover, IInv, ClaimsPassed, table, history
<1>2. ASSUME NEW t \in Ticks, Load(t) PROVE ClaimsPassed'
  BY <1>2 DEF Load, IInv, ClaimsPassed, table, history
<1>3. ASSUME NEW t \in Ticks, AcquireLock(t) PROVE ClaimsPassed'
  BY <1>3 DEF AcquireLock, IInv, ClaimsPassed, table, history
<1>4. ASSUME NEW t \in Ticks, AcquireFails(t) PROVE ClaimsPassed'
  BY <1>4 DEF AcquireFails, IInv, ClaimsPassed, table, history
<1>5. ASSUME NEW t \in Ticks, Claim(t) PROVE ClaimsPassed'
  <2>1. Busy(t) /\ rewound' = rewound /\ used' = used
    BY <1>5 DEF Claim, IsAt, Busy
  <2>2. CASE Claimable(t) /\ Advance(t)
    <3>1. ASSUME NEW c \in claims
          PROVE  /\ c.s \in used
                 /\ nextRunAt'[c.s] > c.occ \/ <<c.s, c.occ>> \in rewound \/ c.at < c.occ
      <4>1. c.s \in Schedules /\ c.occ \in Nat /\ nextRunAt[c.s] \in Nat
        BY DEF IInv, TypeOK
      <4>2. nextRunAt'[c.s] \in Nat /\ nextRunAt'[c.s] >= nextRunAt[c.s]
        BY <2>1, <2>2, <4>1, AdvanceEffect
      <4>3. QED
        BY <4>1, <4>2 DEF IInv, ClaimsPassed
    <3>2. ASSUME NEW c \in claims' \ claims
          PROVE  c.s \in used /\ nextRunAt'[c.s] > c.occ
      <4>1. c = [s |-> tick[t].s, occ |-> tick[t].occ, at |-> now]
        BY <2>1, <2>2, AdvanceEffect
      <4>2. tick[t].s \in used /\ nextRunAt'[tick[t].s] > tick[t].occ
        BY <2>1, <2>2, AdvanceEffect
      <4>3. QED
        BY <4>1, <4>2
    <3>3. QED
      BY <2>1, <3>1, <3>2 DEF ClaimsPassed
  <2>3. CASE nextRunAt' = nextRunAt /\ claims' = claims
    BY <2>1, <2>3 DEF IInv, ClaimsPassed, TypeOK
  <2>4. QED
    BY <1>5, <2>2, <2>3 DEF Claim
<1>6. ASSUME NEW t \in Ticks, ClaimFails(t) PROVE ClaimsPassed'
  <2>1. Busy(t) /\ rewound' = rewound /\ used' = used
    BY <1>6 DEF ClaimFails, IsAt, Busy
  <2>2. CASE Claimable(t) /\ Advance(t)
    <3>1. ASSUME NEW c \in claims
          PROVE  /\ c.s \in used
                 /\ nextRunAt'[c.s] > c.occ \/ <<c.s, c.occ>> \in rewound \/ c.at < c.occ
      <4>1. c.s \in Schedules /\ c.occ \in Nat /\ nextRunAt[c.s] \in Nat
        BY DEF IInv, TypeOK
      <4>2. nextRunAt'[c.s] \in Nat /\ nextRunAt'[c.s] >= nextRunAt[c.s]
        BY <2>1, <2>2, <4>1, AdvanceEffect
      <4>3. QED
        BY <4>1, <4>2 DEF IInv, ClaimsPassed
    <3>2. ASSUME NEW c \in claims' \ claims
          PROVE  c.s \in used /\ nextRunAt'[c.s] > c.occ
      <4>1. c = [s |-> tick[t].s, occ |-> tick[t].occ, at |-> now]
        BY <2>1, <2>2, AdvanceEffect
      <4>2. tick[t].s \in used /\ nextRunAt'[tick[t].s] > tick[t].occ
        BY <2>1, <2>2, AdvanceEffect
      <4>3. QED
        BY <4>1, <4>2
    <3>3. QED
      BY <2>1, <3>1, <3>2 DEF ClaimsPassed
  <2>3. CASE nextRunAt' = nextRunAt /\ claims' = claims
    BY <2>1, <2>3 DEF IInv, ClaimsPassed, TypeOK
  <2>4. QED
    BY <1>6, <2>2, <2>3 DEF ClaimFails
<1>7. ASSUME NEW t \in Ticks, Generate(t) PROVE ClaimsPassed'
  BY <1>7 DEF Generate, IInv, ClaimsPassed, table, history
<1>8. ASSUME NEW t \in Ticks, Release(t) PROVE ClaimsPassed'
  BY <1>8 DEF Release, IInv, ClaimsPassed, table, history
<1>9. ASSUME NEW t \in Ticks, ReleaseFails(t) PROVE ClaimsPassed'
  BY <1>9 DEF ReleaseFails, IInv, ClaimsPassed, table, history
<1>10. ASSUME NEW t \in Ticks, Record(t) PROVE ClaimsPassed'
  BY <1>10 DEF Record, IInv, ClaimsPassed, table, history
<1>11. ASSUME NEW t \in Ticks, Crash(t) PROVE ClaimsPassed'
  BY <1>11 DEF Crash, IInv, ClaimsPassed, table, history
<1>12. ASSUME NEW t \in Ticks, LeaseExpires(t) PROVE ClaimsPassed'
  BY <1>12 DEF LeaseExpires, IInv, ClaimsPassed, table, history
<1>13. ASSUME NEW s \in Schedules, NEW c \in Crons, CreateSchedule(s, c)
      PROVE  ClaimsPassed'
  BY <1>13 DEF CreateSchedule, IInv, ClaimsPassed, TypeOK, history
<1>14. ASSUME NEW e \in Edits, NEW s \in Schedules, NEW c \in Crons \cup {None},
             NEW on \in BOOLEAN \cup {None}, EditRead(e, s, c, on)
      PROVE  ClaimsPassed'
  BY <1>14 DEF EditRead, IInv, ClaimsPassed, table, history
<1>15. ASSUME NEW e \in Edits, EditSave(e)
      PROVE  ClaimsPassed'
  <2> DEFINE q == edit[e]
  <2>1. CASE q.s \notin rows
    BY <1>15, <2>1 DEF EditSave, IInv, ClaimsPassed, TypeOK
  <2>2. CASE q.s \in rows
    <3>1. q # NoEdit /\ q \in Edit /\ q.s \in Schedules /\ q.at \in Nat
      BY <1>15 DEF EditSave, IInv, TypeOK, Edit
    <3>2. q.next # None => q.next \in Nat /\ q.at < q.next
      BY <1>15, <3>1 DEF EditSave, IInv, TypeOK, Edit, EditAhead
    <3>3. nextRunAt' = IF q.next = None THEN nextRunAt ELSE [nextRunAt EXCEPT ![q.s] = q.next]
      BY <1>15, <2>2 DEF EditSave
    <3>4. rewound' = rewound \cup
            {<<c.s, c.occ>> : c \in {d \in claims :
               d.s = q.s /\ q.next # None /\ q.next <= d.occ /\ q.at < d.at}}
      BY <1>15, <2>2 DEF EditSave
    <3>5. used' = used /\ claims' = claims
      BY <1>15 DEF EditSave
    <3>6. ASSUME NEW c \in claims
          PROVE  nextRunAt'[c.s] > c.occ \/ <<c.s, c.occ>> \in rewound' \/ c.at < c.occ
      <4>1. c.s \in Schedules /\ c.occ \in Nat /\ c.at \in Nat
        BY <3>6 DEF IInv, TypeOK
      <4>2. nextRunAt[c.s] > c.occ \/ <<c.s, c.occ>> \in rewound \/ c.at < c.occ
        BY DEF IInv, ClaimsPassed
      <4>3. CASE q.next = None \/ c.s # q.s
        BY <3>1, <3>3, <3>4, <4>1, <4>2, <4>3 DEF IInv, TypeOK
      <4>4. CASE q.next # None /\ c.s = q.s /\ q.next > c.occ
        BY <3>1, <3>3, <4>1, <4>4 DEF IInv, TypeOK
      <4>5. CASE q.next # None /\ c.s = q.s /\ ~(q.next > c.occ) /\ ~(c.at < c.occ)
        <5>1. q.next <= c.occ /\ q.at < c.at
          BY <3>1, <3>2, <4>1, <4>5
        <5>2. QED
          BY <3>4, <4>5, <5>1
      <4>6. QED
        BY <4>3, <4>4, <4>5
    <3>7. QED
      BY <3>5, <3>6 DEF IInv, ClaimsPassed
  <2>3. QED
    BY <2>1, <2>2
<1>16. ASSUME NEW s \in Schedules, DeleteSchedule(s)
      PROVE  ClaimsPassed'
  BY <1>16 DEF DeleteSchedule, IInv, ClaimsPassed, table, history
<1>17. CASE OrphanExpires
  BY <1>17 DEF OrphanExpires, IInv, ClaimsPassed, table, history
<1>18. CASE Tock
  BY <1>18 DEF Tock, IInv, ClaimsPassed, table, history
<1>19. CASE UNCHANGED vars
  BY <1>19 DEF vars, table, history, IInv, ClaimsPassed
<1>20. QED
  BY <1>1, <1>2, <1>3, <1>4, <1>5, <1>6, <1>7, <1>8, <1>9, <1>10, <1>11, <1>12, <1>13, <1>14, <1>15, <1>16, <1>17, <1>18, <1>19 DEF Next, Work, Fault, User

(* A second claim finds nextRunAt at a claimed occurrence. *)
LEMMA ClaimedOnceStep ==
  ASSUME IInv, [Next]_vars
  PROVE  ClaimedOnce'
<1>1. ASSUME NEW t \in Ticks, Discover(t) PROVE ClaimedOnce'
  BY <1>1 DEF Discover, IInv, ClaimedOnce, table, history
<1>2. ASSUME NEW t \in Ticks, Load(t) PROVE ClaimedOnce'
  BY <1>2 DEF Load, IInv, ClaimedOnce, table, history
<1>3. ASSUME NEW t \in Ticks, AcquireLock(t) PROVE ClaimedOnce'
  BY <1>3 DEF AcquireLock, IInv, ClaimedOnce, table, history
<1>4. ASSUME NEW t \in Ticks, AcquireFails(t) PROVE ClaimedOnce'
  BY <1>4 DEF AcquireFails, IInv, ClaimedOnce, table, history
<1>5. ASSUME NEW t \in Ticks, Claim(t) PROVE ClaimedOnce'
  <2>1. Busy(t) /\ rewound' = rewound
    BY <1>5 DEF Claim, IsAt, Busy
  <2>2. CASE Claimable(t) /\ Advance(t)
    <3>1. ASSUME NEW q \in repeated'
          PROVE  q \in rewound \/ \E c \in claims : c.s = q[1] /\ c.occ = q[2] /\ c.at < c.occ
      <4>1. CASE q \in repeated
        BY <4>1 DEF IInv, ClaimedOnce
      <4>2. CASE q \notin repeated
        <5>1. PICK c \in claims : c.s = tick[t].s /\ c.occ = tick[t].occ
          BY <2>1, <2>2, <3>1, <4>2, AdvanceEffect
        <5>2. q = <<tick[t].s, tick[t].occ>> /\ nextRunAt[tick[t].s] = tick[t].occ
          BY <2>1, <2>2, <3>1, <4>2, AdvanceEffect
        <5>3. c.occ \in Nat /\ ~(nextRunAt[c.s] > c.occ)
          BY <5>1, <5>2 DEF IInv, TypeOK
        <5>4. <<c.s, c.occ>> \in rewound \/ c.at < c.occ
          BY <5>3 DEF IInv, ClaimsPassed
        <5>5. QED
          BY <5>1, <5>2, <5>4
      <4>3. QED
        BY <4>1, <4>2
    <3>2. claims \subseteq claims'
      BY <2>1, <2>2, AdvanceEffect
    <3>3. QED
      BY <2>1, <3>1, <3>2 DEF ClaimedOnce
  <2>3. CASE claims' = claims /\ repeated' = repeated
    BY <2>1, <2>3 DEF IInv, ClaimedOnce
  <2>4. QED
    BY <1>5, <2>2, <2>3 DEF Claim
<1>6. ASSUME NEW t \in Ticks, ClaimFails(t) PROVE ClaimedOnce'
  <2>1. Busy(t) /\ rewound' = rewound
    BY <1>6 DEF ClaimFails, IsAt, Busy
  <2>2. CASE Claimable(t) /\ Advance(t)
    <3>1. ASSUME NEW q \in repeated'
          PROVE  q \in rewound \/ \E c \in claims : c.s = q[1] /\ c.occ = q[2] /\ c.at < c.occ
      <4>1. CASE q \in repeated
        BY <4>1 DEF IInv, ClaimedOnce
      <4>2. CASE q \notin repeated
        <5>1. PICK c \in claims : c.s = tick[t].s /\ c.occ = tick[t].occ
          BY <2>1, <2>2, <3>1, <4>2, AdvanceEffect
        <5>2. q = <<tick[t].s, tick[t].occ>> /\ nextRunAt[tick[t].s] = tick[t].occ
          BY <2>1, <2>2, <3>1, <4>2, AdvanceEffect
        <5>3. c.occ \in Nat /\ ~(nextRunAt[c.s] > c.occ)
          BY <5>1, <5>2 DEF IInv, TypeOK
        <5>4. <<c.s, c.occ>> \in rewound \/ c.at < c.occ
          BY <5>3 DEF IInv, ClaimsPassed
        <5>5. QED
          BY <5>1, <5>2, <5>4
      <4>3. QED
        BY <4>1, <4>2
    <3>2. claims \subseteq claims'
      BY <2>1, <2>2, AdvanceEffect
    <3>3. QED
      BY <2>1, <3>1, <3>2 DEF ClaimedOnce
  <2>3. CASE claims' = claims /\ repeated' = repeated
    BY <2>1, <2>3 DEF IInv, ClaimedOnce
  <2>4. QED
    BY <1>6, <2>2, <2>3 DEF ClaimFails
<1>7. ASSUME NEW t \in Ticks, Generate(t) PROVE ClaimedOnce'
  BY <1>7 DEF Generate, IInv, ClaimedOnce, table, history
<1>8. ASSUME NEW t \in Ticks, Release(t) PROVE ClaimedOnce'
  BY <1>8 DEF Release, IInv, ClaimedOnce, table, history
<1>9. ASSUME NEW t \in Ticks, ReleaseFails(t) PROVE ClaimedOnce'
  BY <1>9 DEF ReleaseFails, IInv, ClaimedOnce, table, history
<1>10. ASSUME NEW t \in Ticks, Record(t) PROVE ClaimedOnce'
  BY <1>10 DEF Record, IInv, ClaimedOnce, table, history
<1>11. ASSUME NEW t \in Ticks, Crash(t) PROVE ClaimedOnce'
  BY <1>11 DEF Crash, IInv, ClaimedOnce, table, history
<1>12. ASSUME NEW t \in Ticks, LeaseExpires(t) PROVE ClaimedOnce'
  BY <1>12 DEF LeaseExpires, IInv, ClaimedOnce, table, history
<1>13. ASSUME NEW s \in Schedules, NEW c \in Crons, CreateSchedule(s, c)
      PROVE  ClaimedOnce'
  BY <1>13 DEF CreateSchedule, IInv, ClaimedOnce, table, history
<1>14. ASSUME NEW e \in Edits, NEW s \in Schedules, NEW c \in Crons \cup {None},
             NEW on \in BOOLEAN \cup {None}, EditRead(e, s, c, on)
      PROVE  ClaimedOnce'
  BY <1>14 DEF EditRead, IInv, ClaimedOnce, table, history
<1>15. ASSUME NEW e \in Edits, EditSave(e)
      PROVE  ClaimedOnce'
  BY <1>15 DEF EditSave, IInv, ClaimedOnce, table, history
<1>16. ASSUME NEW s \in Schedules, DeleteSchedule(s)
      PROVE  ClaimedOnce'
  BY <1>16 DEF DeleteSchedule, IInv, ClaimedOnce, table, history
<1>17. CASE OrphanExpires
  BY <1>17 DEF OrphanExpires, IInv, ClaimedOnce, table, history
<1>18. CASE Tock
  BY <1>18 DEF Tock, IInv, ClaimedOnce, table, history
<1>19. CASE UNCHANGED vars
  BY <1>19 DEF vars, history, IInv, ClaimedOnce
<1>20. QED
  BY <1>1, <1>2, <1>3, <1>4, <1>5, <1>6, <1>7, <1>8, <1>9, <1>10, <1>11, <1>12, <1>13, <1>14, <1>15, <1>16, <1>17, <1>18, <1>19 DEF Next, Work, Fault, User

(* A claim stays accounted for when only a tick that is not generating,    *)
(* or whose occurrence is then recorded, moves.                            *)
LEMMA NotLostFrame ==
  ASSUME IInv, NEW t \in Ticks, OthersKept(t),
         generated \subseteq generated', dropped \subseteq dropped',
         \A c \in claims' \ claims :
           \/ <<c.s, c.occ>> \in dropped'
           \/ tick'[t].pc = "generate" /\ tick'[t].s = c.s /\ tick'[t].occ = c.occ,
         IsAt(t, "generate") =>
           \/ <<tick[t].s, tick[t].occ>> \in generated' \cup dropped'
           \/ SameItem(t) /\ tick'[t].pc = "generate"
  PROVE  NoOccurrenceLost'
<1> SUFFICES ASSUME NEW c \in claims'
             PROVE  \/ <<c.s, c.occ>> \in generated' \cup dropped'
                    \/ \E u \in Ticks : /\ tick'[u].pc = "generate"
                                        /\ tick'[u].s = c.s /\ tick'[u].occ = c.occ
  BY DEF NoOccurrenceLost, IsAt
<1>1. CASE c \notin claims
  BY <1>1
<1>2. CASE c \in claims /\ <<c.s, c.occ>> \in generated \cup dropped
  BY <1>2
<1>3. CASE c \in claims /\ <<c.s, c.occ>> \notin generated \cup dropped
  <2>1. PICK u \in Ticks : tick[u].pc = "generate" /\ tick[u].s = c.s /\ tick[u].occ = c.occ
    BY <1>3 DEF IInv, NoOccurrenceLost, IsAt
  <2>2. CASE u = t
    BY <2>1, <2>2 DEF IsAt, SameItem
  <2>3. CASE u # t
    <3>1. tick'[u] = tick[u]
      BY <2>3 DEF OthersKept
    <3>2. QED
      BY <2>1, <3>1
  <2>4. QED
    BY <2>2, <2>3
<1>4. QED
  BY <1>1, <1>2, <1>3

(* A claim is followed by its generation unless the tick dies. *)
LEMMA NotLostStep ==
  ASSUME IInv, [Next]_vars
  PROVE  NoOccurrenceLost'
<1>1. ASSUME NEW t \in Ticks, Discover(t) PROVE NoOccurrenceLost'
  <2>1. OthersKept(t)
    BY <1>1, DiscoverEffect DEF Discover, IInv
  <2>2. /\ claims' = claims /\ generated' = generated /\ dropped' = dropped
        /\ ~IsAt(t, "generate")
    BY <1>1 DEF Discover, IsAt, history
  <2>3. QED
    BY <2>1, <2>2, NotLostFrame
<1>2. ASSUME NEW t \in Ticks, Load(t) PROVE NoOccurrenceLost'
  <2>1. OthersKept(t)
    BY <1>2, LoadEffect DEF Load, IInv, IsAt, LeaseHeld
  <2>2. /\ claims' = claims /\ generated' = generated /\ dropped' = dropped
        /\ ~IsAt(t, "generate")
    BY <1>2 DEF Load, IsAt, history
  <2>3. QED
    BY <2>1, <2>2, NotLostFrame
<1>3. ASSUME NEW t \in Ticks, AcquireLock(t) PROVE NoOccurrenceLost'
  <2>1. OthersKept(t)
    BY <1>3, AcquireEffect DEF AcquireLock, IInv
  <2>2. /\ claims' = claims /\ generated' = generated /\ dropped' = dropped
        /\ ~IsAt(t, "generate")
    BY <1>3 DEF AcquireLock, IsAt, history
  <2>3. QED
    BY <2>1, <2>2, NotLostFrame
<1>4. ASSUME NEW t \in Ticks, AcquireFails(t) PROVE NoOccurrenceLost'
  <2>1. OthersKept(t)
    BY <1>4, NextItemEffect DEF AcquireFails, IInv
  <2>2. /\ claims' = claims /\ generated' = generated /\ dropped' = dropped
        /\ ~IsAt(t, "generate")
    BY <1>4 DEF AcquireFails, IsAt, history
  <2>3. QED
    BY <2>1, <2>2, NotLostFrame
<1>5. ASSUME NEW t \in Ticks, Claim(t) PROVE NoOccurrenceLost'
  <2>1. Busy(t) /\ IsAt(t, "claim") /\ generated' = generated /\ dropped' = dropped
    BY <1>5 DEF Claim, IsAt, Busy
  <2>2. CASE Claimable(t) /\ Advance(t) /\ Goto(t, "generate")
    <3>1. OthersKept(t) /\ SameItem(t) /\ tick'[t].pc = "generate"
      BY <2>2, GotoEffect DEF IInv, TickPc
    <3>2. \A c \in claims' \ claims : c.s = tick[t].s /\ c.occ = tick[t].occ
      BY <2>1, <2>2, AdvanceEffect
    <3>3. QED
      BY <2>1, <3>1, <3>2, NotLostFrame DEF SameItem, IsAt
  <2>3. CASE claims' = claims /\ Goto(t, "release")
    <3>1. OthersKept(t)
      BY <2>3, GotoEffect DEF IInv, TickPc
    <3>2. QED
      BY <2>1, <2>3, <3>1, NotLostFrame DEF IsAt
  <2>4. QED
    BY <1>5, <2>2, <2>3 DEF Claim
<1>6. ASSUME NEW t \in Ticks, ClaimFails(t) PROVE NoOccurrenceLost'
  <2>1. Busy(t) /\ IsAt(t, "claim") /\ generated' = generated
    BY <1>6 DEF ClaimFails, IsAt, Busy
  <2>2. OthersKept(t)
    BY <1>6, GotoEffect DEF ClaimFails, IInv, TickPc
  <2>3. CASE Claimable(t) /\ Advance(t) /\ dropped' = dropped \cup {<<tick[t].s, tick[t].occ>>}
    <3>1. \A c \in claims' \ claims : <<c.s, c.occ>> \in dropped'
      BY <2>1, <2>3, AdvanceEffect
    <3>2. QED
      BY <2>1, <2>2, <2>3, <3>1, NotLostFrame DEF IsAt
  <2>4. CASE claims' = claims /\ dropped' = dropped
    BY <2>1, <2>2, <2>4, NotLostFrame DEF IsAt
  <2>5. QED
    BY <1>6, <2>3, <2>4 DEF ClaimFails
<1>7. ASSUME NEW t \in Ticks, Generate(t) PROVE NoOccurrenceLost'
  <2>1. OthersKept(t)
    BY <1>7, GenerateEffect DEF IInv
  <2>2. /\ claims' = claims /\ dropped' = dropped
        /\ generated' = generated \cup {<<tick[t].s, tick[t].occ>>}
    BY <1>7 DEF Generate
  <2>3. QED
    BY <2>1, <2>2, NotLostFrame
<1>8. ASSUME NEW t \in Ticks, Release(t) PROVE NoOccurrenceLost'
  <2>1. OthersKept(t)
    BY <1>8, AfterReleaseEffect DEF Release, IInv
  <2>2. /\ claims' = claims /\ generated' = generated /\ dropped' = dropped
        /\ ~IsAt(t, "generate")
    BY <1>8 DEF Release, IsAt, history
  <2>3. QED
    BY <2>1, <2>2, NotLostFrame
<1>9. ASSUME NEW t \in Ticks, ReleaseFails(t) PROVE NoOccurrenceLost'
  <2>1. OthersKept(t)
    BY <1>9, AfterReleaseEffect DEF ReleaseFails, IInv
  <2>2. /\ claims' = claims /\ generated' = generated /\ dropped' = dropped
        /\ ~IsAt(t, "generate")
    BY <1>9 DEF ReleaseFails, IsAt, history
  <2>3. QED
    BY <2>1, <2>2, NotLostFrame
<1>10. ASSUME NEW t \in Ticks, Record(t) PROVE NoOccurrenceLost'
  <2>1. OthersKept(t)
    BY <1>10, NextItemEffect DEF Record, IInv
  <2>2. /\ claims' = claims /\ generated' = generated /\ dropped' = dropped
        /\ ~IsAt(t, "generate")
    BY <1>10 DEF Record, IsAt, history
  <2>3. QED
    BY <2>1, <2>2, NotLostFrame
<1>11. ASSUME NEW t \in Ticks, Crash(t) PROVE NoOccurrenceLost'
  <2>1. OthersKept(t)
    BY <1>11, CrashEffect DEF IInv
  <2>2. /\ claims' = claims /\ generated' = generated /\ dropped \subseteq dropped'
        /\ IsAt(t, "generate") => <<tick[t].s, tick[t].occ>> \in dropped'
    BY <1>11 DEF Crash
  <2>3. QED
    BY <2>1, <2>2, NotLostFrame
<1>12. ASSUME NEW t \in Ticks, LeaseExpires(t) PROVE NoOccurrenceLost'
  <2>1. OthersKept(t) /\ SameItem(t) /\ tick'[t].pc = tick[t].pc
    BY <1>12, LeaseExpiresEffect DEF IInv
  <2>2. claims' = claims /\ generated' = generated /\ dropped' = dropped
    BY <1>12 DEF LeaseExpires, history
  <2>3. QED
    BY <2>1, <2>2, NotLostFrame DEF IsAt
<1>13. ASSUME NEW s \in Schedules, NEW c \in Crons, CreateSchedule(s, c)
      PROVE  NoOccurrenceLost'
  BY <1>13 DEF CreateSchedule, IInv, NoOccurrenceLost, IsAt, table, history
<1>14. ASSUME NEW e \in Edits, NEW s \in Schedules, NEW c \in Crons \cup {None},
             NEW on \in BOOLEAN \cup {None}, EditRead(e, s, c, on)
      PROVE  NoOccurrenceLost'
  BY <1>14 DEF EditRead, IInv, NoOccurrenceLost, IsAt, table, history
<1>15. ASSUME NEW e \in Edits, EditSave(e)
      PROVE  NoOccurrenceLost'
  BY <1>15 DEF EditSave, IInv, NoOccurrenceLost, IsAt, table, history
<1>16. ASSUME NEW s \in Schedules, DeleteSchedule(s)
      PROVE  NoOccurrenceLost'
  BY <1>16 DEF DeleteSchedule, IInv, NoOccurrenceLost, IsAt, table, history
<1>17. CASE OrphanExpires
  BY <1>17 DEF OrphanExpires, IInv, NoOccurrenceLost, IsAt, table, history
<1>18. CASE Tock
  BY <1>18 DEF Tock, IInv, NoOccurrenceLost, IsAt, table, history
<1>19. CASE UNCHANGED vars
  BY <1>19 DEF vars, history, IInv, NoOccurrenceLost, IsAt
<1>20. QED
  BY <1>1, <1>2, <1>3, <1>4, <1>5, <1>6, <1>7, <1>8, <1>9, <1>10, <1>11, <1>12, <1>13, <1>14, <1>15, <1>16, <1>17, <1>18, <1>19 DEF Next, Work, Fault, User

(* Types are preserved. *)
LEMMA TypeStep ==
  ASSUME IInv, [Next]_vars
  PROVE  TypeOK'
<1>1. ASSUME NEW t \in Ticks, Discover(t) PROVE TypeOK'
  <2>1. tick' \in [Ticks -> Tick]
    BY <1>1, DiscoverEffect DEF Discover, IInv, OthersKept
  <2>2. QED
    BY <1>1, <2>1 DEF Discover, IInv, TypeOK, table, history
<1>2. ASSUME NEW t \in Ticks, Load(t) PROVE TypeOK'
  <2>1. tick' \in [Ticks -> Tick]
    BY <1>2, LoadEffect DEF Load, IInv, OthersKept, IsAt, LeaseHeld
  <2>2. QED
    BY <1>2, <2>1 DEF Load, IInv, TypeOK, table, history
<1>3. ASSUME NEW t \in Ticks, AcquireLock(t) PROVE TypeOK'
  <2>1. tick' \in [Ticks -> Tick]
    BY <1>3, AcquireEffect DEF IInv, OthersKept
  <2>2. tick[t].s \in Schedules /\ tick[t].occ \in Nat
    BY <1>3 DEF AcquireLock, IsAt, Busy, IInv, WorkingOnItem
  <2>3. lock' \in SUBSET [s : Schedules, occ : Nat, by : Ticks \cup {None}]
    BY <1>3, <2>2 DEF AcquireLock, LockOf, IInv, TypeOK
  <2>4. QED
    BY <1>3, <2>1, <2>3 DEF AcquireLock, IInv, TypeOK, table, history
<1>4. ASSUME NEW t \in Ticks, AcquireFails(t) PROVE TypeOK'
  <2>1. tick' \in [Ticks -> Tick]
    BY <1>4, NextItemEffect DEF AcquireFails, IInv, OthersKept
  <2>2. tick[t].s \in Schedules /\ tick[t].occ \in Nat
    BY <1>4 DEF AcquireFails, IsAt, Busy, IInv, WorkingOnItem
  <2>3. lock' \in SUBSET [s : Schedules, occ : Nat, by : Ticks \cup {None}]
    BY <1>4, <2>2 DEF AcquireFails, LockOf, IInv, TypeOK
  <2>4. QED
    BY <1>4, <2>1, <2>3, BoundAssumption DEF AcquireFails, IInv, TypeOK, table, history
<1>5. ASSUME NEW t \in Ticks, Claim(t) PROVE TypeOK'
  <2>1. tick' \in [Ticks -> Tick]
    BY <1>5, GotoEffect DEF Claim, IInv, OthersKept, TickPc
  <2>2. Busy(t) /\ tick[t].s \in Schedules /\ tick[t].occ \in Nat
    BY <1>5 DEF Claim, IsAt, Busy, IInv, WorkingOnItem
  <2>3. /\ nextRunAt' \in [Schedules -> Nat]
        /\ claims' \in SUBSET [s : Schedules, occ : Nat, at : Nat]
        /\ repeated' \in SUBSET (Schedules \X Nat)
    <3>1. CASE Claimable(t) /\ Advance(t)
      <4>1. nextRunAt' \in [Schedules -> Nat] /\ now \in Nat
        BY <2>2, <3>1, AdvanceEffect, BoundAssumption DEF IInv, TypeOK
      <4>2. QED
        BY <2>2, <3>1, <4>1 DEF IInv, TypeOK, Advance
    <3>2. CASE UNCHANGED <<nextRunAt, claims, repeated>>
      BY <3>2 DEF IInv, TypeOK
    <3>3. QED
      BY <1>5, <3>1, <3>2 DEF Claim
  <2>4. QED
    BY <1>5, <2>1, <2>2, <2>3 DEF Claim, IInv, TypeOK
<1>6. ASSUME NEW t \in Ticks, ClaimFails(t) PROVE TypeOK'
  <2>1. tick' \in [Ticks -> Tick]
    BY <1>6, GotoEffect DEF ClaimFails, IInv, OthersKept, TickPc
  <2>2. Busy(t) /\ tick[t].s \in Schedules /\ tick[t].occ \in Nat
    BY <1>6 DEF ClaimFails, IsAt, Busy, IInv, WorkingOnItem
  <2>3. /\ nextRunAt' \in [Schedules -> Nat]
        /\ claims' \in SUBSET [s : Schedules, occ : Nat, at : Nat]
        /\ repeated' \in SUBSET (Schedules \X Nat)
    <3>1. CASE Claimable(t) /\ Advance(t)
      <4>1. nextRunAt' \in [Schedules -> Nat] /\ now \in Nat
        BY <2>2, <3>1, AdvanceEffect, BoundAssumption DEF IInv, TypeOK
      <4>2. QED
        BY <2>2, <3>1, <4>1 DEF IInv, TypeOK, Advance
    <3>2. CASE UNCHANGED <<nextRunAt, claims, repeated>>
      BY <3>2 DEF IInv, TypeOK
    <3>3. QED
      BY <1>6, <3>1, <3>2 DEF ClaimFails
  <2>4. QED
    BY <1>6, <2>1, <2>2, <2>3, BoundAssumption DEF ClaimFails, IInv, TypeOK
<1>7. ASSUME NEW t \in Ticks, Generate(t) PROVE TypeOK'
  <2>1. tick' \in [Ticks -> Tick]
    BY <1>7, GenerateEffect DEF IInv, OthersKept
  <2>2. tick[t].s \in Schedules /\ tick[t].occ \in Nat
    BY <1>7 DEF Generate, IsAt, Busy, IInv, WorkingOnItem
  <2>3. QED
    BY <1>7, <2>1, <2>2 DEF Generate, IInv, TypeOK, table
<1>8. ASSUME NEW t \in Ticks, Release(t) PROVE TypeOK'
  <2>1. tick' \in [Ticks -> Tick]
    BY <1>8, AfterReleaseEffect DEF Release, IInv, OthersKept
  <2>2. QED
    BY <1>8, <2>1 DEF Release, IInv, TypeOK, table, history
<1>9. ASSUME NEW t \in Ticks, ReleaseFails(t) PROVE TypeOK'
  <2>1. tick' \in [Ticks -> Tick]
    BY <1>9, AfterReleaseEffect DEF ReleaseFails, IInv, OthersKept
  <2>2. tick[t].lease => tick[t].s \in Schedules /\ tick[t].occ \in Nat
    BY <1>9 DEF IInv, LeaseHeld, WorkingOnItem, Busy
  <2>3. lock' \in SUBSET [s : Schedules, occ : Nat, by : Ticks \cup {None}]
    BY <1>9, <2>2 DEF ReleaseFails, Orphaned, LockOf, IInv, TypeOK
  <2>4. QED
    BY <1>9, <2>1, <2>3, BoundAssumption DEF ReleaseFails, IInv, TypeOK, table, history
<1>10. ASSUME NEW t \in Ticks, Record(t) PROVE TypeOK'
  <2>1. tick' \in [Ticks -> Tick]
    BY <1>10, NextItemEffect DEF Record, IInv, OthersKept
  <2>2. QED
    BY <1>10, <2>1 DEF Record, IInv, TypeOK, table, history
<1>11. ASSUME NEW t \in Ticks, Crash(t) PROVE TypeOK'
  <2>1. tick' \in [Ticks -> Tick]
    BY <1>11, CrashEffect DEF Crash, IInv, OthersKept
  <2>2. tick[t].lease => tick[t].s \in Schedules /\ tick[t].occ \in Nat
    BY <1>11 DEF IInv, LeaseHeld, WorkingOnItem, Busy
  <2>3. lock' \in SUBSET [s : Schedules, occ : Nat, by : Ticks \cup {None}]
    BY <1>11, <2>2 DEF Crash, Orphaned, LockOf, IInv, TypeOK
  <2>4. IsAt(t, "generate") => tick[t].s \in Schedules /\ tick[t].occ \in Nat
    BY <1>11 DEF IsAt, Busy, IInv, WorkingOnItem
  <2>5. QED
    BY <1>11, <2>1, <2>3, <2>4, BoundAssumption DEF Crash, IInv, TypeOK, table
<1>12. ASSUME NEW t \in Ticks, LeaseExpires(t) PROVE TypeOK'
  <2>1. tick' \in [Ticks -> Tick]
    BY <1>12, LeaseExpiresEffect DEF LeaseExpires, IInv, OthersKept
  <2>2. QED
    BY <1>12, <2>1 DEF LeaseExpires, IInv, TypeOK, table, history
<1>13. ASSUME NEW s \in Schedules, NEW c \in Crons, CreateSchedule(s, c)
      PROVE  TypeOK'
  <2>1. PICK at \in 0..now : nextRunAt' = [nextRunAt EXCEPT ![s] = NextOccurrence(c, at)]
    BY <1>13 DEF CreateSchedule
  <2>2. at \in Nat
    BY BoundAssumption DEF IInv, TypeOK
  <2>3. NextOccurrence(c, at) \in Nat
    BY <2>2, NextIsLater, CronPositive
  <2>4. nextRunAt' \in [Schedules -> Nat]
    BY <2>1, <2>3 DEF IInv, TypeOK
  <2>5. QED
    BY <1>13, <2>4 DEF CreateSchedule, IInv, TypeOK, history
<1>14. ASSUME NEW e \in Edits, NEW s \in Schedules, NEW c \in Crons \cup {None},
             NEW on \in BOOLEAN \cup {None}, EditRead(e, s, c, on)
      PROVE  TypeOK'
  <2>1. now \in Nat /\ cron[s] \in Crons
    BY <1>14, BoundAssumption DEF EditRead, IInv, TypeOK
  <2>2. EditedNext(s, c, on) \in Nat \cup {None}
    BY <2>1, NextIsLater, CronPositive DEF EditedNext
  <2>3. [s |-> s, at |-> now, cron |-> c, enabled |-> on, next |-> EditedNext(s, c, on)] \in Edit
    BY <2>1, <2>2 DEF Edit
  <2>4. QED
    BY <1>14, <2>3, BoundAssumption DEF EditRead, IInv, TypeOK, table, history
<1>15. ASSUME NEW e \in Edits, EditSave(e)
      PROVE  TypeOK'
  <2> DEFINE q == edit[e]
  <2>1. q \in Edit /\ NoEdit \in Edit /\ q # NoEdit
    BY <1>15 DEF EditSave, IInv, TypeOK, Edit
  <2>2. /\ q.s \in Schedules
        /\ q.cron \in Crons \cup {None}
        /\ q.enabled \in BOOLEAN \cup {None}
        /\ q.next \in Nat \cup {None}
    BY <2>1 DEF Edit
  <2>3. edit' \in [Edits -> Edit]
    BY <1>15, <2>1 DEF EditSave, IInv, TypeOK
  <2>4. cron' \in [Schedules -> Crons]
    BY <1>15, <2>2 DEF EditSave, IInv, TypeOK
  <2>5. enabled' \in [Schedules -> BOOLEAN]
    BY <1>15, <2>2, Zenon DEF EditSave, IInv, TypeOK
  <2>6. nextRunAt' \in [Schedules -> Nat]
    BY <1>15, <2>2 DEF EditSave, IInv, TypeOK
  <2>7. rewound' \in SUBSET (Schedules \X Nat)
    BY <1>15 DEF EditSave, IInv, TypeOK
  <2>8. QED
    BY <1>15, <2>3, <2>4, <2>5, <2>6, <2>7 DEF EditSave, IInv, TypeOK
<1>16. ASSUME NEW s \in Schedules, DeleteSchedule(s)
      PROVE  TypeOK'
  BY <1>16 DEF DeleteSchedule, IInv, TypeOK, history
<1>17. CASE OrphanExpires
  BY <1>17 DEF OrphanExpires, IInv, TypeOK, table, history
<1>18. CASE Tock
  BY <1>18, BoundAssumption DEF Tock, IInv, TypeOK, table, history
<1>19. CASE UNCHANGED vars
  BY <1>19 DEF vars, table, history, IInv, TypeOK
<1>20. QED
  BY <1>1, <1>2, <1>3, <1>4, <1>5, <1>6, <1>7, <1>8, <1>9, <1>10, <1>11, <1>12, <1>13, <1>14, <1>15, <1>16, <1>17, <1>18, <1>19 DEF Next, Work, Fault, User

-----------------------------------------------------------------------------
LEMMA InitIInv == Init => IInv
<1> SUFFICES ASSUME Init PROVE IInv
  OBVIOUS
<1>1. {} \in SUBSET Schedules
  OBVIOUS
<1>2. Idle \in Tick /\ Idle.pc = "idle" /\ Idle.lease = FALSE
  BY <1>1 DEF Idle, Tick, TickPc
<1>3. TypeOK
  BY <1>2, BoundAssumption DEF Init, TypeOK, Edit
<1>4. WorkingOnItem /\ LeaseHeld
  BY <1>2 DEF Init, WorkingOnItem, LeaseHeld, Busy
<1>5. KeyUnique /\ ClaimsPassed /\ EditAhead /\ ClaimedOnce /\ NoOccurrenceLost
  BY DEF Init, KeyUnique, ClaimsPassed, EditAhead, ClaimedOnce, NoOccurrenceLost
<1>6. QED
  BY <1>3, <1>4, <1>5 DEF IInv

LEMMA StepIInv == IInv /\ [Next]_vars => IInv'
BY TypeStep, WorkingStep, LeaseStep, KeyUniqueStep, ClaimsStep, EditAheadStep,
   ClaimedOnceStep, NotLostStep DEF IInv

LEMMA Invariance == Spec => []IInv
<1>1. Init => IInv
  BY InitIInv
<1>2. IInv /\ [Next]_vars => IInv'
  BY StepIInv
<1>3. QED
  BY <1>1, <1>2, PTL DEF Spec

(* Every reachable state has the types the module declares: in particular  *)
(* nextRunAt, ticks and locks never leave their sets.                      *)
THEOREM TypeCorrect == Spec => []TypeOK
<1>1. IInv => TypeOK
  BY DEF IInv
<1>2. QED
  BY <1>1, Invariance, PTL

(* However many instances run, and whatever expires or is released late,   *)
(* one occurrence is never under two running leases.                       *)
THEOREM LeasesAreExclusive == Spec => []LeaseExclusive
<1>1. IInv => LeaseExclusive
  <2> SUFFICES ASSUME IInv, NEW t1 \in Ticks, NEW t2 \in Ticks,
                      tick[t1].lease, tick[t2].lease,
                      LockOf(t1, None) = LockOf(t2, None)
               PROVE  t1 = t2
    BY DEF LeaseExclusive
  <2>1. LockOf(t1, t1) \in lock /\ LockOf(t2, t2) \in lock
    BY DEF IInv, LeaseHeld
  <2>2. tick[t1].s = tick[t2].s /\ tick[t1].occ = tick[t2].occ
    BY DEF LockOf
  <2>3. LockOf(t1, t1) = LockOf(t2, t2)
    BY <2>1, <2>2 DEF IInv, KeyUnique, LockOf
  <2>4. QED
    BY <2>3 DEF LockOf
<1>2. QED
  BY <1>1, Invariance, PTL

(* A second claim of an occurrence needs an overlapping PATCH or an early  *)
(* first claim: the compare-and-set alone excludes every other one.        *)
THEOREM OccurrencesClaimedOnce == Spec => []ClaimedOnce
<1>1. IInv => ClaimedOnce
  BY DEF IInv
<1>2. QED
  BY <1>1, Invariance, PTL

(* Only a crash, or a claim whose answer is lost, loses an occurrence.     *)
THEOREM OccurrencesNotLost == Spec => []NoOccurrenceLost
<1>1. IInv => NoOccurrenceLost
  BY DEF IInv
<1>2. QED
  BY <1>1, Invariance, PTL
=============================================================================

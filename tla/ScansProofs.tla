---------------------------- MODULE ScansProofs -----------------------------
(***************************************************************************)
(* Proofs about NetworkScans, for any scans, devices, requests and bounds, *)
(* and, from "Security scans" on, about SecurityScans, for any scans,      *)
(* requests, answers, slots and bounds.                                    *)
(***************************************************************************)
EXTENDS NetworkScans, SevereAlerts, TLAPS

(* A call is its own device's and about a scan the device has still to do. *)
CallHeld == \A d \in Devices : call[d] # None => call[d].d = d /\ call[d].s \in todo[d]

(* A device that polls has nothing to do. *)
PollingIdle == \A d \in listing : todo[d] = {}

(* A request that was not outrun since is right that it would join nothing. *)
Right(o) == opening[o] # None /\ ~opening[o].raced => Joins(opening[o].target) = {}
ClearIsClear == \A o \in Openers : Right(o)

IInv == TypeOK /\ CallHeld /\ PollingIdle /\ ClearIsClear

Row == [status : Statuses, target : Targets]
Asking == [target : Targets, raced : BOOLEAN] \cup {None}

-----------------------------------------------------------------------------
(* Writes *)

LEMMA FailingTyped ==
  ASSUME TypeOK, NEW S \in SUBSET Scans, scan' = Failing(S)
  PROVE  /\ scan' \in [Scans -> Row]
         /\ \A s \in S : scan'[s].status = "failed"
         /\ \A s \in Scans \ S : scan'[s] = scan[s]
         /\ \A s \in Scans : scan'[s].target = scan[s].target
BY DEF TypeOK, Failing, Row, Statuses

LEMMA WrittenTyped ==
  ASSUME TypeOK, NEW c \in CallType, scan' = Written(c)
  PROVE  /\ scan' \in [Scans -> Row]
         /\ scan'[c.s].status = c.op
         /\ \A s \in Scans \ {c.s} : scan'[s] = scan[s]
         /\ \A s \in Scans : scan'[s].target = scan[s].target
BY DEF TypeOK, Written, Row, CallType, Ops, Statuses

(* Requests that nothing outran stay right as long as no scan opens. *)
LEMMA StaysRight ==
  ASSUME IInv, Open' \subseteq Open, \A s \in Scans : scan'[s].target = scan[s].target,
         NEW o \in Openers, opening'[o] = opening[o]
  PROVE  Right(o)'
<1> SUFFICES ASSUME opening[o] # None, ~opening[o].raced
             PROVE  Joins(opening[o].target)' = {}
  BY DEF Right, Joins
<1>1. Joins(opening[o].target) = {}
  BY DEF IInv, ClearIsClear, Right
<1>2. Open' \subseteq Scans
  BY DEF Open
<1> QED
  BY <1>1, <1>2 DEF Joins

LEMMA AllOutrun ==
  ASSUME IInv, NEW o \in Openers, opening'[o] = Outrun(o)
  PROVE  opening'[o] \in Asking /\ Right(o)'
<1>1. opening[o] \in Asking
  BY DEF IInv, TypeOK, Asking
<1>2. CASE opening[o] = None
  BY <1>2 DEF Outrun, Right, Asking
<1>3. CASE opening[o] # None
  <2>1. opening'[o] = [opening[o] EXCEPT !.raced = TRUE]
    BY <1>3 DEF Outrun
  <2>2. opening'[o] \in Asking /\ opening'[o].raced
    BY <1>1, <1>3, <2>1 DEF Asking
  <2> QED
    BY <2>2 DEF Right
<1> QED
  BY <1>2, <1>3

(* A step that opens no scan and changes only calls, lists and counters. *)
LEMMA CallStep ==
  ASSUME IInv, UNCHANGED <<scan, opening>>,
         aged' \in Nat, faults' \in Nat, listing' \in SUBSET Devices,
         revoked' \in SUBSET Devices, late' \in SUBSET CallType,
         call' \in [Devices -> CallType \cup {None}], todo' \in [Devices -> SUBSET Scans],
         CallHeld', PollingIdle'
  PROVE  IInv'
<1>1. TypeOK'
  BY DEF IInv, TypeOK
<1>2. ClearIsClear'
  BY DEF IInv, ClearIsClear, Right, Joins, Open
<1> QED
  BY <1>1, <1>2 DEF IInv

(* An update that fails scans. *)
LEMMA FailingStep ==
  ASSUME IInv, NEW S \in SUBSET Scans, scan' = Failing(S),
         UNCHANGED <<opening, aged, todo, call, late, faults>>,
         listing' \in SUBSET Devices, revoked' \in SUBSET Devices, PollingIdle'
  PROVE  IInv'
<1>1. /\ scan' \in [Scans -> Row]
      /\ \A s \in S : scan'[s].status = "failed"
      /\ \A s \in Scans \ S : scan'[s] = scan[s]
      /\ \A s \in Scans : scan'[s].target = scan[s].target
  BY FailingTyped DEF IInv
<1>2. TypeOK'
  BY <1>1 DEF IInv, TypeOK, Row
<1>3. Open' \subseteq Open
  BY <1>1 DEF Open
<1>4. ClearIsClear'
  BY <1>1, <1>3, StaysRight DEF ClearIsClear
<1>5. CallHeld'
  BY DEF IInv, CallHeld
<1> QED
  BY <1>2, <1>4, <1>5 DEF IInv

(* What an agent's report writes keeps the requests right. *)
LEMMA WriteStep ==
  ASSUME IInv, NEW c \in CallType, scan' = Written(c), Reopening(c)
  PROVE  /\ scan' \in [Scans -> Row]
         /\ opening' \in [Openers -> Asking]
         /\ ClearIsClear'
<1>1. c.s \in Scans /\ c.op \in Ops
  BY DEF CallType
<1>2. /\ scan' \in [Scans -> Row]
      /\ scan'[c.s].status = c.op
      /\ \A s \in Scans \ {c.s} : scan'[s] = scan[s]
      /\ \A s \in Scans : scan'[s].target = scan[s].target
  BY WrittenTyped DEF IInv
<1>3. CASE c.s \notin Open /\ c.op = "running"
  <2>1. opening' = [o \in Openers |-> Outrun(o)]
    BY <1>3 DEF Reopening
  <2>2. \A o \in Openers : opening'[o] = Outrun(o)
    BY <2>1
  <2> QED
    BY <1>2, <2>1, <2>2, AllOutrun DEF ClearIsClear
<1>4. CASE ~(c.s \notin Open /\ c.op = "running")
  <2>1. opening' = opening
    BY <1>4 DEF Reopening
  <2>2. Open' \subseteq Open
    BY <1>1, <1>2, <1>4 DEF Open, Ops
  <2> QED
    BY <1>2, <2>1, <2>2, StaysRight DEF ClearIsClear, IInv, TypeOK, Asking
<1> QED
  BY <1>3, <1>4

(* What the agent does next: its call, if any, is about what it has to do. *)
LEMMA CallTyped ==
  ASSUME NEW d \in Devices, NEW s \in Scans, NEW op \in Ops
  PROVE  Call(d, s, op) \in CallType /\ Call(d, s, op).d = d /\ Call(d, s, op).s = s
BY DEF Call, CallType

LEMMA ProceedTyped ==
  ASSUME IInv, NEW d \in Devices, call[d] # None, NEW ok \in BOOLEAN, Proceed(d, ok)
  PROVE  /\ call' \in [Devices -> CallType \cup {None}]
         /\ todo' \in [Devices -> SUBSET Scans]
         /\ \A e \in Devices : todo'[e] \subseteq todo[e]
         /\ CallHeld'
<1>1. /\ call \in [Devices -> CallType \cup {None}] /\ todo \in [Devices -> SUBSET Scans]
      /\ call[d] \in CallType /\ call[d].s \in Scans /\ call[d].s \in todo[d]
  BY DEF IInv, TypeOK, CallHeld, CallType
<1>2. ASSUME NEW op \in Ops, call' = [call EXCEPT ![d] = Call(d, call[d].s, op)], todo' = todo
      PROVE  /\ call' \in [Devices -> CallType \cup {None}]
             /\ todo' \in [Devices -> SUBSET Scans]
             /\ \A e \in Devices : todo'[e] \subseteq todo[e]
             /\ CallHeld'
  <2>1. /\ Call(d, call[d].s, op) \in CallType
        /\ Call(d, call[d].s, op).d = d /\ Call(d, call[d].s, op).s = call[d].s
    BY <1>1, CallTyped
  <2>2. call' \in [Devices -> CallType \cup {None}]
    BY <1>1, <1>2, <2>1
  <2>3. CallHeld'
    BY <1>1, <1>2, <2>1 DEF CallHeld, IInv
  <2> QED
    BY <1>1, <1>2, <2>2, <2>3
<1>3. CASE call' = [call EXCEPT ![d] = None] /\ todo' = [todo EXCEPT ![d] = @ \ {call[d].s}]
  BY <1>1, <1>3 DEF CallHeld, IInv
<1>4. CASE \E op \in {"completed", "failed"} :
             call' = [call EXCEPT ![d] = Call(d, call[d].s, op)] /\ todo' = todo
  BY <1>2, <1>4 DEF Ops
<1> QED
  BY <1>3, <1>4 DEF Proceed

LEMMA InFlightTyped ==
  ASSUME IInv, NEW d \in Devices
  PROVE  /\ late \cup InFlight(d) \in SUBSET CallType
         /\ \A c \in InFlight(d) : c.s \in todo[d]
BY DEF IInv, TypeOK, InFlight, CallHeld

-----------------------------------------------------------------------------
(* The invariant *)

LEMMA InitIInv == Init => IInv
<1> SUFFICES ASSUME Init PROVE IInv
  OBVIOUS
<1>1. TypeOK
  BY DEF Init, TypeOK, Statuses, Targets
<1>2. CallHeld /\ PollingIdle /\ ClearIsClear
  BY DEF Init, CallHeld, PollingIdle, ClearIsClear, Right
<1> QED
  BY <1>1, <1>2 DEF IInv

LEMMA FindOpenStep ==
  ASSUME IInv, NEW o \in Openers, NEW t \in Targets, FindOpen(o, t) PROVE IInv'
<1>1. /\ Joins(t) = {} /\ opening' = [opening EXCEPT ![o] = [target |-> t, raced |-> FALSE]]
      /\ UNCHANGED <<scan, aged, listing, todo, call, late, revoked, faults>>
  BY DEF FindOpen
<1>2. TypeOK'
  BY <1>1 DEF IInv, TypeOK
<1>3. opening'[o] = [target |-> t, raced |-> FALSE] /\ \A p \in Openers \ {o} : opening'[p] = opening[p]
  BY <1>1 DEF IInv, TypeOK
<1>4. Joins(t)' = {}
  BY <1>1 DEF Joins, Open
<1>5. Right(o)'
  BY <1>3, <1>4 DEF Right
<1>6. \A p \in Openers \ {o} : Right(p)'
  BY <1>1, <1>3 DEF IInv, ClearIsClear, Right, Joins, Open
<1>7. CallHeld' /\ PollingIdle'
  BY <1>1 DEF IInv, CallHeld, PollingIdle
<1> QED
  BY <1>2, <1>5, <1>6, <1>7 DEF IInv, ClearIsClear

LEMMA CreateStep == ASSUME IInv, NEW o \in Openers, Create(o) PROVE IInv'
<1>1. /\ opening[o] # None /\ opening' = [p \in Openers |-> IF p = o THEN None ELSE Outrun(p)]
      /\ UNCHANGED <<aged, listing, todo, call, late, revoked, faults>>
  BY DEF Create
<1>2. PICK s \in Scans : scan' = [scan EXCEPT ![s] = [status |-> "pending", target |-> opening[o].target]]
  BY DEF Create
<1>3. opening[o].target \in Targets
  BY <1>1 DEF IInv, TypeOK
<1>4. scan' \in [Scans -> Row]
  BY <1>2, <1>3 DEF IInv, TypeOK, Row, Statuses
<1>5. opening'[o] = None /\ \A p \in Openers \ {o} : opening'[p] = Outrun(p)
  BY <1>1
<1>6. \A p \in Openers : opening'[p] \in Asking /\ Right(p)'
  BY <1>5, AllOutrun DEF Right, Asking
<1>7. opening' \in [Openers -> Asking]
  BY <1>1, <1>6
<1>8. TypeOK'
  BY <1>1, <1>4, <1>7 DEF IInv, TypeOK, Row, Asking
<1>9. CallHeld' /\ PollingIdle'
  BY <1>1 DEF IInv, CallHeld, PollingIdle
<1> QED
  BY <1>6, <1>8, <1>9 DEF IInv, ClearIsClear

LEMMA RevokeStep == ASSUME IInv, NEW d \in Devices, Revoke(d) PROVE IInv'
<1>1. {s \in Open : scan[s].target = d} \in SUBSET Scans
  BY DEF Open
<1>2. listing' \in SUBSET Devices /\ revoked' \in SUBSET Devices /\ PollingIdle'
  BY DEF Revoke, IInv, TypeOK, PollingIdle
<1> QED
  BY <1>1, <1>2, FailingStep DEF Revoke

LEMMA CleanupStep == ASSUME IInv, NEW d \in Devices, Cleanup(d) PROVE IInv'
<1>1. Stale \in SUBSET Scans
  BY DEF Stale, Open
<1>2. listing' \in SUBSET Devices /\ revoked' \in SUBSET Devices /\ PollingIdle'
  BY DEF Cleanup, IInv, TypeOK, PollingIdle
<1> QED
  BY <1>1, <1>2, FailingStep DEF Cleanup

LEMMA ListStep == ASSUME IInv, NEW d \in Devices, List(d) PROVE IInv'
<1>1. /\ d \in listing /\ todo' = [todo EXCEPT ![d] = Listed(d)] /\ listing' = listing \ {d}
      /\ UNCHANGED <<scan, opening, aged, call, late, revoked, faults>>
  BY DEF List
<1>2. Listed(d) \in SUBSET Scans /\ todo[d] = {}
  BY <1>1 DEF Listed, Open, IInv, PollingIdle
<1>3. /\ todo' \in [Devices -> SUBSET Scans] /\ listing' \in SUBSET Devices
      /\ \A e \in Devices : todo[e] \subseteq todo'[e] /\ (e # d => todo'[e] = todo[e])
  BY <1>1, <1>2 DEF IInv, TypeOK
<1>4. CallHeld' /\ PollingIdle'
  BY <1>1, <1>3 DEF IInv, CallHeld, PollingIdle, TypeOK
<1>5. /\ aged' \in Nat /\ faults' \in Nat /\ revoked' \in SUBSET Devices
      /\ late' \in SUBSET CallType /\ call' \in [Devices -> CallType \cup {None}]
  BY <1>1 DEF IInv, TypeOK
<1> QED
  BY <1>1, <1>3, <1>4, <1>5, CallStep

LEMMA StartStep ==
  ASSUME IInv, NEW d \in Devices, NEW s \in Scans, Start(d, s) PROVE IInv'
<1>1. /\ s \in todo[d] /\ call' = [call EXCEPT ![d] = Call(d, s, "running")]
      /\ UNCHANGED <<scan, opening, aged, listing, todo, late, revoked, faults>>
  BY DEF Start
<1>2. /\ Call(d, s, "running") \in CallType
      /\ Call(d, s, "running").d = d /\ Call(d, s, "running").s = s
  BY CallTyped DEF Ops
<1>3. call' \in [Devices -> CallType \cup {None}] /\ CallHeld' /\ PollingIdle'
  BY <1>1, <1>2 DEF IInv, TypeOK, CallHeld, PollingIdle
<1>4. /\ aged' \in Nat /\ faults' \in Nat /\ listing' \in SUBSET Devices
      /\ revoked' \in SUBSET Devices /\ late' \in SUBSET CallType
      /\ todo' \in [Devices -> SUBSET Scans]
  BY <1>1 DEF IInv, TypeOK
<1> QED
  BY <1>1, <1>3, <1>4, CallStep

LEMMA ApplyStep == ASSUME IInv, NEW d \in Devices, Apply(d) PROVE IInv'
<1>1. /\ call[d] # None /\ scan' = Written(call[d]) /\ Reopening(call[d])
      /\ call' = [call EXCEPT ![d].stage = "ok"]
      /\ UNCHANGED <<aged, todo, listing, late, revoked, faults>>
  BY DEF Apply
<1>2. call \in [Devices -> CallType \cup {None}] /\ call[d] \in CallType
  BY <1>1 DEF IInv, TypeOK
<1>3. scan' \in [Scans -> Row] /\ opening' \in [Openers -> Asking] /\ ClearIsClear'
  BY <1>1, <1>2, WriteStep
<1>4. /\ call'[d] = [call[d] EXCEPT !.stage = "ok"]
      /\ \A e \in Devices \ {d} : call'[e] = call[e]
  BY <1>1, <1>2
<1>5. call'[d] \in CallType /\ call'[d].d = call[d].d /\ call'[d].s = call[d].s
  BY <1>2, <1>4 DEF CallType
<1>6. call' \in [Devices -> CallType \cup {None}]
  BY <1>1, <1>2, <1>4, <1>5
<1>7. CallHeld' /\ PollingIdle'
  BY <1>1, <1>4, <1>5 DEF IInv, CallHeld, PollingIdle
<1>8. TypeOK'
  BY <1>1, <1>3, <1>6 DEF IInv, TypeOK, Row, Asking
<1> QED
  BY <1>3, <1>7, <1>8 DEF IInv

LEMMA ApplyLateStep == ASSUME IInv, NEW c \in late, ApplyLate(c) PROVE IInv'
<1>1. /\ scan' = Written(c) /\ Reopening(c) /\ late' = late \ {c}
      /\ UNCHANGED <<aged, listing, todo, call, revoked, faults>>
  BY DEF ApplyLate
<1>2. c \in CallType
  BY DEF IInv, TypeOK
<1>3. scan' \in [Scans -> Row] /\ opening' \in [Openers -> Asking] /\ ClearIsClear'
  BY <1>1, <1>2, WriteStep
<1>4. TypeOK'
  BY <1>1, <1>3 DEF IInv, TypeOK, Row, Asking
<1>5. CallHeld' /\ PollingIdle'
  BY <1>1 DEF IInv, CallHeld, PollingIdle
<1> QED
  BY <1>3, <1>4, <1>5 DEF IInv

LEMMA GatewayRestartStep == ASSUME IInv, GatewayRestart PROVE IInv'
<1>1. /\ opening' = [o \in Openers |-> None] /\ late' = {} /\ listing' = {}
      /\ call' = [d \in Devices |-> IF call[d] = None THEN None ELSE [call[d] EXCEPT !.stage = "error"]]
      /\ faults' = faults + 1 /\ UNCHANGED <<scan, aged, todo, revoked>>
  BY DEF GatewayRestart
<1>2. \A d \in Devices :
        /\ call'[d] \in CallType \cup {None}
        /\ call'[d] # None => call[d] # None /\ call'[d].d = call[d].d /\ call'[d].s = call[d].s
  BY <1>1 DEF IInv, TypeOK, CallType
<1>3. call' \in [Devices -> CallType \cup {None}]
  BY <1>1, <1>2
<1>4. TypeOK'
  BY <1>1, <1>3 DEF IInv, TypeOK
<1>5. CallHeld' /\ PollingIdle' /\ ClearIsClear'
  BY <1>1, <1>2 DEF IInv, CallHeld, PollingIdle, ClearIsClear, Right
<1> QED
  BY <1>4, <1>5 DEF IInv

LEMMA AnsweredStep == ASSUME IInv, NEW d \in Devices, Answered(d) PROVE IInv'
<1>1. /\ call[d] # None /\ Proceed(d, call[d].stage = "ok")
      /\ UNCHANGED <<scan, opening, aged, listing, late, revoked, faults>>
  BY DEF Answered
<1>2. (call[d].stage = "ok") \in BOOLEAN
  OBVIOUS
<1>3. /\ call' \in [Devices -> CallType \cup {None}] /\ todo' \in [Devices -> SUBSET Scans]
      /\ \A e \in Devices : todo'[e] \subseteq todo[e]
      /\ CallHeld'
  BY <1>1, <1>2, ProceedTyped
<1>4. PollingIdle'
  BY <1>1, <1>3 DEF IInv, TypeOK, PollingIdle
<1>5. /\ aged' \in Nat /\ faults' \in Nat /\ listing' \in SUBSET Devices
      /\ revoked' \in SUBSET Devices /\ late' \in SUBSET CallType
  BY <1>1 DEF IInv, TypeOK
<1> QED
  BY <1>1, <1>3, <1>4, <1>5, CallStep

LEMMA GiveUpStep == ASSUME IInv, NEW d \in Devices, GiveUp(d) PROVE IInv'
<1>1. /\ call[d] # None /\ Proceed(d, FALSE) /\ late' = late \cup InFlight(d)
      /\ faults' = faults + 1 /\ UNCHANGED <<scan, opening, aged, listing, revoked>>
  BY DEF GiveUp
<1>2. /\ call' \in [Devices -> CallType \cup {None}] /\ todo' \in [Devices -> SUBSET Scans]
      /\ \A e \in Devices : todo'[e] \subseteq todo[e]
      /\ CallHeld'
  BY <1>1, ProceedTyped
<1>3. PollingIdle'
  BY <1>1, <1>2 DEF IInv, TypeOK, PollingIdle
<1>4. /\ aged' \in Nat /\ faults' \in Nat /\ listing' \in SUBSET Devices
      /\ revoked' \in SUBSET Devices /\ late' \in SUBSET CallType
  BY <1>1, InFlightTyped DEF IInv, TypeOK
<1> QED
  BY <1>1, <1>2, <1>3, <1>4, CallStep

LEMMA AgentRestartStep == ASSUME IInv, NEW d \in Devices, AgentRestart(d) PROVE IInv'
<1>1. /\ todo' = [todo EXCEPT ![d] = {}] /\ call' = [call EXCEPT ![d] = None]
      /\ late' = late \cup InFlight(d)
      /\ faults' = faults + 1 /\ UNCHANGED <<scan, opening, aged, listing, revoked>>
  BY DEF AgentRestart
<1>2. /\ call' \in [Devices -> CallType \cup {None}] /\ todo' \in [Devices -> SUBSET Scans]
      /\ CallHeld' /\ PollingIdle'
  BY <1>1 DEF IInv, TypeOK, CallHeld, PollingIdle
<1>3. /\ aged' \in Nat /\ faults' \in Nat /\ listing' \in SUBSET Devices
      /\ revoked' \in SUBSET Devices /\ late' \in SUBSET CallType
  BY <1>1, InFlightTyped DEF IInv, TypeOK
<1> QED
  BY <1>1, <1>2, <1>3, CallStep

LEMMA Inductive == IInv /\ [Next]_vars => IInv'
<1> SUFFICES ASSUME IInv, [Next]_vars PROVE IInv'
  OBVIOUS
<1>1. ASSUME NEW o \in Openers, Create(o) \/ \E t \in Targets : FindOpen(o, t) PROVE IInv'
  BY <1>1, FindOpenStep, CreateStep
<1>2. ASSUME NEW d \in Devices, Agent(d) PROVE IInv'
  BY <1>2, CleanupStep, ListStep, StartStep, ApplyStep, AnsweredStep DEF Agent
<1>3. ASSUME NEW d \in Devices, GiveUp(d) \/ AgentRestart(d) \/ Revoke(d) PROVE IInv'
  BY <1>3, GiveUpStep, AgentRestartStep, RevokeStep
<1>4. ASSUME NEW d \in Devices, Reenroll(d) PROVE IInv'
  BY <1>4, CallStep DEF Reenroll, IInv, TypeOK, CallHeld, PollingIdle
<1>5. ASSUME NEW c \in late, ApplyLate(c) PROVE IInv'
  BY <1>5, ApplyLateStep
<1>6. CASE Age
  BY <1>6, CallStep DEF Age, IInv, TypeOK, CallHeld, PollingIdle
<1>7. CASE GatewayRestart
  BY <1>7, GatewayRestartStep
<1>8. CASE UNCHANGED vars
  BY <1>8, CallStep DEF vars, IInv, TypeOK, CallHeld, PollingIdle
<1> QED
  BY <1>1, <1>2, <1>3, <1>4, <1>5, <1>6, <1>7, <1>8 DEF Next

(* What the theorems below follow from: types, what a call is about, and     *)
(* that a request that nothing outran is right.                              *)
THEOREM Invariant == Spec => []IInv
BY InitIInv, Inductive, PTL DEF Spec

(* Types of the rows and of the calls in flight. *)
THEOREM TypeCorrect == Spec => []TypeOK
BY Invariant, PTL DEF IInv

-----------------------------------------------------------------------------
(* Who may write over a scan that is over *)

(* A report, even a late one, is about a scan some agent has in hand. *)
LEMMA ReportHeld ==
  ASSUME IInv
  PROVE  /\ \A d \in Devices : call[d] # None => call[d] \in CallType /\ call[d].s \in Held
         /\ \A c \in late : c \in CallType /\ c.s \in Held
BY DEF IInv, TypeOK, CallHeld, Held

(* A step writes a new scan, fails open ones, reports, or leaves scans alone. *)
Creates(s) ==
  /\ scan[s].status = "none"
  /\ \E o \in Openers : 
       /\ Create(o) /\ opening[o] # None /\ opening'[o] = None
       /\ scan' = [scan EXCEPT ![s] = [status |-> "pending", target |-> opening[o].target]]

LEMMA FourWays ==
  ASSUME IInv, [Next]_vars
  PROVE  \/ \E s \in Scans : Creates(s)
         \/ \E S \in SUBSET Open : scan' = Failing(S)
         \/ \E c \in CallType : c.s \in Held /\ scan' = Written(c)
         \/ scan' = scan
<1>1. ASSUME NEW o \in Openers, Create(o) PROVE \E s \in Scans : Creates(s)
  <2>1. opening[o] # None /\ opening'[o] = None
    BY <1>1 DEF Create
  <2> QED
    BY <1>1, <2>1 DEF Create, Creates
<1>2. ASSUME NEW d \in Devices, Cleanup(d) \/ Revoke(d)
      PROVE  \E S \in SUBSET Open : scan' = Failing(S)
  <2>1. Stale \in SUBSET Open /\ {s \in Open : scan[s].target = d} \in SUBSET Open
    BY DEF Stale
  <2> QED
    BY <1>2, <2>1 DEF Cleanup, Revoke
<1>3. ASSUME NEW d \in Devices, Apply(d)
      PROVE  \E c \in CallType : c.s \in Held /\ scan' = Written(c)
  BY <1>3, ReportHeld DEF Apply
<1>4. ASSUME NEW c \in late, ApplyLate(c)
      PROVE  \E b \in CallType : b.s \in Held /\ scan' = Written(b)
  BY <1>4, ReportHeld DEF ApplyLate
<1>5. ASSUME \/ \E o \in Openers, t \in Targets : FindOpen(o, t)
             \/ \E d \in Devices : \/ List(d) \/ Answered(d) \/ GiveUp(d) \/ AgentRestart(d)
                                   \/ Reenroll(d) \/ \E s \in Scans : Start(d, s)
             \/ Age \/ GatewayRestart \/ UNCHANGED vars
      PROVE  scan' = scan
  BY <1>5 DEF FindOpen, List, Answered, GiveUp, AgentRestart, Reenroll, Start, Age,
              GatewayRestart, vars
<1> QED
  BY <1>1, <1>2, <1>3, <1>4, <1>5 DEF Next, Agent

LEMMA SecondStep == IInv /\ [Next]_vars => [SecondScanning]_vars
<1> SUFFICES ASSUME IInv, [Next]_vars, NEW s \in Open' \ Open, Joins(scan'[s].target) # {}
             PROVE  \/ \E o \in Openers : opening[o] # None /\ opening[o].raced /\ opening'[o] = None
                    \/ s \in Held
  BY DEF SecondScanning
<1>0. /\ s \in Scans /\ scan'[s].status \in {"pending", "running"}
      /\ scan[s].status \notin {"pending", "running"}
  BY DEF Open
<1>1. ASSUME NEW r \in Scans, Creates(r)
      PROVE  \E o \in Openers : opening[o] # None /\ opening[o].raced /\ opening'[o] = None
  <2>1. PICK o \in Openers :
          /\ opening[o] # None /\ opening'[o] = None
          /\ scan' = [scan EXCEPT ![r] = [status |-> "pending", target |-> opening[o].target]]
    BY <1>1 DEF Creates
  <2>2. s = r /\ scan'[s].target = opening[o].target
    BY <1>0, <2>1 DEF IInv, TypeOK
  <2>3. opening[o].raced
    BY <2>1, <2>2 DEF IInv, ClearIsClear, Right
  <2> QED
    BY <2>1, <2>3
<1>2. ASSUME NEW S \in SUBSET Open, scan' = Failing(S) PROVE FALSE
  <2>1. S \in SUBSET Scans
    BY DEF Open
  <2> QED
    BY <1>0, <1>2, <2>1, FailingTyped DEF IInv
<1>3. ASSUME NEW c \in CallType, c.s \in Held, scan' = Written(c) PROVE s \in Held
  BY <1>0, <1>3, WrittenTyped DEF IInv
<1> QED
  BY <1>0, <1>1, <1>2, <1>3, FourWays

(* network.service.ts:86: a second scan for a target opens only when a       *)
(* request that had found none was outrun, or by an agent's report on a scan *)
(* it took earlier.                                                          *)
THEOREM OneScanButForRaces == Spec => SecondScanOnlyByRace
<1>1. IInv /\ [Next]_vars => [SecondScanning]_vars
  BY SecondStep
<1> QED
  BY <1>1, Invariant, PTL DEF Spec, SecondScanOnlyByRace

LEMMA UncompletingStep == IInv /\ [Next]_vars => [Uncompleting]_vars
<1> SUFFICES ASSUME IInv, [Next]_vars, NEW s \in Scans,
                    scan[s].status = "completed", scan'[s].status # "completed"
             PROVE  s \in Held
  BY DEF Uncompleting
<1>1. ASSUME NEW r \in Scans, Creates(r) PROVE FALSE
  BY <1>1 DEF Creates, IInv, TypeOK
<1>2. ASSUME NEW S \in SUBSET Open, scan' = Failing(S) PROVE FALSE
  <2>1. S \in SUBSET Scans /\ s \notin S
    BY DEF Open
  <2> QED
    BY <1>2, <2>1, FailingTyped DEF IInv
<1>3. ASSUME NEW c \in CallType, c.s \in Held, scan' = Written(c) PROVE s \in Held
  BY <1>3, WrittenTyped DEF IInv
<1> QED
  BY <1>1, <1>2, <1>3, FourWays

(* network.service.ts:152: neither cleanup nor revocation nor a new request  *)
(* undoes a completed scan; only an agent that has it in hand does.          *)
THEOREM CompletedStays == Spec => CompletedIsFinal
<1>1. IInv /\ [Next]_vars => [Uncompleting]_vars
  BY UncompletingStep
<1> QED
  BY <1>1, Invariant, PTL DEF Spec, CompletedIsFinal

-----------------------------------------------------------------------------
(* The refinement: each step is a step of DeviceCommands or a stutter.  Its *)
(* phase is that of the scan's status, its held is Held.                   *)

LEMMA PhaseOf ==
  /\ Phase("none") = "none" /\ Phase("pending") = "asked" /\ Phase("running") = "working"
  /\ \A v \in {"completed", "failed"} : Phase(v) = "closed"
BY DEF Phase

Phases == [s \in Scans |-> Phase(scan[s].status)]
OrdersStep == Orders!Next \/ UNCHANGED Orders!vars

LEMMA HeldTyped == ASSUME IInv PROVE Held \subseteq Scans
BY DEF IInv, TypeOK, Held, CallType

(* Nobody takes a scan and none changes: agents let go, or do nothing. *)
LEMMA LetsGo ==
  ASSUME IInv, scan' = scan, Held' \subseteq Held
  PROVE  OrdersStep
<1> DEFINE C == Held \ Held'
<1>1. C \in SUBSET Scans /\ Held' = Held \ C
  BY HeldTyped
<1>2. Orders!Drop(C)
  BY <1>1 DEF Orders!Drop
<1> QED
  BY <1>1, <1>2 DEF OrdersStep, Orders!Next

(* The cleanup and a revocation close scans that existed. *)
LEMMA Closes ==
  ASSUME IInv, NEW S \in SUBSET Open, scan' = Failing(S), Held' = Held
  PROVE  OrdersStep
<1>0. S \in SUBSET Scans /\ \A s \in S : scan[s].status \in {"pending", "running"}
  BY DEF Open
<1>1. /\ \A s \in S : scan'[s].status = "failed"
      /\ \A s \in Scans \ S : scan'[s] = scan[s]
  BY <1>0, FailingTyped DEF IInv
<1>2. \A s \in S : Phases[s] # "none"
  BY <1>0, PhaseOf DEF Phases
<1>3. Phases' = [s \in Scans |-> IF s \in S THEN "closed" ELSE Phases[s]]
  BY <1>0, <1>1, PhaseOf DEF Phases
<1>4. Orders!Close(S)
  BY <1>2, <1>3 DEF Orders!Close, Phases
<1> QED
  BY <1>0, <1>4 DEF OrdersStep, Orders!Next

LEMMA Reports ==
  ASSUME IInv, NEW c \in CallType, scan' = Written(c), c.s \in Held,
         Held' = Held \/ Held' = Held \ {c.s}
  PROVE  OrdersStep
<1>1. c.s \in Scans /\ c.op \in Ops
  BY DEF CallType
<1>2. /\ scan'[c.s].status = c.op
      /\ \A s \in Scans \ {c.s} : scan'[s] = scan[s]
  BY WrittenTyped DEF IInv
<1> DEFINE p == IF c.op = "running" THEN "working" ELSE "closed"
<1>3. Phase(scan'[c.s].status) = p
  BY <1>1, <1>2, PhaseOf DEF Ops
<1>4. Phases' = [Phases EXCEPT ![c.s] = p]
  BY <1>1, <1>2, <1>3 DEF Phases
<1>5. Orders!Report(c.s)
  BY <1>4 DEF Orders!Report, Phases
<1> QED
  BY <1>1, <1>5 DEF OrdersStep, Orders!Next

LEMMA InitImplements == Init => Orders!Init
BY PhaseOf DEF Init, Orders!Init, Held

LEMMA CreateImplements ==
  ASSUME IInv, NEW o \in Openers, Create(o) PROVE OrdersStep
<1> PICK s \in Scans :
      /\ scan[s].status = "none"
      /\ scan' = [scan EXCEPT ![s] = [status |-> "pending", target |-> opening[o].target]]
  BY DEF Create
<1>1. scan'[s].status = "pending" /\ \A t \in Scans \ {s} : scan'[t] = scan[t]
  BY DEF IInv, TypeOK
<1>2. Phases[s] = "none" /\ Phases' = [Phases EXCEPT ![s] = "asked"]
  <2>1. Phases[s] = "none"
    BY PhaseOf DEF Phases
  <2>2. Phase(scan'[s].status) = "asked"
    BY <1>1, PhaseOf
  <2>3. \A t \in Scans : Phase(scan'[t].status) = IF t = s THEN "asked" ELSE Phase(scan[t].status)
    BY <1>1, <2>2
  <2>4. Phases' = [t \in Scans |-> IF t = s THEN "asked" ELSE Phase(scan[t].status)]
    BY <2>3 DEF Phases
  <2> QED
    BY <2>1, <2>4 DEF Phases
<1>3. Held' = Held
  BY DEF Create, Held
<1>4. Orders!Ask(s)
  BY <1>2, <1>3 DEF Orders!Ask, Phases
<1> QED
  BY <1>4 DEF OrdersStep, Orders!Next

LEMMA ListImplements == ASSUME IInv, NEW d \in Devices, List(d) PROVE OrdersStep
<1>1. Listed(d) \in SUBSET Scans /\ \A s \in Listed(d) : scan[s].status = "pending"
  BY DEF Listed, Open
<1>2. \A s \in Listed(d) : Phases[s] = "asked"
  BY <1>1, PhaseOf DEF Phases
<1>3. /\ todo'[d] = Listed(d) /\ todo[d] = {} /\ late' = late /\ scan' = scan
      /\ \A e \in Devices \ {d} : todo'[e] = todo[e]
  BY DEF List, IInv, TypeOK, PollingIdle
<1>4. Held' = Held \cup Listed(d) /\ Phases' = Phases
  BY <1>3 DEF Held, Phases
<1>5. Orders!Take(Listed(d))
  BY <1>2, <1>4 DEF Orders!Take, Phases
<1> QED
  BY <1>1, <1>5 DEF OrdersStep, Orders!Next

LEMMA AgentImplements ==
  ASSUME IInv, NEW d \in Devices, GiveUp(d) \/ AgentRestart(d) \/ Answered(d) PROVE OrdersStep
<1>1. scan' = scan /\ late' \subseteq late \cup InFlight(d)
  BY DEF GiveUp, AgentRestart, Answered
<1>2. \A e \in Devices : todo'[e] \subseteq todo[e]
  <2>1. CASE AgentRestart(d)
    BY <2>1 DEF AgentRestart, IInv, TypeOK
  <2>2. CASE GiveUp(d)
    BY <2>2, ProceedTyped DEF GiveUp
  <2>3. CASE Answered(d)
    <3>1. (call[d].stage = "ok") \in BOOLEAN
      OBVIOUS
    <3> QED
      BY <2>3, <3>1, ProceedTyped DEF Answered
  <2> QED
    BY <2>1, <2>2, <2>3
<1>3. \A c \in InFlight(d) : c.s \in todo[d]
  BY InFlightTyped
<1>4. Held' \subseteq Held
  BY <1>1, <1>2, <1>3 DEF Held
<1> QED
  BY <1>1, <1>4, LetsGo

LEMMA StepImplements == IInv /\ [Next]_vars => [Orders!Next]_(Orders!vars)
<1> SUFFICES ASSUME IInv, [Next]_vars PROVE OrdersStep
  BY DEF OrdersStep
<1>1. ASSUME NEW o \in Openers, NEW t \in Targets, FindOpen(o, t) PROVE OrdersStep
  BY <1>1, LetsGo DEF FindOpen, Held
<1>2. ASSUME NEW o \in Openers, Create(o) PROVE OrdersStep
  BY <1>2, CreateImplements
<1>3. ASSUME NEW d \in Devices, Cleanup(d) \/ Revoke(d) PROVE OrdersStep
  <2>1. Stale \in SUBSET Open /\ {s \in Open : scan[s].target = d} \in SUBSET Open
    BY DEF Stale
  <2>2. Held' = Held
    BY <1>3 DEF Cleanup, Revoke, Held
  <2> QED
    BY <1>3, <2>1, <2>2, Closes DEF Cleanup, Revoke
<1>4. ASSUME NEW d \in Devices, Apply(d) PROVE OrdersStep
  <2>1. call[d] \in CallType /\ call[d].s \in Held /\ scan' = Written(call[d]) /\ Held' = Held
    BY <1>4, ReportHeld DEF Apply, Held
  <2> QED
    BY <2>1, Reports
<1>5. ASSUME NEW c \in late, ApplyLate(c) PROVE OrdersStep
  <2>1. c \in CallType /\ c.s \in Held /\ scan' = Written(c)
    BY <1>5, ReportHeld DEF ApplyLate
  <2>2. Held' = Held \/ Held' = Held \ {c.s}
    BY <1>5 DEF ApplyLate, Held
  <2> QED
    BY <2>1, <2>2, Reports
<1>6. ASSUME NEW d \in Devices, List(d) \/ Answered(d) \/ GiveUp(d) \/ AgentRestart(d)
      PROVE  OrdersStep
  BY <1>6, ListImplements, AgentImplements
<1>7. ASSUME \/ \E d \in Devices : Reenroll(d) \/ \E s \in Scans : Start(d, s)
             \/ Age \/ GatewayRestart \/ UNCHANGED vars
      PROVE  OrdersStep
  <2>1. scan' = scan /\ Held' \subseteq Held
    BY <1>7 DEF Reenroll, Start, Age, GatewayRestart, vars, Held
  <2> QED
    BY <2>1, LetsGo
<1> QED
  BY <1>1, <1>2, <1>3, <1>4, <1>5, <1>6, <1>7 DEF Next, Agent

(* Whatever the calls, time-outs, restarts and cleanups, a closed scan runs  *)
(* again only through an agent that listed it while it was pending:          *)
(* NetworkScans implements DeviceCommands.                                   *)
THEOREM Implements == Spec => ImplementsCommands
<1>1. Init => Orders!Init
  BY InitImplements
<1>2. IInv /\ [Next]_vars => [Orders!Next]_(Orders!vars)
  BY StepImplements
<1> QED
  BY <1>1, <1>2, Invariant, PTL DEF Spec, ImplementsCommands, Orders!Spec

-----------------------------------------------------------------------------
(* Security scans and their findings.  What follows is about Z!Spec alone,    *)
(* and names it shares with the module above are parameters of it like the    *)
(* others.                                                                    *)

CONSTANTS Answers, Slots, Attempts
VARIABLES current, finding, scored, job, slot, cut

Z == INSTANCE SecurityScans

Bounds == {Attempts, MaxFaults} \subseteq Nat

(* The conjuncts of TypeOK, by component. *)
JobType == [st : {"none", "waiting", "active", "kept"}, by : Slots \cup {None},
            throws : 0..Attempts, stalled : BOOLEAN]
SlotType == [pc : {"free", "read", "alert"}, j : Z!Jobs \cup {None}, sees : SUBSET Answers]
AnswerType == [pc : {"unmade", "owned", "complete", "store", "score",
                     "queue scan", "queue finding", "over"},
               s : Scans \cup {None}, sev : Z!Severities \cup {None}]
RowsTyped ==
  /\ scan \in [Scans -> {"none", "pending", "completed"}]
  /\ opening \in SUBSET Openers /\ finding \in [Answers -> Z!Severities \cup {None}]
  /\ scored \in SUBSET Scans
CallsTyped ==
  /\ todo \in SUBSET Scans /\ current \in Answers \cup {None}
  /\ call \in [Answers -> AnswerType]
JobsTyped == job \in [Z!Jobs -> JobType]
SlotsTyped == slot \in [Slots -> SlotType]
AlertsTyped == raised \in [Z!Jobs -> Nat] /\ beside \in SUBSET Z!Jobs /\ cut \in SUBSET Answers
FaultsTyped == faults \in 0..MaxFaults

(* An answer that was made is about a scan; a busy slot has a job that was queued. *)
Made == \A a \in Answers : call[a].pc # "unmade" => call[a].s \in Scans /\ call[a].sev \in Z!Severities
Occupied ==
  \A w \in Slots :
    IF slot[w].pc = "free" THEN slot[w] = Z!Free
    ELSE slot[w].j \in Z!Jobs /\ job[slot[w].j].st # "none"

(* Nothing runs a job but its holder, unless a run of it went on beside.       *)
OneRun ==
  \A w \in Slots : slot[w].pc # "free" /\ slot[w].j \notin beside =>
    job[slot[w].j].st = "active" /\ job[slot[w].j].by = w

(* The jobs of an answer are queued once, at its end.                          *)
Unqueued ==
  \A a \in Answers :
    /\ call[a].pc # "over" => job[<<"finding", a>>].st = "none"
    /\ call[a].pc \notin {"queue finding", "over"} => job[<<"scan", a>>].st = "none"

(* A run of a finding's job that is about to alert is the first to.            *)
SeesOwn ==
  \A w \in Slots, a \in Answers : slot[w].pc = "alert" /\ slot[w].j = <<"finding", a>> =>
    /\ slot[w].sees \subseteq {a}
    /\ slot[w].sees # {} /\ slot[w].j \notin beside => raised[slot[w].j] = 0

Typed == RowsTyped /\ CallsTyped /\ JobsTyped /\ SlotsTyped /\ AlertsTyped /\ FaultsTyped
(* FindingAlertedOnce, of the findings there are. *)
Once == \A a \in Answers : raised[<<"finding", a>>] > 1 => <<"finding", a>> \in beside

SecurityInv == Typed /\ Made /\ Occupied /\ OneRun /\ Unqueued /\ SeesOwn /\ Once

LEMMA TypedIsTypeOK == Z!TypeOK <=> Typed
BY DEF Z!TypeOK, Typed, RowsTyped, CallsTyped, JobsTyped, SlotsTyped, AlertsTyped, FaultsTyped,
   JobType, SlotType, AnswerType

LEMMA JobIds ==
  /\ \A a \in Answers : <<"scan", a>> \in Z!Jobs /\ <<"finding", a>> \in Z!Jobs
  /\ \A a, b : <<"scan", a>> # <<"finding", b>>
  /\ \A a, b : <<"finding", a>> = <<"finding", b>> => a = b
  /\ \A a, b : <<"scan", a>> = <<"scan", b>> => a = b
BY DEF Z!Jobs, Z!Kinds

LEMMA SecurityInitially == ASSUME Bounds PROVE Z!Init => SecurityInv
<1> SUFFICES ASSUME Z!Init PROVE SecurityInv
  OBVIOUS
<1>0. Attempts \in Nat /\ MaxFaults \in Nat
  BY DEF Bounds
<1>1. RowsTyped
  BY DEF Z!Init, RowsTyped
<1>2. CallsTyped
  BY DEF Z!Init, CallsTyped, Z!Unmade, AnswerType
<1>3. JobsTyped
  <2>1. Z!NoJob \in JobType
    BY <1>0 DEF Z!NoJob, JobType
  <2> QED
    BY <2>1 DEF Z!Init, JobsTyped
<1>4. SlotsTyped
  BY DEF Z!Init, SlotsTyped, Z!Free, SlotType
<1>5. AlertsTyped
  BY DEF Z!Init, AlertsTyped
<1>6. FaultsTyped
  BY <1>0 DEF Z!Init, FaultsTyped
<1>7. Made
  BY DEF Z!Init, Made, Z!Unmade
<1>9. Occupied /\ OneRun /\ SeesOwn
  <2>1. \A w \in Slots : slot[w] = Z!Free /\ slot[w].pc = "free"
    BY DEF Z!Init, Z!Free
  <2> QED
    BY <2>1 DEF Occupied, OneRun, SeesOwn
<1>8. Unqueued
  BY JobIds DEF Z!Init, Unqueued, Z!NoJob
<1>10. Once
  <2>1. \A a \in Answers : raised[<<"finding", a>>] = 0
    BY JobIds DEF Z!Init
  <2> QED
    BY <2>1 DEF Once
<1> QED
  BY <1>1, <1>2, <1>3, <1>4, <1>5, <1>6, <1>7, <1>8, <1>9, <1>10 DEF SecurityInv, Typed

LEMMA Failed == ASSUME Bounds, SecurityInv, Z!Fail PROVE FaultsTyped'
BY DEF Bounds, SecurityInv, Typed, FaultsTyped, Z!Fail

(* A step of users, the agent or the gateway.                                  *)
LEMMA FrontStep ==
  ASSUME SecurityInv, RowsTyped', CallsTyped', JobsTyped', FaultsTyped', cut' \in SUBSET Answers, Made',
         UNCHANGED Z!workerVars, Unqueued',
         \A j \in Z!Jobs : job[j].st # "none" => job'[j] = job[j]
  PROVE  SecurityInv'
<1>1. SlotsTyped' /\ AlertsTyped'
  BY DEF SecurityInv, Typed, SlotsTyped, AlertsTyped, Z!workerVars
<1>2. SeesOwn' /\ Once'
  BY DEF SecurityInv, SeesOwn, Once, Z!workerVars
<1>4. Occupied'
  BY DEF SecurityInv, Occupied, Z!workerVars
<1>3. OneRun'
  BY DEF SecurityInv, OneRun, Occupied, Z!workerVars
<1> QED
  BY <1>1, <1>2, <1>3, <1>4 DEF SecurityInv, Typed

(* A step of a worker.                                                         *)
LEMMA BackStep ==
  ASSUME SecurityInv, JobsTyped', SlotsTyped', AlertsTyped', FaultsTyped', UNCHANGED Z!workerRest,
         Occupied', OneRun', SeesOwn', Once',
         \A j \in Z!Jobs : job[j].st = "none" => job'[j].st = "none"
  PROVE  SecurityInv'
<1>1. RowsTyped' /\ CallsTyped' /\ Made'
  BY DEF SecurityInv, Typed, RowsTyped, CallsTyped, Made, Z!workerRest, Z!agentVars, Z!gatewayVars
<1>2. Unqueued'
  BY JobIds DEF SecurityInv, Unqueued, Z!workerRest, Z!gatewayVars
<1> QED
  BY <1>1, <1>2 DEF SecurityInv, Typed

-----------------------------------------------------------------------------
(* Users, the agent and the gateway *)

LEMMA FrontAct ==
  ASSUME Bounds, SecurityInv,
         \/ \E o \in Openers : Z!FindPending(o) \/ Z!Create(o)
         \/ Z!Poll \/ Z!Answered \/ Z!GiveUp
  PROVE  SecurityInv'
<1> DEFINE Q == Typed /\ Made /\ Unqueued
<1>0. Typed /\ Made /\ Unqueued
  BY DEF SecurityInv
<1>1. ASSUME NEW o \in Openers, Z!FindPending(o) PROVE SecurityInv'
  <2>1. RowsTyped'
    BY <1>0, <1>1 DEF Z!FindPending, Z!agentVars, Z!gatewayVars, Typed, RowsTyped
  <2>2. CallsTyped'
    BY <1>0, <1>1 DEF Z!FindPending, Z!agentVars, Z!gatewayVars, Typed, CallsTyped
  <2>3. JobsTyped' /\ cut' \in SUBSET Answers /\ UNCHANGED <<job, Z!workerVars>>
    BY <1>0, <1>1 DEF Z!FindPending, Z!agentVars, Z!gatewayVars, Typed, JobsTyped, AlertsTyped
  <2>4. FaultsTyped'
    BY <1>0, <1>1 DEF Z!FindPending, Z!agentVars, Z!gatewayVars, Typed, FaultsTyped
  <2>5. Made' /\ Unqueued'
    BY <1>0, <1>1 DEF Z!FindPending, Z!agentVars, Z!gatewayVars, Made, Unqueued
  <2> QED
    BY <2>1, <2>2, <2>3, <2>4, <2>5, FrontStep
<1>2. ASSUME NEW o \in Openers, Z!Create(o) PROVE SecurityInv'
  <2>1. RowsTyped'
    BY <1>0, <1>2 DEF Z!Create, Z!agentVars, Z!gatewayVars, Typed, RowsTyped
  <2>2. CallsTyped'
    BY <1>0, <1>2 DEF Z!Create, Z!agentVars, Z!gatewayVars, Typed, CallsTyped
  <2>3. JobsTyped' /\ cut' \in SUBSET Answers /\ UNCHANGED <<job, Z!workerVars>>
    BY <1>0, <1>2 DEF Z!Create, Z!agentVars, Z!gatewayVars, Typed, JobsTyped, AlertsTyped
  <2>4. FaultsTyped'
    BY <1>0, <1>2 DEF Z!Create, Z!agentVars, Z!gatewayVars, Typed, FaultsTyped
  <2>5. Made' /\ Unqueued'
    BY <1>0, <1>2 DEF Z!Create, Z!agentVars, Z!gatewayVars, Made, Unqueued
  <2> QED
    BY <2>1, <2>2, <2>3, <2>4, <2>5, FrontStep
<1>3. ASSUME Z!Poll PROVE SecurityInv'
  <2>1. RowsTyped'
    BY <1>0, <1>3 DEF Z!Poll, Z!Pending, Z!agentVars, Z!gatewayVars, Typed, RowsTyped
  <2>2. CallsTyped'
    BY <1>0, <1>3 DEF Z!Poll, Z!Pending, Z!agentVars, Z!gatewayVars, Typed, CallsTyped
  <2>3. JobsTyped' /\ cut' \in SUBSET Answers /\ UNCHANGED <<job, Z!workerVars>>
    BY <1>0, <1>3 DEF Z!Poll, Z!Pending, Z!agentVars, Z!gatewayVars, Typed, JobsTyped, AlertsTyped
  <2>4. FaultsTyped'
    BY <1>0, <1>3 DEF Z!Poll, Z!Pending, Z!agentVars, Z!gatewayVars, Typed, FaultsTyped
  <2>5. Made' /\ Unqueued'
    BY <1>0, <1>3 DEF Z!Poll, Z!Pending, Z!agentVars, Z!gatewayVars, Made, Unqueued
  <2> QED
    BY <2>1, <2>2, <2>3, <2>4, <2>5, FrontStep
<1>4. ASSUME Z!Answered PROVE SecurityInv'
  <2>1. RowsTyped'
    BY <1>0, <1>4 DEF Z!Answered, Z!agentVars, Z!gatewayVars, Typed, RowsTyped
  <2>2. CallsTyped'
    BY <1>0, <1>4 DEF Z!Answered, Z!agentVars, Z!gatewayVars, Typed, CallsTyped
  <2>3. JobsTyped' /\ cut' \in SUBSET Answers /\ UNCHANGED <<job, Z!workerVars>>
    BY <1>0, <1>4 DEF Z!Answered, Z!agentVars, Z!gatewayVars, Typed, JobsTyped, AlertsTyped
  <2>4. FaultsTyped'
    BY <1>0, <1>4 DEF Z!Answered, Z!agentVars, Z!gatewayVars, Typed, FaultsTyped
  <2>5. Made' /\ Unqueued'
    BY <1>0, <1>4 DEF Z!Answered, Z!agentVars, Z!gatewayVars, Made, Unqueued
  <2> QED
    BY <2>1, <2>2, <2>3, <2>4, <2>5, FrontStep
<1>5. ASSUME Z!GiveUp PROVE SecurityInv'
  <2>1. RowsTyped'
    BY <1>0, <1>5 DEF Z!GiveUp, Z!agentVars, Z!gatewayVars, Typed, RowsTyped
  <2>2. CallsTyped'
    BY <1>0, <1>5 DEF Z!GiveUp, Z!agentVars, Z!gatewayVars, Typed, CallsTyped
  <2>3. JobsTyped' /\ cut' \in SUBSET Answers /\ UNCHANGED <<job, Z!workerVars>>
    BY <1>0, <1>5 DEF Z!GiveUp, Z!agentVars, Z!gatewayVars, Typed, JobsTyped, AlertsTyped
  <2>4. FaultsTyped'
    BY <1>5, Failed DEF Z!GiveUp
  <2>5. Made' /\ Unqueued'
    BY <1>0, <1>5 DEF Z!GiveUp, Z!agentVars, Z!gatewayVars, Made, Unqueued
  <2> QED
    BY <2>1, <2>2, <2>3, <2>4, <2>5, FrontStep
<1> QED
  BY <1>1, <1>2, <1>3, <1>4, <1>5

LEMMA AnswerAct ==
  ASSUME SecurityInv, NEW s \in Scans, NEW sev \in Z!Severities, Z!Answer(s, sev)
  PROVE  SecurityInv'
<1>0. Typed /\ Made /\ Unqueued
  BY DEF SecurityInv
<1>1. PICK a \in Answers :
        /\ call[a] = Z!Unmade /\ current' = a
        /\ call' = [call EXCEPT ![a] = [pc |-> IF s \in Z!Pending THEN "owned" ELSE "over", s |-> s, sev |-> sev]]
  BY DEF Z!Answer
<1>2. /\ UNCHANGED <<scan, finding, scored, Z!workerVars, opening, job, faults, cut>>
      /\ todo' = todo \ {s}
  BY DEF Z!Answer
<1>3. CallsTyped'
  BY <1>0, <1>1, <1>2 DEF Typed, CallsTyped, AnswerType
<1>7. /\ \A b \in Answers \ {a} : call'[b] = call[b]
      /\ call'[a].s = s /\ call'[a].sev = sev /\ call[a].pc = "unmade"
  BY <1>0, <1>1 DEF Typed, CallsTyped, Z!Unmade
<1>4. Made'
  BY <1>0, <1>7 DEF Made
<1>5. Unqueued'
  BY <1>0, <1>2, <1>7 DEF Unqueued
<1>6. RowsTyped' /\ JobsTyped' /\ FaultsTyped' /\ cut' \in SUBSET Answers
  BY <1>0, <1>2 DEF Typed, RowsTyped, JobsTyped, FaultsTyped, AlertsTyped
<1> QED
  BY <1>2, <1>3, <1>4, <1>5, <1>6, FrontStep

(* What a statement of an answer does to the calls.                            *)
LEMMA Moved ==
  ASSUME SecurityInv, NEW a \in Answers, call[a].pc # "unmade", NEW pc, Z!Goto(a, pc),
         pc \in {"complete", "store", "score", "queue scan", "queue finding", "over"},
         UNCHANGED Z!agentVars
  PROVE  /\ CallsTyped' /\ Made' /\ call'[a].pc = pc
         /\ \A b \in Answers \ {a} : call'[b] = call[b]
<1>1. call \in [Answers -> AnswerType]
  BY DEF SecurityInv, Typed, CallsTyped
<1>2. call' \in [Answers -> AnswerType]
  BY <1>1 DEF Z!Goto, AnswerType
<1>3. /\ call'[a].pc = pc /\ \A b \in Answers \ {a} : call'[b] = call[b]
      /\ call'[a].s = call[a].s /\ call'[a].sev = call[a].sev
  BY <1>1 DEF Z!Goto, AnswerType
<1>4. CallsTyped'
  BY <1>2 DEF SecurityInv, Typed, CallsTyped, Z!agentVars
<1>5. Made'
  BY <1>3 DEF SecurityInv, Made
<1> QED
  BY <1>3, <1>4, <1>5

(* A job is queued for an answer that had none.                                *)
LEMMA Queued ==
  ASSUME Bounds, SecurityInv, NEW j \in Z!Jobs, job' = [job EXCEPT ![j] = Z!Waiting]
  PROVE  /\ JobsTyped'
         /\ \A i \in Z!Jobs \ {j} : job'[i] = job[i]
<1>0. 0 \in 0..Attempts
  BY DEF Bounds
<1>1. Z!Waiting \in JobType
  BY <1>0 DEF Z!Waiting, Z!NoJob, JobType
<1> QED
  BY <1>1 DEF SecurityInv, Typed, JobsTyped

LEMMA ServeAct ==
  ASSUME Bounds, SecurityInv, NEW a \in Answers, Z!Serve(a) \/ Z!ServeFails(a)
  PROVE  SecurityInv'
<1>0. /\ Typed /\ Made /\ Unqueued /\ call[a].pc # "unmade"
      /\ UNCHANGED <<Z!agentVars, Z!workerVars, opening>>
  BY DEF SecurityInv, Z!Serve, Z!ServeFails, Z!Recheck, Z!Complete, Z!Store, Z!Score,
     Z!QueueScan, Z!QueueFinding, Z!At
<1>1. cut' \in SUBSET Answers
  BY <1>0 DEF Z!Serve, Z!ServeFails, Typed, AlertsTyped
<1>2. FaultsTyped'
  BY <1>0, Failed DEF Z!Serve, Z!ServeFails, Typed, FaultsTyped
<1>3. /\ call[a] \in AnswerType /\ call[a].s \in Scans
      /\ call[a].pc # "over" => job[<<"finding", a>>].st = "none"
      /\ call[a].pc \notin {"queue finding", "over"} => job[<<"scan", a>>].st = "none"
  BY <1>0 DEF Typed, CallsTyped, Made, Unqueued
<1> SUFFICES /\ RowsTyped' /\ CallsTyped' /\ JobsTyped' /\ Made' /\ Unqueued'
             /\ \A j \in Z!Jobs : job[j].st # "none" => job'[j] = job[j]
  BY <1>0, <1>1, <1>2, FrontStep
<1>4. ASSUME UNCHANGED job PROVE JobsTyped' /\ \A j \in Z!Jobs : job'[j] = job[j]
  BY <1>0, <1>4 DEF Typed, JobsTyped
<1>5. ASSUME UNCHANGED job, call[a].pc # "over", \A b \in Answers \ {a} : call'[b] = call[b],
             call[a].pc = "queue finding" => call'[a].pc = "over"
      PROVE  Unqueued'
  BY <1>0, <1>5 DEF Unqueued
<1>6. CASE Z!Recheck(a)
  <2>1. PICK pc \in {"complete", "store", "score", "queue scan", "queue finding", "over"} : Z!Goto(a, pc)
    BY <1>3, <1>6 DEF Z!Recheck, Z!At
  <2>2. UNCHANGED job /\ call[a].pc # "over" /\ (call[a].pc = "queue finding" => pc = "over")
    BY <1>6, <2>1 DEF Z!Recheck, Z!At
  <2>3. RowsTyped'
    BY <1>0, <1>6 DEF Z!Recheck, Typed, RowsTyped
  <2> QED
    BY <1>0, <1>4, <1>5, <2>1, <2>2, <2>3, Moved
<1>7. CASE Z!Complete(a)
  <2>1. PICK pc \in {"complete", "store", "score", "queue scan", "queue finding", "over"} : Z!Goto(a, pc)
    BY <1>3, <1>7 DEF Z!Complete, Z!At
  <2>2. UNCHANGED job /\ call[a].pc # "over" /\ (call[a].pc = "queue finding" => pc = "over")
    BY <1>7, <2>1 DEF Z!Complete, Z!At
  <2>3. RowsTyped'
    BY <1>0, <1>3, <1>7 DEF Z!Complete, Typed, RowsTyped
  <2> QED
    BY <1>0, <1>4, <1>5, <2>1, <2>2, <2>3, Moved
<1>8. CASE Z!Store(a)
  <2>1. PICK pc \in {"complete", "store", "score", "queue scan", "queue finding", "over"} : Z!Goto(a, pc)
    BY <1>3, <1>8 DEF Z!Store, Z!At
  <2>2. UNCHANGED job /\ call[a].pc # "over" /\ (call[a].pc = "queue finding" => pc = "over")
    BY <1>8, <2>1 DEF Z!Store, Z!At
  <2>3. RowsTyped'
    BY <1>0, <1>3, <1>8 DEF Z!Store, Typed, RowsTyped, AnswerType
  <2> QED
    BY <1>0, <1>4, <1>5, <2>1, <2>2, <2>3, Moved
<1>9. CASE Z!Score(a)
  <2>1. PICK pc \in {"complete", "store", "score", "queue scan", "queue finding", "over"} : Z!Goto(a, pc)
    BY <1>3, <1>9 DEF Z!Score, Z!At
  <2>2. UNCHANGED job /\ call[a].pc # "over" /\ (call[a].pc = "queue finding" => pc = "over")
    BY <1>9, <2>1 DEF Z!Score, Z!At
  <2>3. RowsTyped'
    BY <1>0, <1>3, <1>9 DEF Z!Score, Typed, RowsTyped
  <2> QED
    BY <1>0, <1>4, <1>5, <2>1, <2>2, <2>3, Moved
<1>10. CASE Z!ServeFails(a)
  <2>1. PICK pc \in {"over"} : Z!Goto(a, pc)
    BY <1>3, <1>10 DEF Z!ServeFails
  <2>2. UNCHANGED job /\ call[a].pc # "over" /\ (call[a].pc = "queue finding" => pc = "over")
    BY <1>10, <2>1 DEF Z!ServeFails
  <2>3. RowsTyped'
    BY <1>0, <1>10 DEF Z!ServeFails, Typed, RowsTyped
  <2> QED
    BY <1>0, <1>4, <1>5, <2>1, <2>2, <2>3, Moved
<1>11. CASE Z!QueueScan(a)
  <2>1. PICK pc \in {"queue finding", "over"} : Z!Goto(a, pc)
    BY <1>11 DEF Z!QueueScan
  <2>2. CallsTyped' /\ Made' /\ call'[a].pc = pc /\ \A b \in Answers \ {a} : call'[b] = call[b]
    BY <1>0, <2>1, Moved
  <2>3. /\ <<"scan", a>> \in Z!Jobs /\ job' = [job EXCEPT ![<<"scan", a>>] = Z!Waiting]
        /\ call[a].pc = "queue scan"
    BY <1>11 DEF Z!QueueScan, Z!Jobs, Z!Kinds, Z!At
  <2>4. JobsTyped' /\ \A i \in Z!Jobs \ {<<"scan", a>>} : job'[i] = job[i]
    BY <2>3, Queued
  <2>5. RowsTyped'
    BY <1>0, <1>11 DEF Z!QueueScan, Typed, RowsTyped
  <2>6. Unqueued'
    <3> SUFFICES ASSUME NEW b \in Answers
                 PROVE  /\ call'[b].pc # "over" => job'[<<"finding", b>>].st = "none"
                        /\ call'[b].pc \notin {"queue finding", "over"} => job'[<<"scan", b>>].st = "none"
      BY DEF Unqueued
    <3>1. CASE b = a
      BY <1>3, <2>1, <2>2, <2>3, <2>4, <3>1, JobIds
    <3>2. CASE b # a
      BY <1>0, <2>2, <2>4, <3>2, JobIds DEF Unqueued
    <3> QED
      BY <3>1, <3>2
  <2>7. \A j \in Z!Jobs : job[j].st # "none" => job'[j] = job[j]
    BY <1>3, <2>3, <2>4
  <2> QED
    BY <2>2, <2>4, <2>5, <2>6, <2>7
<1>12. CASE Z!QueueFinding(a)
  <2>1. Z!Goto(a, "over") /\ call[a].pc = "queue finding"
    BY <1>12 DEF Z!QueueFinding, Z!At
  <2>2. CallsTyped' /\ Made' /\ call'[a].pc = "over" /\ \A b \in Answers \ {a} : call'[b] = call[b]
    BY <1>0, <2>1, Moved
  <2>3. <<"finding", a>> \in Z!Jobs /\ job' = [job EXCEPT ![<<"finding", a>>] = Z!Waiting]
    BY <1>12 DEF Z!QueueFinding, Z!Jobs, Z!Kinds
  <2>4. JobsTyped' /\ \A i \in Z!Jobs \ {<<"finding", a>>} : job'[i] = job[i]
    BY <2>3, Queued
  <2>5. RowsTyped'
    BY <1>0, <1>12 DEF Z!QueueFinding, Typed, RowsTyped
  <2>6. Unqueued'
    <3> SUFFICES ASSUME NEW b \in Answers
                 PROVE  /\ call'[b].pc # "over" => job'[<<"finding", b>>].st = "none"
                        /\ call'[b].pc \notin {"queue finding", "over"} => job'[<<"scan", b>>].st = "none"
      BY DEF Unqueued
    <3>1. CASE b = a
      BY <1>3, <2>1, <2>2, <2>3, <2>4, <3>1, JobIds
    <3>2. CASE b # a
      BY <1>0, <2>2, <2>4, <3>2, JobIds DEF Unqueued
    <3> QED
      BY <3>1, <3>2
  <2>7. \A j \in Z!Jobs : job[j].st # "none" => job'[j] = job[j]
    BY <1>3, <2>1, <2>3, <2>4
  <2> QED
    BY <2>2, <2>4, <2>5, <2>6, <2>7
<1> QED
  BY <1>6, <1>7, <1>8, <1>9, <1>10, <1>11, <1>12 DEF Z!Serve

-----------------------------------------------------------------------------
(* The worker *)

(* A step of slot w may do anything to the job it holds and to its own slot.   *)
LEMMA OneRunKept ==
  ASSUME SecurityInv, NEW w \in Slots, beside \subseteq beside',
         \A v \in Slots \ {w} : slot'[v] = slot[v],
         slot'[w].pc # "free" /\ slot'[w].j \notin beside' =>
           job'[slot'[w].j].st = "active" /\ job'[slot'[w].j].by = w,
         \A j \in Z!Jobs : job'[j] = job[j] \/ job[j].by = w \/ job[j].st # "active" \/ j \in beside'
  PROVE  OneRun'
<1> SUFFICES ASSUME NEW v \in Slots \ {w}, slot[v].pc # "free", slot[v].j \notin beside'
             PROVE  job'[slot[v].j].st = "active" /\ job'[slot[v].j].by = v
  BY DEF OneRun
<1>1. slot[v].j \in Z!Jobs /\ job[slot[v].j].st = "active" /\ job[slot[v].j].by = v
  BY DEF SecurityInv, OneRun, Occupied
<1> QED
  BY <1>1

(* A slot that is free again, whatever became of its job.                      *)
LEMMA Freed ==
  ASSUME SecurityInv, NEW w \in Slots, Z!Run(w, Z!Free), UNCHANGED <<raised, beside>>,
         \A j \in Z!Jobs : job[j].st # "none" => job'[j].st # "none"
  PROVE  /\ SlotsTyped' /\ Occupied' /\ SeesOwn' /\ Once'
         /\ slot'[w].pc = "free" /\ \A v \in Slots \ {w} : slot'[v] = slot[v]
<1>0. slot \in [Slots -> SlotType]
  BY DEF SecurityInv, Typed, SlotsTyped
<1>1. SlotsTyped'
  BY <1>0 DEF Z!Run, SlotsTyped, Z!Free, SlotType
<1>2. slot'[w] = Z!Free /\ Z!Free.pc = "free" /\ \A v \in Slots \ {w} : slot'[v] = slot[v]
  BY <1>0 DEF Z!Run, Z!Free
<1>3. Occupied'
  BY <1>2 DEF SecurityInv, Occupied
<1>4. SeesOwn'
  BY <1>2 DEF SecurityInv, SeesOwn
<1>5. Once'
  BY DEF SecurityInv, Once
<1> QED
  BY <1>1, <1>2, <1>3, <1>4, <1>5

(* What Keep does to the queue.                                                *)
LEMMA Kept ==
  ASSUME SecurityInv, NEW w \in Slots, slot[w].j \in Z!Jobs, Z!Keep(w)
  PROVE  /\ JobsTyped' /\ \A j \in Z!Jobs : job'[j] = job[j] \/ (j = slot[w].j /\ Z!Holds(w))
         /\ \A j \in Z!Jobs : job[j].st # "none" => job'[j].st # "none"
<1>0. job \in [Z!Jobs -> JobType]
  BY DEF SecurityInv, Typed, JobsTyped
<1>1. CASE Z!Holds(w)
  <2>1. job' = [job EXCEPT ![slot[w].j] = [job[slot[w].j] EXCEPT !.st = "kept", !.by = None]]
    BY <1>1 DEF Z!Keep
  <2> DEFINE done == [job[slot[w].j] EXCEPT !.st = "kept", !.by = None]
  <2>2. done \in JobType /\ done.st = "kept"
    BY <1>0 DEF JobType
  <2> HIDE DEF done
  <2>3. job' = [job EXCEPT ![slot[w].j] = done]
    BY <2>1 DEF done
  <2> QED
    BY <1>0, <1>1, <2>2, <2>3 DEF JobsTyped
<1>2. CASE ~Z!Holds(w)
  <2>1. job' = job
    BY <1>2 DEF Z!Keep
  <2> QED
    BY <1>0, <2>1 DEF JobsTyped
<1> QED
  BY <1>1, <1>2

LEMMA TakeAct == ASSUME SecurityInv, NEW w \in Slots, Z!Take(w) PROVE SecurityInv'
<1>0. job \in [Z!Jobs -> JobType] /\ slot \in [Slots -> SlotType] /\ Typed
  BY DEF SecurityInv, Typed, JobsTyped, SlotsTyped
<1>1. PICK j \in Z!Jobs : /\ job[j].st = "waiting"
                        /\ job' = [job EXCEPT ![j].st = "active", ![j].by = w]
                        /\ Z!Run(w, [pc |-> "read", j |-> j, sees |-> {}])
  BY DEF Z!Take
<1>2. UNCHANGED <<Z!workerRest, raised, beside, faults, cut>>
  BY DEF Z!Take
<1>3. /\ JobsTyped' /\ job'[j].st = "active" /\ job'[j].by = w
      /\ \A i \in Z!Jobs \ {j} : job'[i] = job[i]
  BY <1>0, <1>1 DEF JobsTyped, JobType
<1>4. /\ SlotsTyped' /\ slot'[w] = [pc |-> "read", j |-> j, sees |-> {}]
      /\ \A v \in Slots \ {w} : slot'[v] = slot[v]
  BY <1>0, <1>1 DEF SlotsTyped, SlotType, Z!Run
<1>9. slot'[w].pc = "read" /\ slot'[w].j = j
  BY <1>4
<1>5. Occupied'
  <2> SUFFICES ASSUME NEW v \in Slots
               PROVE  IF slot'[v].pc = "free" THEN slot'[v] = Z!Free
                      ELSE slot'[v].j \in Z!Jobs /\ job'[slot'[v].j].st # "none"
    BY DEF Occupied
  <2>1. CASE v = w
    BY <1>3, <1>9, <2>1
  <2>2. CASE v # w
    BY <1>3, <1>4, <2>2 DEF SecurityInv, Occupied
  <2> QED
    BY <2>1, <2>2
<1>6. OneRun'
  <2>1. \A i \in Z!Jobs : job'[i] = job[i] \/ job[i].st # "active"
    BY <1>1, <1>3
  <2>2. beside \subseteq beside'
    BY <1>2
  <2> QED
    BY <1>3, <1>4, <1>9, <2>1, <2>2, OneRunKept
<1>7. SeesOwn'
  BY <1>2, <1>4 DEF SecurityInv, SeesOwn
<1>8. AlertsTyped' /\ FaultsTyped' /\ Once'
  BY <1>0, <1>2 DEF SecurityInv, Typed, AlertsTyped, FaultsTyped, Once
<1> QED
  BY <1>1, <1>2, <1>3, <1>4, <1>5, <1>6, <1>7, <1>8, BackStep

LEMMA ReadAct == ASSUME SecurityInv, NEW w \in Slots, Z!Read(w) PROVE SecurityInv'
<1>0. slot \in [Slots -> SlotType] /\ Typed /\ slot[w].pc = "read"
  BY DEF SecurityInv, Typed, SlotsTyped, Z!Read
<1>1. UNCHANGED <<Z!workerRest, job, raised, beside, faults, cut>>
  BY DEF Z!Read
<1>2. slot[w].j \in Z!Jobs /\ job[slot[w].j].st # "none" /\ Z!Of(w) \in Answers
  BY <1>0 DEF SecurityInv, Occupied, Z!Of, Z!Jobs
<1>3. Z!ToAlert(Z!Kind(w), Z!Of(w)) \in SUBSET Answers
  BY <1>2 DEF Z!ToAlert
<1>4. /\ SlotsTyped' /\ slot'[w] = [slot[w] EXCEPT !.pc = "alert", !.sees = Z!ToAlert(Z!Kind(w), Z!Of(w))]
      /\ \A v \in Slots \ {w} : slot'[v] = slot[v]
  BY <1>0, <1>3 DEF Z!Read, Z!Run, SlotsTyped, SlotType
<1>5. slot'[w].pc = "alert" /\ slot'[w].j = slot[w].j /\ slot'[w].sees = Z!ToAlert(Z!Kind(w), Z!Of(w))
  BY <1>0, <1>4 DEF SlotType
<1>6. Occupied'
  <2>1. \A v \in Slots : slot'[v].pc = "free" => slot'[v] = slot[v]
    BY <1>4, <1>5
  <2>2. \A v \in Slots : slot'[v].pc # "free" => slot[v].pc # "free" /\ slot'[v].j = slot[v].j
    BY <1>0, <1>4, <1>5
  <2> QED
    BY <1>1, <2>1, <2>2 DEF SecurityInv, Occupied
<1>7. OneRun'
  <2>1. \A v \in Slots : slot'[v].pc # "free" => slot[v].pc # "free" /\ slot'[v].j = slot[v].j
    BY <1>0, <1>4, <1>5
  <2> QED
    BY <1>1, <2>1 DEF SecurityInv, OneRun
<1>8. SeesOwn'
  <2> SUFFICES ASSUME NEW v \in Slots, NEW a \in Answers, slot'[v].pc = "alert", slot'[v].j = <<"finding", a>>
               PROVE  /\ slot'[v].sees \subseteq {a}
                      /\ slot'[v].sees # {} /\ slot'[v].j \notin beside' => raised'[slot'[v].j] = 0
    BY DEF SeesOwn
  <2>1. CASE v # w
    BY <1>1, <1>4, <2>1 DEF SecurityInv, SeesOwn
  <2>2. CASE v = w
    <3>1. Z!Kind(w) = "finding" /\ Z!Of(w) = a /\ slot[w].j = <<"finding", a>>
      BY <1>5, <2>2 DEF Z!Kind, Z!Of
    <3>2. slot'[w].sees = IF raised[<<"finding", a>>] > 0 THEN {} ELSE {a}
      BY <1>5, <3>1 DEF Z!ToAlert
    <3>3. raised[<<"finding", a>>] \in Nat
      BY <1>0, JobIds DEF Typed, AlertsTyped
    <3> QED
      BY <1>1, <1>5, <2>2, <3>1, <3>2, <3>3
  <2> QED
    BY <2>1, <2>2
<1>9. AlertsTyped' /\ FaultsTyped' /\ JobsTyped' /\ Once'
  BY <1>0, <1>1 DEF SecurityInv, Typed, AlertsTyped, FaultsTyped, JobsTyped, Once
<1> QED
  BY <1>1, <1>4, <1>6, <1>7, <1>8, <1>9, BackStep

LEMMA RaiseAct == ASSUME SecurityInv, NEW w \in Slots, Z!Raise(w) PROVE SecurityInv'
<1>0. slot \in [Slots -> SlotType] /\ Typed /\ slot[w].pc = "alert" /\ raised \in [Z!Jobs -> Nat]
  BY DEF SecurityInv, Typed, SlotsTyped, Z!Raise, AlertsTyped
<1>1. UNCHANGED <<Z!workerRest, job, beside, faults, cut>>
  BY DEF Z!Raise
<1>2. PICK a \in slot[w].sees : /\ raised' = [raised EXCEPT ![<<Z!Kind(w), a>>] = @ + 1]
                                /\ Z!Run(w, [slot[w] EXCEPT !.sees = @ \ {a}])
  BY DEF Z!Raise
<1>3. slot[w].j \in Z!Jobs /\ job[slot[w].j].st # "none" /\ Z!Kind(w) \in Z!Kinds /\ a \in Answers
  BY <1>0, <1>2 DEF SecurityInv, Occupied, Z!Kind, Z!Jobs, SlotType
<1>4. <<Z!Kind(w), a>> \in Z!Jobs
  BY <1>3 DEF Z!Jobs
<1>5. /\ raised' \in [Z!Jobs -> Nat] /\ raised'[<<Z!Kind(w), a>>] = raised[<<Z!Kind(w), a>>] + 1
      /\ \A j \in Z!Jobs \ {<<Z!Kind(w), a>>} : raised'[j] = raised[j]
  BY <1>0, <1>2, <1>4
<1>6. /\ SlotsTyped' /\ slot'[w].pc = "alert" /\ slot'[w].j = slot[w].j
      /\ slot'[w].sees = slot[w].sees \ {a} /\ \A v \in Slots \ {w} : slot'[v] = slot[v]
  BY <1>0, <1>2 DEF Z!Run, SlotsTyped, SlotType
<1>7. ASSUME NEW b \in Answers, <<Z!Kind(w), a>> = <<"finding", b>>
      PROVE  slot[w].j = <<"finding", b>>
  <2>1. Z!Kind(w) = "finding" /\ a = b
    BY <1>7
  <2>2. slot[w].j = <<"finding", Z!Of(w)>> /\ Z!Of(w) \in Answers
    BY <1>3, <2>1 DEF Z!Kind, Z!Of, Z!Jobs
  <2>3. slot[w].sees \subseteq {Z!Of(w)}
    BY <1>0, <2>2 DEF SecurityInv, SeesOwn
  <2> QED
    BY <1>2, <2>1, <2>2, <2>3
<1>8. Occupied' /\ OneRun'
  BY <1>0, <1>1, <1>3, <1>6 DEF SecurityInv, Occupied, OneRun
<1>9. SeesOwn'
  <2> SUFFICES ASSUME NEW v \in Slots, NEW b \in Answers, slot'[v].pc = "alert", slot'[v].j = <<"finding", b>>
               PROVE  /\ slot'[v].sees \subseteq {b}
                      /\ slot'[v].sees # {} /\ slot'[v].j \notin beside' => raised'[slot'[v].j] = 0
    BY DEF SeesOwn
  <2>1. CASE v = w
    <3>1. slot[w].sees \subseteq {b}
      BY <1>0, <1>6, <2>1 DEF SecurityInv, SeesOwn
    <3>2. slot'[w].sees = {}
      BY <1>2, <1>6, <3>1
    <3> QED
      BY <2>1, <3>2
  <2>2. CASE v # w
    <3>1. slot'[v] = slot[v]
      BY <1>6, <2>2
    <3>2. CASE <<Z!Kind(w), a>> = <<"finding", b>>
      <4>1. slot[w].j = slot[v].j
        BY <1>7, <3>1, <3>2
      <4>2. slot[v].j \in beside
        BY <1>0, <2>2, <3>1, <4>1 DEF SecurityInv, OneRun
      <4> QED
        BY <1>1, <3>1, <4>2 DEF SecurityInv, SeesOwn
    <3>3. CASE <<Z!Kind(w), a>> # <<"finding", b>>
      <4>1. raised'[<<"finding", b>>] = raised[<<"finding", b>>]
        BY <1>5, <3>3, JobIds
      <4> QED
        BY <1>1, <3>1, <4>1 DEF SecurityInv, SeesOwn
    <3> QED
      BY <3>2, <3>3
  <2> QED
    BY <2>1, <2>2
<1>10. Once'
  <2> SUFFICES ASSUME NEW b \in Answers, <<"finding", b>> \notin beside
               PROVE  ~(raised'[<<"finding", b>>] > 1)
    BY <1>1 DEF Once
  <2>1. CASE <<Z!Kind(w), a>> = <<"finding", b>>
    <3>1. raised[<<"finding", b>>] = 0
      BY <1>0, <1>2, <1>7, <2>1 DEF SecurityInv, SeesOwn
    <3> QED
      BY <1>5, <2>1, <3>1
  <2>2. CASE <<Z!Kind(w), a>> # <<"finding", b>>
    BY <1>5, <2>2, JobIds DEF SecurityInv, Once
  <2> QED
    BY <2>1, <2>2
<1>11. AlertsTyped' /\ FaultsTyped' /\ JobsTyped'
  BY <1>0, <1>1, <1>5 DEF Typed, AlertsTyped, FaultsTyped, JobsTyped
<1> QED
  BY <1>1, <1>6, <1>8, <1>9, <1>10, <1>11, BackStep

(* The job of slot w ends or waits again, and the slot is free.                *)
LEMMA LeaveStep ==
  ASSUME SecurityInv, NEW w \in Slots, slot[w].pc # "free", Z!Run(w, Z!Free), FaultsTyped', JobsTyped',
         cut' \in SUBSET Answers, UNCHANGED <<Z!workerRest, raised, beside>>,
         \A j \in Z!Jobs : job'[j] = job[j] \/ (j = slot[w].j /\ Z!Holds(w)),
         \A j \in Z!Jobs : job[j].st # "none" => job'[j].st # "none"
  PROVE  SecurityInv'
<1>1. /\ SlotsTyped' /\ Occupied' /\ SeesOwn' /\ Once'
      /\ slot'[w].pc = "free" /\ \A v \in Slots \ {w} : slot'[v] = slot[v]
  BY Freed
<1>2. OneRun'
  BY <1>1, OneRunKept DEF Z!Holds
<1>3. AlertsTyped'
  BY DEF SecurityInv, Typed, AlertsTyped
<1>4. \A j \in Z!Jobs : job[j].st = "none" => job'[j].st = "none"
  BY DEF SecurityInv, Occupied
<1> QED
  BY <1>1, <1>2, <1>3, <1>4, BackStep

LEMMA FinishAct == ASSUME SecurityInv, NEW w \in Slots, Z!Finish(w) PROVE SecurityInv'
<1>1. slot[w].pc = "alert" /\ slot[w].j \in Z!Jobs
  BY DEF SecurityInv, Z!Finish, Occupied
<1>2. FaultsTyped' /\ cut' \in SUBSET Answers
  BY DEF SecurityInv, Typed, FaultsTyped, AlertsTyped, Z!Finish
<1> QED
  BY <1>1, <1>2, Kept, LeaveStep DEF Z!Finish

(* A job that is to run again.                                                 *)
LEMMA Again ==
  ASSUME SecurityInv, NEW w \in Slots, slot[w].j \in Z!Jobs, NEW next \in JobType, next.st = "waiting",
         job' = [job EXCEPT ![slot[w].j] = next], Z!Holds(w)
  PROVE  /\ JobsTyped' /\ \A j \in Z!Jobs : job'[j] = job[j] \/ (j = slot[w].j /\ Z!Holds(w))
         /\ \A j \in Z!Jobs : job[j].st # "none" => job'[j].st # "none"
BY DEF SecurityInv, Typed, JobsTyped

LEMMA ThrowAct == ASSUME Bounds, SecurityInv, NEW w \in Slots, Z!Throw(w) PROVE SecurityInv'
<1>1. /\ slot[w].pc # "free" /\ slot[w].j \in Z!Jobs /\ slot[w].j[2] \in Answers
      /\ job[slot[w].j] \in JobType
  BY DEF SecurityInv, Z!Throw, Occupied, Z!Free, Z!Jobs, Typed, JobsTyped
<1>2. FaultsTyped'
  BY Failed DEF Z!Throw
<1>3. Z!Run(w, Z!Free) /\ Z!Holds(w) /\ UNCHANGED <<Z!workerRest, raised, beside>>
  BY DEF Z!Throw
<1>4. cut' \in SUBSET Answers
  BY <1>1 DEF Z!Throw, SecurityInv, Typed, AlertsTyped
<1> DEFINE t == job[slot[w].j].throws + 1
           next == [job[slot[w].j] EXCEPT !.st = "waiting", !.by = None, !.throws = t]
<1>5. CASE t < Attempts
  <2>0. job[slot[w].j].throws \in 0..Attempts /\ Attempts \in Nat
    BY <1>1 DEF Bounds, JobType
  <2>1. t \in 0..Attempts
    BY <1>5, <2>0
  <2>2. job' = [job EXCEPT ![slot[w].j] = next]
    <3>1. job[slot[w].j].throws + 1 < Attempts
      BY <1>5
    <3>2. job' = [job EXCEPT ![slot[w].j].st = "waiting", ![slot[w].j].by = None, ![slot[w].j].throws = @ + 1]
      BY <3>1 DEF Z!Throw
    <3>3. job \in [Z!Jobs -> JobType]
      BY DEF SecurityInv, Typed, JobsTyped
    <3> QED
      BY <1>1, <3>2, <3>3 DEF JobType
  <2> HIDE DEF t
  <2>3. next \in JobType /\ next.st = "waiting"
    BY <1>1, <2>1 DEF JobType
  <2> HIDE DEF next
  <2> QED
    BY <1>1, <1>2, <1>3, <1>4, <2>2, <2>3, Again, LeaveStep
<1>6. CASE ~(t < Attempts)
  <2>1. Z!Keep(w)
    BY <1>6 DEF Z!Throw
  <2> QED
    BY <1>1, <1>2, <1>3, <1>4, <2>1, Kept, LeaveStep
<1> QED
  BY <1>5, <1>6

LEMMA StallAct == ASSUME Bounds, SecurityInv, NEW w \in Slots, NEW dead \in BOOLEAN, Z!Stall(w, dead) PROVE SecurityInv'
<1>1. /\ slot[w].pc # "free" /\ slot[w].j \in Z!Jobs /\ slot[w].j[2] \in Answers
      /\ job[slot[w].j] \in JobType
  BY DEF SecurityInv, Z!Stall, Occupied, Z!Free, Z!Jobs, Typed, JobsTyped
<1>2. FaultsTyped' /\ Z!Holds(w) /\ UNCHANGED <<Z!workerRest, raised>>
  BY Failed DEF Z!Stall
<1>3. cut' \in SUBSET Answers
  BY <1>1 DEF Z!Stall, SecurityInv, Typed, AlertsTyped
<1>4. /\ JobsTyped' /\ \A j \in Z!Jobs : job'[j] = job[j] \/ (j = slot[w].j /\ Z!Holds(w))
      /\ \A j \in Z!Jobs : job[j].st # "none" => job'[j].st # "none"
  <2> DEFINE next == [job[slot[w].j] EXCEPT !.st = "waiting", !.by = None, !.stalled = TRUE]
  <2>1. CASE job[slot[w].j].stalled
    BY <1>1, <2>1, Kept DEF Z!Stall
  <2>2. CASE ~job[slot[w].j].stalled
    <3>1. job' = [job EXCEPT ![slot[w].j] = next]
      BY <2>2 DEF Z!Stall
    <3>2. next \in JobType /\ next.st = "waiting"
      BY <1>1 DEF JobType
    <3> HIDE DEF next
    <3> QED
      BY <1>1, <1>2, <3>1, <3>2, Again
  <2> QED
    BY <2>1, <2>2
<1>5. CASE dead
  <2>1. Z!Run(w, Z!Free) /\ beside' = beside
    BY <1>5 DEF Z!Stall, Z!Run
  <2> QED
    BY <1>1, <1>2, <1>3, <1>4, <2>1, LeaveStep
<1>6. CASE ~dead
  <2>1. slot' = slot /\ beside' = beside \cup {slot[w].j}
    BY <1>6 DEF Z!Stall
  <2>2. SlotsTyped' /\ AlertsTyped'
    BY <1>1, <1>2, <1>3, <2>1 DEF SecurityInv, Typed, SlotsTyped, AlertsTyped
  <2>3. Occupied'
    BY <1>4, <2>1 DEF SecurityInv, Occupied
  <2>4. OneRun'
    BY <1>4, <2>1 DEF SecurityInv, OneRun, Occupied
  <2>5. SeesOwn' /\ Once'
    BY <1>2, <2>1 DEF SecurityInv, SeesOwn, Once
  <2>6. \A j \in Z!Jobs : job[j].st = "none" => job'[j].st = "none"
    BY <1>1, <1>4 DEF SecurityInv, Occupied
  <2> QED
    BY <1>2, <1>4, <2>2, <2>3, <2>4, <2>5, <2>6, BackStep
<1> QED
  BY <1>5, <1>6

LEMMA SecurityStepwise == ASSUME Bounds, SecurityInv, [Z!Next]_(Z!vars) PROVE SecurityInv'
<1>1. CASE UNCHANGED Z!vars
  BY <1>1 DEF Z!vars, Z!agentVars, Z!gatewayVars, Z!workerVars, SecurityInv, Typed, RowsTyped,
     CallsTyped, JobsTyped,
     SlotsTyped, AlertsTyped, FaultsTyped, Made, Occupied, OneRun, Unqueued, SeesOwn, Once
<1>2. CASE Z!Next
  BY <1>2, FrontAct, AnswerAct, ServeAct, TakeAct, ReadAct, RaiseAct, FinishAct, ThrowAct, StallAct
  DEF Z!Next, Z!Work
<1> QED
  BY <1>1, <1>2

LEMMA SecurityInvariant == ASSUME Bounds PROVE Z!Spec => []SecurityInv
BY SecurityInitially, SecurityStepwise, PTL DEF Z!Spec

(* Types of the scans, the answers, the queue and its slots, for any scans,  *)
(* requests, answers, slots and bounds.                                      *)
THEOREM SecurityTypeCorrect == ASSUME Bounds PROVE Z!Spec => []Z!TypeOK
<1>1. SecurityInv => Z!TypeOK
  BY TypedIsTypeOK DEF SecurityInv
<1> QED
  BY <1>1, SecurityInvariant, PTL

(* However often its job throws, stalls or loses its worker, a finding is    *)
(* alerted once by it (processors.ts:871), unless one run went on beside the *)
(* next.                                                                     *)
THEOREM FindingAlertedByOneRun == ASSUME Bounds PROVE Z!Spec => []FindingAlertedOnce
<1>1. SecurityInv => FindingAlertedOnce
  BY JobIds DEF SecurityInv, Typed, AlertsTyped, Once, FindingAlertedOnce, Z!Jobs, Z!Kinds
<1> QED
  BY <1>1, SecurityInvariant, PTL

=============================================================================

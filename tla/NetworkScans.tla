---------------------------- MODULE NetworkScans ----------------------------
(* The network discovery scans of one organization: users ask a device, or    *)
(* any device, for a scan; agents poll, which also fails the scans older than *)
(* three minutes, report "running", scan for at most 60 s and report the      *)
(* result or an error.  A call whose guard and ownership check passed is      *)
(* "read", then "ok"; a refused one is an "error".  The agent gives up after  *)
(* 30 s, and what it gave up on may still be served late.                     *)
EXTENDS Integers, FiniteSets

CONSTANTS
  Scans,      \* scan ids, numbered in the order of creation
  Devices,    \* devices whose agents do discovery
  Anyone,        \* the target of a scan asked of no device in particular
  Openers,    \* requests of users that ask for a scan
  MaxFaults,  \* bound: calls given up, crashes and restarts in a behaviour
  None

VARIABLES
  scan,     \* of each id: status and the device it is asked of
  opening,  \* of each request: None, or its target once it found no open scan,
            \* and whether a scan has opened since
  aged,     \* the scans up to this one are older than three minutes
  listing,  \* devices whose poll is between its cleanup and its list
  todo,     \* of each device: the scans of its last poll still to do
  call,     \* of each device: its call under way, or None
  late,     \* calls given up that may still be served
  revoked,  \* devices whose credential is revoked
  faults

vars == <<scan, opening, aged, listing, todo, call, late, revoked, faults>>

Targets == Devices \cup {Anyone}
Statuses == {"none", "pending", "running", "completed", "failed"}
Ops == {"running", "completed", "failed"}

Init ==
  /\ scan = [s \in Scans |-> [status |-> "none", target |-> Anyone]]
  /\ opening = [o \in Openers |-> None]
  /\ aged = 0
  /\ todo = [d \in Devices |-> {}] /\ call = [d \in Devices |-> None]
  /\ late = {} /\ revoked = {} /\ listing = {} /\ faults = 0

Open == {s \in Scans : scan[s].status \in {"pending", "running"}}
Held == (UNION {todo[d] : d \in Devices}) \cup {c.s : c \in late}

Failing(S) == [s \in Scans |-> IF s \in S THEN [scan[s] EXCEPT !.status = "failed"] ELSE scan[s]]

(* The open scans a new one for target t would join: those of t, all for Anyone. *)
Joins(t) == {s \in Open : t = Anyone \/ scan[s].target = t}

Outrun(o) == IF opening[o] = None THEN None ELSE [opening[o] EXCEPT !.raced = TRUE]

-----------------------------------------------------------------------------
(* Users. *)

(* Mutant of FindOpen: a scan that runs is not found. *)
FindPending(o, t) ==
  /\ opening[o] = None /\ \A s \in Joins(t) : scan[s].status # "pending"
  /\ opening' = [opening EXCEPT ![o] = [target |-> t, raced |-> FALSE]]
  /\ UNCHANGED <<scan, aged, listing, todo, call, late, revoked, faults>>

FindOpen(o, t) ==
  /\ opening[o] = None /\ Joins(t) = {}
  /\ opening' = [opening EXCEPT ![o] = [target |-> t, raced |-> FALSE]]
  /\ UNCHANGED <<scan, aged, listing, todo, call, late, revoked, faults>>

Create(o) ==
  /\ opening[o] # None
  /\ \E s \in Scans :
       /\ scan[s].status = "none" /\ \A r \in Scans : r < s => scan[r].status # "none"
       /\ scan' = [scan EXCEPT ![s] = [status |-> "pending", target |-> opening[o].target]]
  /\ opening' = [p \in Openers |-> IF p = o THEN None ELSE Outrun(p)]
  /\ UNCHANGED <<aged, listing, todo, call, late, revoked, faults>>

Revoke(d) ==
  /\ revoked' = revoked \cup {d}
  /\ scan' = Failing({s \in Open : scan[s].target = d})
  /\ UNCHANGED <<opening, aged, listing, todo, call, late, faults>>

Reenroll(d) ==
  /\ d \in revoked /\ revoked' = revoked \ {d}
  /\ UNCHANGED <<scan, opening, aged, listing, todo, call, late, faults>>

(* Time passes over the oldest scan that is still young. *)
Age ==
  /\ \E s \in Scans : s > aged /\ scan[s].status # "none"
  /\ aged' = aged + 1
  /\ UNCHANGED <<scan, opening, listing, todo, call, late, revoked, faults>>

-----------------------------------------------------------------------------
(* The gateway's side of a call c of device d. *)

(* DeviceTokenGuard and getScanForDevice. *)
Admitted(d, s) == d \notin revoked /\ scan[s].target \in {d, Anyone}

(* updateDiscoveryStatus: by id, whatever the status.  A result also upserts  *)
(* the devices found and adds a scan row of its own, which nothing here reads. *)
Written(c) == [scan EXCEPT ![c.s].status = c.op]

Reopening(c) ==
  opening' = IF c.s \notin Open /\ c.op = "running"
               THEN [o \in Openers |-> Outrun(o)] ELSE opening

Apply(d) ==
  /\ call[d] # None /\ call[d].stage = "read"
  /\ scan' = Written(call[d]) /\ Reopening(call[d])
  /\ call' = [call EXCEPT ![d].stage = "ok"]
  /\ UNCHANGED <<aged, listing, todo, late, revoked, faults>>

ApplyLate(c) ==
  /\ scan' = Written(c) /\ Reopening(c)
  /\ late' = late \ {c}
  /\ UNCHANGED <<aged, listing, todo, call, revoked, faults>>

GatewayRestart ==
  /\ faults < MaxFaults /\ faults' = faults + 1
  /\ opening' = [o \in Openers |-> None]
  /\ late' = {} /\ listing' = {}
  /\ call' = [d \in Devices |-> IF call[d] = None THEN None ELSE [call[d] EXCEPT !.stage = "error"]]
  /\ UNCHANGED <<scan, aged, todo, revoked>>

-----------------------------------------------------------------------------
(* The agent of device d. *)

(* Mutants of Stale: whatever the status; only scans that nobody took. *)
StaleAny == {s \in Scans : s <= aged}
StalePending == {s \in Open : s <= aged /\ scan[s].status = "pending"}

Stale == {s \in Open : s <= aged}

(* Mutant of Listed: a scan that failed is asked again. *)
ListedAgain(d) == {s \in Scans : scan[s].status \in {"pending", "failed"} /\ scan[s].target \in {d, Anyone}}

Listed(d) == {s \in Open : scan[s].status = "pending" /\ scan[s].target \in {d, Anyone}}

(* A poll first cleans up the stale scans of the organization ...            *)
Cleanup(d) ==
  /\ call[d] = None /\ todo[d] = {} /\ d \notin listing \cup revoked
  /\ scan' = Failing(Stale)
  /\ listing' = listing \cup {d}
  /\ UNCHANGED <<opening, aged, todo, call, late, revoked, faults>>

(* ... and then lists what is pending for the device. *)
List(d) ==
  /\ d \in listing
  /\ todo' = [todo EXCEPT ![d] = Listed(d)]
  /\ listing' = listing \ {d}
  /\ UNCHANGED <<scan, opening, aged, call, late, revoked, faults>>

(* A call that will be refused is as good as answered; nothing but a         *)
(* revocation tells a call that is under way from one that was checked.      *)
Call(d, s, op) == [d |-> d, s |-> s, op |-> op,
                   stage |-> IF Admitted(d, s) THEN "read" ELSE "error"]

Start(d, s) ==
  /\ call[d] = None /\ s \in todo[d]
  /\ call' = [call EXCEPT ![d] = Call(d, s, "running")]
  /\ UNCHANGED <<scan, opening, aged, listing, todo, late, revoked, faults>>

(* After "running", however it went, the scan: it has a result, fails or      *)
(* times out.  A result that was not accepted is followed by an error report, *)
(* whose own answer is ignored.                                               *)
Proceed(d, ok) ==
  LET c == call[d] IN
    \/ /\ c.op = "running"
       /\ \E op \in {"completed", "failed"} : call' = [call EXCEPT ![d] = Call(d, c.s, op)]
       /\ todo' = todo
    \/ /\ c.op = "completed" /\ ~ok
       /\ call' = [call EXCEPT ![d] = Call(d, c.s, "failed")]
       /\ todo' = todo
    \/ /\ c.op = "failed" \/ (c.op = "completed" /\ ok)
       /\ call' = [call EXCEPT ![d] = None]
       /\ todo' = [todo EXCEPT ![d] = @ \ {c.s}]

Answered(d) ==
  /\ call[d] # None /\ call[d].stage \in {"ok", "error"}
  /\ Proceed(d, call[d].stage = "ok")
  /\ UNCHANGED <<scan, opening, aged, listing, late, revoked, faults>>

InFlight(d) == IF call[d] # None /\ call[d].stage = "read" THEN {call[d]} ELSE {}

GiveUp(d) ==
  /\ call[d] # None /\ call[d].stage # "error"
  /\ faults < MaxFaults /\ faults' = faults + 1
  /\ late' = late \cup InFlight(d)
  /\ Proceed(d, FALSE)
  /\ UNCHANGED <<scan, opening, aged, listing, revoked>>

AgentRestart(d) ==
  /\ todo[d] # {}
  /\ faults < MaxFaults /\ faults' = faults + 1
  /\ late' = late \cup InFlight(d)
  /\ todo' = [todo EXCEPT ![d] = {}] /\ call' = [call EXCEPT ![d] = None]
  /\ UNCHANGED <<scan, opening, aged, listing, revoked>>

-----------------------------------------------------------------------------
Agent(d) == Cleanup(d) \/ List(d) \/ (\E s \in Scans : Start(d, s)) \/ Apply(d) \/ Answered(d)

Next ==
  \/ \E o \in Openers : Create(o) \/ \E t \in Targets : FindOpen(o, t)
  \/ \E d \in Devices : Agent(d) \/ GiveUp(d) \/ AgentRestart(d) \/ Revoke(d) \/ Reenroll(d)
  \/ \E c \in late : ApplyLate(c)
  \/ Age \/ GatewayRestart

Spec == Init /\ [][Next]_vars

(* Agents keep polling and are answered; time passes. *)
Fairness == WF_vars(Age) /\ \A d \in Devices : WF_vars(Agent(d))

-----------------------------------------------------------------------------
CallType == [d : Devices, s : Scans, op : Ops, stage : {"read", "ok", "error"}]

(* Types of the rows and of the calls in flight. *)
TypeOK ==
  /\ scan \in [Scans -> [status : Statuses, target : Targets]]
  /\ opening \in [Openers -> [target : Targets, raced : BOOLEAN] \cup {None}]
  /\ aged \in Nat
  /\ listing \in SUBSET Devices
  /\ todo \in [Devices -> SUBSET Scans]
  /\ call \in [Devices -> CallType \cup {None}]
  /\ late \in SUBSET CallType
  /\ revoked \in SUBSET Devices
  /\ faults \in Nat

(* network.service.ts:86: a scan that is already in progress is returned, not *)
(* asked again.  A second one for a target opens only when a request was      *)
(* outrun, or an agent reports "running" on a scan it took earlier.           *)
SecondScanning ==
  \A s \in Open' \ Open : Joins(scan'[s].target) # {} =>
    \/ \E o \in Openers : opening[o] # None /\ opening[o].raced /\ opening'[o] = None
    \/ s \in Held
SecondScanOnlyByRace == [][SecondScanning]_vars

(* A completed scan is not undone by the cleanup, by a revocation or by an    *)
(* agent that is done with it: only by one that still has it in hand, which   *)
(* took it as well (no target) or never had the answer to its result.         *)
Uncompleting ==
  \A s \in Scans : scan[s].status = "completed" /\ scan'[s].status # "completed"
    => s \in Held
CompletedIsFinal == [][Uncompleting]_vars

(* If one device is left to poll, whose polls fail stale scans, every scan    *)
(* closes, even one asked of a device that never answers.                     *)
ScanCloses ==
  (\E d \in Devices : <>[](d \notin revoked)) => \A s \in Scans : []<>(s \notin Open)

Phase(v) == CASE v = "none" -> "none" [] v = "pending" -> "asked"
              [] v = "running" -> "working" [] OTHER -> "closed"
Orders == INSTANCE DeviceCommands WITH
  Commands <- Scans, phase <- [s \in Scans |-> Phase(scan[s].status)], held <- Held

(* NetworkScans implements DeviceCommands: a scan that was closed runs again  *)
(* only through an agent that listed it while it was pending.                 *)
ImplementsCommands == Orders!Spec
=============================================================================

-------------------------- MODULE DeviceEnrollment --------------------------
(* The devices of one organization: enrolment tokens, the plan's device      *)
(* limit, registration and re-registration, rotation and revocation of       *)
(* credentials (gateway), and the agents that keep a credential on disk:     *)
(* the installer, which enrols once, and the service.  One action per        *)
(* database statement and per file the agent writes.                         *)
EXTENDS Integers, FiniteSets

CONSTANTS
  Machines,   \* computers
  Identities, \* installation ids: a computer makes one for its first
              \* registration and another after a reset
  Tokens,     \* enrolment tokens
  Serviced,   \* computers where the service is installed
  MaxUses,    \* how often each token may be used
  Requests,   \* slots for registrations in flight
  Webhooks,   \* plan changes that the payment provider announces
  Limits,     \* device limits of the plans
  MaxFails,   \* rejections in a row after which a service gives up
  MaxFaults,  \* bound: time-outs, crashes and restarts in a behaviour
  None

ASSUME BoundsAssumption == MaxUses \in Nat /\ MaxFails \in Nat
ASSUME FiniteAssumption ==
  /\ IsFiniteSet(Identities) /\ IsFiniteSet(Tokens) /\ IsFiniteSet(Requests)
  /\ Limits \subseteq Nat

VARIABLES
  token,    \* of each enrolment token: its state, its uses
  device,   \* of each identity: its row (cred = 0: none), in order of "born"
  limit,    \* device limit of the organization's plan
  request,  \* registrations in flight
  webhook,  \* plan changes in progress
  agent,    \* of each machine: its installer and its service
  disk,     \* of each machine: the credential on disk (0: none), the identity,
            \* whether the device id is
  issued,   \* credentials are numbered as they are issued
  faults,
  outrun,   \* history: a write that relied on an outdated count added a device
  lapsed,   \* history: credentials that were current while not accepted
  dead      \* history: credentials that were current at a revocation

gateway == <<token, device, limit, request, webhook, issued>>
history == <<outrun, lapsed, dead>>
vars == <<gateway, agent, disk, faults, history>>

Who == {"installer", "service"}
ASSUME NoneAssumption == None \notin Who

Idle == [pc |-> "idle", op |-> "register", i |-> None, m |-> None, by |-> None, k |-> None,
         was |-> FALSE, cred |-> 0, raced |-> FALSE]
Off == [pc |-> "off", k |-> None, cred |-> 0, fails |-> 0]
NoRow == [cred |-> 0, born |-> 0, revoked |-> FALSE, inactive |-> FALSE]

Init ==
  /\ token = [k \in Tokens |-> [live |-> TRUE, used |-> 0]]
  /\ device = [i \in Identities |-> NoRow]
  /\ limit \in Limits
  /\ request = [r \in Requests |-> Idle]
  /\ webhook \in [Webhooks -> {[pc |-> "due", limit |-> n, off |-> FALSE, room |-> 0, rows |-> {}, raced |-> FALSE] : n \in Limits}]
  /\ agent = [m \in Machines |-> [a \in Who |-> Off]]
  /\ disk = [m \in Machines |-> [token |-> 0, inst |-> None, id |-> FALSE]]
  /\ issued = 0 /\ faults = 0
  /\ outrun = FALSE /\ lapsed = {} /\ dead = {}

Rows == {i \in Identities : device[i].cred # 0}
Active == {i \in Rows : ~device[i].inactive}

(* DeviceTokenGuard: the credential c is that of an active device. *)
Accepts(c) == \E i \in Active : device[i].cred = c /\ ~device[i].revoked

IsAt(r, pc) == request[r].pc = pc
Goto(r, pc) == request' = [request EXCEPT ![r].pc = pc]

(* Active devices were added: those who counted before did so in vain. *)
Counted == {"find", "read", "rotate", "clear", "create"}
Outdated(q) == [q EXCEPT !.raced = @ \/ q.pc \in Counted]
Overtaken(w) == [w EXCEPT !.raced = @ \/ w.pc \in {"find", "write"}]

-----------------------------------------------------------------------------
(* Registration: registerPublic and recoverCredential after validateToken. *)

Ask(op, i, k) == [Idle EXCEPT !.pc = "validate", !.op = op, !.i = i, !.k = k]

Usable(k) == token[k].live /\ token[k].used < MaxUses

(* validateToken reads the token, and checks again as it counts the use. *)
Validate(r) ==
  /\ IsAt(r, "validate")
  /\ Goto(r, IF Usable(request[r].k) THEN "consume" ELSE "refused")
  /\ UNCHANGED <<token, device, limit, webhook, issued, agent, disk, faults, history>>

(* Mutant of Consume: the update is by tokenHash only. *)
ConsumeUnchecked(r) ==
  /\ IsAt(r, "consume")
  /\ token' = [token EXCEPT ![request[r].k].used = @ + 1]
  /\ Goto(r, IF request[r].op = "recover" THEN "find" ELSE "count")
  /\ UNCHANGED <<device, limit, webhook, issued, agent, disk, faults, history>>

Consume(r) ==
  /\ IsAt(r, "consume")
  /\ LET k == request[r].k IN
       IF Usable(k)
         THEN /\ token' = [token EXCEPT ![k].used = @ + 1]
              /\ Goto(r, IF request[r].op = "recover" THEN "find" ELSE "count")
         ELSE token' = token /\ Goto(r, "refused")
  /\ UNCHANGED <<device, limit, webhook, issued, agent, disk, faults, history>>

(* Mutant of Count: the limit is for new devices. *)
CountNew(r) ==
  /\ IsAt(r, "count")
  /\ Goto(r, IF request[r].i \in Rows \/ Cardinality(Active) < limit THEN "find" ELSE "refused")
  /\ UNCHANGED <<token, device, limit, webhook, issued, agent, disk, faults, history>>

(* The limit is for every registration, that of a known device included, and  *)
(* the use of the token is spent all the same.                               *)
Count(r) ==
  /\ IsAt(r, "count")
  /\ Goto(r, IF Cardinality(Active) < limit THEN "find" ELSE "refused")
  /\ UNCHANGED <<token, device, limit, webhook, issued, agent, disk, faults, history>>

(* By identity: a recovery rotates whatever it finds, and creates nothing. *)
Find(r) ==
  /\ IsAt(r, "find")
  /\ Goto(r, LET known == request[r].i \in Rows IN
               IF request[r].op = "recover" THEN IF known THEN "rotate" ELSE "refused"
               ELSE IF known THEN "read" ELSE "create")
  /\ UNCHANGED <<token, device, limit, webhook, issued, agent, disk, faults, history>>

Read(r) ==
  /\ IsAt(r, "read")
  /\ request' = [request EXCEPT ![r].pc = "rotate", ![r].was = device[request[r].i].revoked]
  /\ UNCHANGED <<token, device, limit, webhook, issued, agent, disk, faults, history>>

(* Mutant of Rotate: a credential that exists is handed out again. *)
RotateKept(r) ==
  /\ IsAt(r, "rotate")
  /\ request' = [request EXCEPT ![r].pc = IF request[r].was THEN "clear" ELSE "done",
                                ![r].cred = device[request[r].i].cred]
  /\ UNCHANGED <<token, device, limit, webhook, issued, agent, disk, faults, history>>

Rotate(r) ==
  /\ IsAt(r, "rotate")
  /\ LET q == request[r]  d == device[q.i]  c == issued + 1 IN
       /\ issued' = c
       /\ device' = [device EXCEPT ![q.i].cred = c]
       /\ request' = [request EXCEPT ![r].pc = IF q.was THEN "clear" ELSE "done", ![r].cred = c]
       /\ lapsed' = IF d.revoked \/ d.inactive THEN lapsed \cup {c} ELSE lapsed
  /\ UNCHANGED <<token, limit, webhook, agent, disk, faults, outrun, dead>>

(* A device joins the active ones by the write of r, whose request goes on. *)
Joining(r, pc, c) ==
  /\ request' = [q \in Requests |->
       IF q = r THEN [request[r] EXCEPT !.pc = pc, !.cred = c] ELSE Outdated(request[q])]
  /\ webhook' = [w \in Webhooks |-> Overtaken(webhook[w])]
  /\ outrun' = (outrun \/ request[r].raced)

(* Mutant of Clear: revokedAt stays. *)
ClearInactive(r) ==
  /\ IsAt(r, "clear")
  /\ device' = [device EXCEPT ![request[r].i].inactive = FALSE]
  /\ Joining(r, "done", request[r].cred)
  /\ UNCHANGED <<token, limit, issued, agent, disk, faults, lapsed, dead>>

(* Re-enrolment reactivates a device that was revoked when it was read. *)
Clear(r) ==
  /\ IsAt(r, "clear")
  /\ device' = [device EXCEPT ![request[r].i] = [@ EXCEPT !.revoked = FALSE, !.inactive = FALSE]]
  /\ Joining(r, "done", request[r].cred)
  /\ UNCHANGED <<token, limit, issued, agent, disk, faults, lapsed, dead>>

(* The identity is unique: who comes second adopts the row of the first. *)
Create(r) ==
  /\ IsAt(r, "create")
  /\ LET i == request[r].i  c == issued + 1 IN
       IF i \in Rows
         THEN Goto(r, "read") /\ UNCHANGED <<device, issued, webhook, outrun>>
         ELSE /\ issued' = c
              /\ device' = [device EXCEPT ![i] = [NoRow EXCEPT !.cred = c, !.born = c]]
              /\ Joining(r, "done", c)
  /\ UNCHANGED <<token, limit, agent, disk, faults, lapsed, dead>>

Gateway(r) ==
  Validate(r) \/ Consume(r) \/ Count(r) \/ Find(r) \/ Read(r) \/ Rotate(r) \/ Clear(r) \/ Create(r)

(* An answer that nobody waits for any more; recoveries are not the agent's. *)
Forget(r) ==
  /\ request[r].pc \in {"done", "refused"} /\ request[r].by = None
  /\ request' = [request EXCEPT ![r] = Idle]
  /\ UNCHANGED <<token, device, limit, webhook, issued, agent, disk, faults, history>>

Recover(r, i, k) ==
  /\ IsAt(r, "idle")
  /\ request' = [request EXCEPT ![r] = Ask("recover", i, k)]
  /\ UNCHANGED <<token, device, limit, webhook, issued, agent, disk, faults, history>>

-----------------------------------------------------------------------------
(* Administrators and the plan. *)

(* revokeToken, regenerateToken, or its expiry. *)
EndToken(k) ==
  /\ token[k].live
  /\ token' = [token EXCEPT ![k].live = FALSE]
  /\ UNCHANGED <<device, limit, request, webhook, issued, agent, disk, faults, history>>

Revoke(i) ==
  /\ i \in Rows /\ ~device[i].revoked
  /\ device' = [device EXCEPT ![i] = [@ EXCEPT !.revoked = TRUE, !.inactive = TRUE]]
  /\ lapsed' = lapsed \cup {device[i].cred}
  /\ dead' = IF \E r \in Requests : IsAt(r, "clear") /\ request[r].i = i
               THEN dead ELSE dead \cup {device[i].cred}
  /\ UNCHANGED <<token, limit, request, webhook, issued, agent, disk, faults, outrun>>

(* A webhook writes the plan, ... *)
SetPlan(w) ==
  /\ webhook[w].pc \in {"due", "again"}
  /\ limit' = webhook[w].limit
  /\ webhook' = [v \in Webhooks |->
       IF v = w THEN [webhook[w] EXCEPT !.pc = "list", !.raced = FALSE]
       ELSE [webhook[v] EXCEPT !.raced = @ \/ webhook[v].pc \in {"list", "find", "write"}]]
  /\ request' = [r \in Requests |-> Outdated(request[r])]
  /\ UNCHANGED <<token, device, issued, agent, disk, faults, history>>

(* ... finds the devices over its limit, the youngest, or how many it has     *)
(* room for, ...                                                             *)
Younger(S, i) == {j \in S : device[j].born > device[i].born}
Older(S, i) == {j \in S : device[j].born < device[i].born}
Excess(n) == {i \in Active : Cardinality(Older(Active, i)) >= n}
ListDevices(w) ==
  /\ webhook[w].pc = "list"
  /\ LET n == webhook[w].limit IN
       webhook' = [webhook EXCEPT ![w] =
         IF Cardinality(Active) > n
           THEN [@ EXCEPT !.pc = "write", !.off = TRUE, !.room = 0, !.rows = Excess(n)]
           ELSE [@ EXCEPT !.pc = "find", !.off = FALSE, !.room = n - Cardinality(Active), !.rows = {}]]
  /\ UNCHANGED <<token, device, limit, request, issued, agent, disk, faults, history>>

(* ... in that case as many of the devices that are inactive by now, ...      *)
Youngest(n) == {i \in Rows \ Active : Cardinality(Younger(Rows \ Active, i)) < n}
FindInactive(w) ==
  /\ webhook[w].pc = "find"
  /\ webhook' = [webhook EXCEPT ![w].pc = "write", ![w].rows = Youngest(webhook[w].room)]
  /\ UNCHANGED <<token, device, limit, request, issued, agent, disk, faults, history>>

(* ... and deactivates or reactivates them, revoked ones too. *)
WriteDevices(w) ==
  /\ webhook[w].pc = "write"
  /\ LET rows == webhook[w].rows  off == webhook[w].off IN
       /\ device' = [i \in Identities |->
            IF i \in rows THEN [device[i] EXCEPT !.inactive = off] ELSE device[i]]
       /\ lapsed' = IF off THEN lapsed \cup {device[i].cred : i \in rows} ELSE lapsed
       /\ outrun' = (outrun \/ (webhook[w].raced /\ ~off /\ rows # {}))
  /\ webhook' = [v \in Webhooks |->
       IF v = w THEN [webhook[w] EXCEPT !.pc = "done"] ELSE Overtaken(webhook[v])]
  /\ request' = [r \in Requests |-> Outdated(request[r])]
  /\ UNCHANGED <<token, limit, issued, agent, disk, faults, dead>>

-----------------------------------------------------------------------------
(* The agent processes a of machine m. *)

Is(m, a, pc) == agent[m][a].pc = pc
Becomes(m, a, p) == agent' = [agent EXCEPT ![m][a] = p]

(* The identity on disk, or a new one. *)
Identity(m) ==
  IF disk[m].inst # None THEN {disk[m].inst}
  ELSE Identities \ (Rows \cup {disk[n].inst : n \in Machines} \cup {request[r].i : r \in Requests})

(* A process asks for a registration with its enrolment token; t is then the  *)
(* credential on disk.                                                        *)
Asks(m, a, p, t) ==
  \E r \in Requests, i \in Identity(m) :
    /\ IsAt(r, "idle")
    /\ request' = [request EXCEPT ![r] = [Ask("register", i, p.k) EXCEPT !.m = m, !.by = a]]
    /\ Becomes(m, a, [p EXCEPT !.pc = "asking"])
    /\ disk' = [disk EXCEPT ![m].inst = i, ![m].token = t]

(* With a token it registers, whatever is on disk; without, the service uses  *)
(* what is on disk.                                                           *)
Start(m, a, k) ==
  /\ Is(m, a, "off") /\ (a = "service" => m \in Serviced)
  /\ IF k # None
       THEN Asks(m, a, [Off EXCEPT !.k = k], disk[m].token)
       ELSE /\ a = "service" /\ disk[m].token # 0
            /\ Becomes(m, a, [Off EXCEPT !.pc = "run", !.cred = disk[m].token])
            /\ request' = request /\ disk' = disk
  /\ UNCHANGED <<token, device, limit, webhook, issued, faults, history>>

(* A refusal, or no answer: the process ends, or tries again, ...            *)
Refused(p) == IF p.cred = 0 THEN Off ELSE [p EXCEPT !.pc = "refused"]

Answered(r) ==
  /\ request[r].pc \in {"done", "refused"} /\ request[r].by # None
  /\ LET m == request[r].m  a == request[r].by  p == agent[m][a] IN
       Becomes(m, a, IF IsAt(r, "done") THEN [p EXCEPT !.pc = "save", !.cred = request[r].cred]
                                        ELSE Refused(p))
  /\ request' = [request EXCEPT ![r] = Idle]
  /\ UNCHANGED <<token, device, limit, webhook, issued, disk, faults, history>>

SaveToken(m, a) ==
  /\ Is(m, a, "save")
  /\ disk' = [disk EXCEPT ![m].token = agent[m][a].cred]
  /\ Becomes(m, a, [agent[m][a] EXCEPT !.pc = "save id"])
  /\ UNCHANGED <<gateway, faults, history>>

SaveId(m, a) ==
  /\ Is(m, a, "save id")
  /\ disk' = [disk EXCEPT ![m].id = TRUE]
  /\ Becomes(m, a, IF a = "installer" THEN Off ELSE [agent[m][a] EXCEPT !.pc = "run", !.fails = 0])
  /\ UNCHANGED <<gateway, faults, history>>

(* Mutants of Metrics: failures are counted for ever; any error is taken for  *)
(* a rejection.                                                               *)
MetricsUncapped(m) ==
  /\ Is(m, "service", "run")
  /\ LET p == agent[m].service IN
       Becomes(m, "service",
         IF Accepts(p.cred) THEN [p EXCEPT !.fails = 0]
         ELSE [p EXCEPT !.pc = "rejected", !.fails = @ + 1])
  /\ UNCHANGED <<gateway, disk, faults, history>>
MetricsAnyError(m) ==
  /\ Is(m, "service", "run")
  /\ LET p == agent[m].service IN
       p.fails < MaxFails /\ Becomes(m, "service", [p EXCEPT !.pc = "rejected", !.fails = @ + 1])
  /\ UNCHANGED <<gateway, disk, faults, history>>

(* Metrics are sent; a service that was rejected too often only complains.   *)
Metrics(m) ==
  /\ Is(m, "service", "run")
  /\ LET p == agent[m].service IN
       Becomes(m, "service",
         IF Accepts(p.cred) THEN [p EXCEPT !.fails = 0]
         ELSE IF p.fails < MaxFails THEN [p EXCEPT !.pc = "rejected", !.fails = @ + 1]
         ELSE [p EXCEPT !.fails = MaxFails + 1])
  /\ UNCHANGED <<gateway, disk, faults, history>>

(* So are inventory and security reports; a rejection of theirs has no limit. *)
Report(m) ==
  /\ Is(m, "service", "run")
  /\ LET p == agent[m].service IN
       /\ ~Accepts(p.cred)
       /\ Becomes(m, "service", [p EXCEPT !.pc = "rejected",
                                          !.fails = IF @ > MaxFails THEN @ ELSE @ + 1])
  /\ UNCHANGED <<gateway, disk, faults, history>>

(* Rejected, it deletes whatever token is on disk, and registers again if it  *)
(* was started with an enrolment token.                                       *)
Invalidate(m) ==
  /\ Is(m, "service", "rejected")
  /\ LET p == agent[m].service IN
       IF p.k # None THEN Asks(m, "service", p, 0)
       ELSE /\ Becomes(m, "service", [p EXCEPT !.pc = "run"])
            /\ request' = request
            /\ disk' = [disk EXCEPT ![m].token = 0]
  /\ UNCHANGED <<token, device, limit, webhook, issued, faults, history>>

(* ... up to three times, and then goes on with what it had. *)
Retry(m) ==
  /\ Is(m, "service", "refused")
  /\ LET p == agent[m].service IN
       \/ Asks(m, "service", p, disk[m].token)
       \/ Becomes(m, "service", [p EXCEPT !.pc = "run"]) /\ UNCHANGED <<request, disk>>
  /\ UNCHANGED <<token, device, limit, webhook, issued, faults, history>>

(* The requests of the processes A of m go on without them. *)
Abandoned(m, A) ==
  request' = [r \in Requests |->
    IF request[r].m = m /\ request[r].by \in A THEN [request[r] EXCEPT !.by = None] ELSE request[r]]

(* The reset stops the service, and every other agent process with it, and    *)
(* removes the files, the identity too; without a service it stops nothing.   *)
Reset(m) ==
  /\ disk[m].token # 0 \/ disk[m].id
  /\ disk' = [disk EXCEPT ![m] = [token |-> 0, inst |-> None, id |-> FALSE]]
  /\ LET stopped == IF m \in Serviced THEN Who ELSE {} IN
       /\ agent' = [agent EXCEPT ![m] = [a \in Who |-> IF a \in stopped THEN Off ELSE @[a]]]
       /\ Abandoned(m, stopped)
  /\ UNCHANGED <<token, device, limit, webhook, issued, faults, history>>

-----------------------------------------------------------------------------
(* Faults *)

Fault == faults < MaxFaults /\ faults' = faults + 1

(* 30 s without an answer: the registration goes on without its process.     *)
TimeOut(r) ==
  /\ Fault
  /\ request[r].by # None
  /\ LET m == request[r].m  a == request[r].by IN Becomes(m, a, Refused(agent[m][a]))
  /\ request' = [request EXCEPT ![r].by = None]
  /\ UNCHANGED <<token, device, limit, webhook, issued, disk, history>>

Crash(m, a) ==
  /\ Fault
  /\ ~Is(m, a, "off")
  /\ Becomes(m, a, Off)
  /\ Abandoned(m, {a})
  /\ UNCHANGED <<token, device, limit, webhook, issued, disk, history>>

(* Registrations fail; the provider announces again what was not confirmed.   *)
GatewayRestart ==
  /\ Fault
  /\ request' = [r \in Requests |->
       IF request[r].by = None THEN Idle ELSE [request[r] EXCEPT !.pc = "refused"]]
  /\ webhook' = [w \in Webhooks |->
       IF webhook[w].pc \in {"list", "find", "write"} THEN [webhook[w] EXCEPT !.pc = "again"] ELSE webhook[w]]
  /\ UNCHANGED <<token, device, limit, issued, agent, disk, history>>

-----------------------------------------------------------------------------
Next ==
  \/ \E r \in Requests :
       \/ Gateway(r) \/ Forget(r) \/ Answered(r) \/ TimeOut(r)
       \/ \E i \in Identities, k \in Tokens : Recover(r, i, k)
  \/ \E k \in Tokens : EndToken(k)
  \/ \E w \in Webhooks : SetPlan(w) \/ ListDevices(w) \/ FindInactive(w) \/ WriteDevices(w)
  \/ \E i \in Identities : Revoke(i)
  \/ \E m \in Machines :
       \/ Metrics(m) \/ Report(m) \/ Invalidate(m) \/ Retry(m) \/ Reset(m)
       \/ \E a \in Who : SaveToken(m, a) \/ SaveId(m, a) \/ Crash(m, a)
                         \/ \E k \in Tokens \cup {None} : Start(m, a, k)
  \/ GatewayRestart

Spec == Init /\ [][Next]_vars

-----------------------------------------------------------------------------
TokenType == [live : BOOLEAN, used : Nat]
Row == [cred : Nat, born : Nat, revoked : BOOLEAN, inactive : BOOLEAN]
Pcs == {"idle", "validate", "consume", "refused", "done", "count"} \cup Counted
RequestType ==
  [pc : Pcs, op : {"register", "recover"}, i : Identities \cup {None}, m : Machines \cup {None},
   by : Who \cup {None}, k : Tokens \cup {None}, was : BOOLEAN, cred : Nat, raced : BOOLEAN]
WebhookType ==
  [pc : {"due", "list", "find", "write", "again", "done"}, limit : Limits,
   off : BOOLEAN, room : Nat, rows : SUBSET Identities, raced : BOOLEAN]
Process ==
  [pc : {"off", "asking", "save", "save id", "run", "rejected", "refused"},
   k : Tokens \cup {None}, cred : Nat, fails : 0..MaxFails + 1]
Disk == [token : Nat, inst : Identities \cup {None}, id : BOOLEAN]

(* Types of the rows, the requests and the agents. *)
TypeOK ==
  /\ token \in [Tokens -> TokenType]
  /\ device \in [Identities -> Row]
  /\ limit \in Limits
  /\ request \in [Requests -> RequestType]
  /\ webhook \in [Webhooks -> WebhookType]
  /\ agent \in [Machines -> [Who -> Process]]
  /\ disk \in [Machines -> Disk]
  /\ issued \in Nat /\ faults \in Nat /\ outrun \in BOOLEAN
  /\ lapsed \in SUBSET Nat /\ dead \in SUBSET Nat

Uses(k) == token[k].used
Changing == \E w \in Webhooks : webhook[w].pc \in {"list", "find", "write", "again"}
Reactivated(i) == \E w \in Webhooks : i \in webhook[w].rows /\ ~webhook[w].off

Paid == {u \in Tokens \X (1..MaxUses) : u[2] <= Uses(u[1])}
UsesBounded == \A k \in Tokens : Uses(k) <= MaxUses
RevokedTakesNoPlace == \A i \in Active : device[i].revoked => Reactivated(i)

(* enrollment.service.ts:100: however many registrations use a token at once, *)
(* it is used up to its limit, and every credential was paid for with a use.  *)
(* devices.service.ts:86, billing.service.ts:333: more devices are active     *)
(* than the plan allows only while a plan change is under way, or after a     *)
(* registration or a plan change that relied on an outdated count.            *)
(* admin-recovery.service.ts:74: a revoked device takes no place in the plan, *)
(* unless a plan change found room for it.                                    *)
LimitsKept ==
  /\ UsesBounded /\ RevokedTakesNoPlace
  /\ issued <= Cardinality(Paid)
  /\ Cardinality(Active) > limit => outrun \/ Changing

(* devices.service.ts:158, "The old credential is never reactivated": one     *)
(* that was current when its device was revoked is never accepted again, in   *)
(* whatever order re-enrolments, revocations and plan changes interleave      *)
(* (unless a re-enrolment was about to clear the earlier revocation).         *)
OldCredentialDead == \A c \in dead : ~Accepts(c)

(* registration.rs:373: the service deletes a token from disk without looking *)
(* at it.  One that the gateway accepts is deleted by a reset, identity and    *)
(* all, or by a rejected service that runs on another credential, or because   *)
(* the plan had deactivated the device, or a revocation been cleared, in       *)
(* between.                                                                    *)
Deleting(m) ==
  Accepts(disk[m].token) /\ disk'[m].token = 0 =>
    \/ disk'[m].inst = None /\ (m \in Serviced => agent'[m].service = Off)
    \/ /\ Is(m, "service", "rejected")
       /\ agent[m].service.cred # disk[m].token \/ disk[m].token \in lapsed
DeletesStaleOnly == [][\A m \in Machines : Deleting(m)]_vars
=============================================================================

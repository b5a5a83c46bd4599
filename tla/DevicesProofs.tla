--------------------------- MODULE DevicesProofs ----------------------------
(***************************************************************************)
(* Proofs about DeviceEnrollment, for any machines, identities, tokens,    *)
(* requests, plans and bounds, and, from "The inventory" on, about         *)
(* Inventory, for any versions, requests, slots and bounds.                *)
(***************************************************************************)
EXTENDS DeviceEnrollment, RefreshMark, FiniteSetTheorems, TLAPS

(* Credentials are numbered as they are issued, and each is of one device. *)
Numbered ==
  /\ \A i \in Identities : device[i].cred <= issued
  /\ dead \subseteq 1..issued
  /\ \A i, j \in Identities : device[i].cred = device[j].cred /\ device[i].cred # 0 => i = j

(* The device of a dead credential stays revoked: no request is about to   *)
(* clear its revocation, and who comes later rotates the credential first. *)
Clearing(i) == \E r \in Requests : IsAt(r, "clear") /\ request[r].i = i
DeadIsRevoked ==
  \A i \in Identities : device[i].cred \in dead => device[i].revoked /\ ~Clearing(i)

(* A revoked device is inactive unless a plan change that is over, and so   *)
(* forgets no more what it did, reactivated it.                            *)
DoneFor(i) == \E w \in Webhooks : webhook[w].pc = "done" /\ i \in webhook[w].rows /\ ~webhook[w].off
RevokedIsInactive ==
  \A i \in Identities : device[i].revoked => device[i].inactive \/ DoneFor(i)

(* Who works on the row of a device has found it. *)
Found == {"read", "rotate", "clear"}
Located == \A r \in Requests : request[r].pc \in Found => request[r].i \in Identities

IInv == TypeOK /\ UsesBounded /\ Numbered /\ Located /\ DeadIsRevoked /\ RevokedIsInactive

(* What is not about tokens, devices and plan changes. *)
Outside ==
  /\ request \in [Requests -> RequestType]
  /\ agent \in [Machines -> [Who -> Process]]
  /\ disk \in [Machines -> Disk]
  /\ faults \in Nat

-----------------------------------------------------------------------------
(* Steps that leave the devices alone *)

LEMMA Constants ==
  /\ Off \in Process /\ Off.cred = 0
  /\ Idle \in RequestType /\ Idle.pc = "idle"
  /\ NoRow \in Row /\ NoRow.cred = 0 /\ ~NoRow.revoked
  /\ [live |-> TRUE, used |-> 0] \in TokenType
  /\ \A n \in Limits :
       [pc |-> "due", limit |-> n, off |-> FALSE, room |-> 0, rows |-> {}, raced |-> FALSE] \in WebhookType
<1>1. 0 \in 0..MaxFails + 1
  BY BoundsAssumption
<1> QED
  BY <1>1 DEF Off, Process, Idle, RequestType, Pcs, NoRow, Row, TokenType, WebhookType

LEMMA InitIInv == Init => IInv
<1> SUFFICES ASSUME Init PROVE IInv
  OBVIOUS
<1>1. webhook \in [Webhooks -> WebhookType]
  <2> DEFINE Due == {[pc |-> "due", limit |-> n, off |-> FALSE, room |-> 0, rows |-> {}, raced |-> FALSE] : n \in Limits}
  <2>1. webhook \in [Webhooks -> Due] /\ \A e \in Due : e \in WebhookType
    BY Constants DEF Init
  <2> HIDE DEF Due
  <2> QED
    BY <2>1
<1>2. disk \in [Machines -> Disk]
  BY DEF Init, Disk
<1>3. TypeOK
  BY <1>1, <1>2, Constants DEF Init, TypeOK
<1>4. UsesBounded
  BY BoundsAssumption DEF Init, UsesBounded, Uses
<1>5. Numbered /\ Located /\ DeadIsRevoked /\ RevokedIsInactive
  BY Constants DEF Init, Numbered, Located, Found, DeadIsRevoked, RevokedIsInactive
<1> QED
  BY <1>3, <1>4, <1>5 DEF IInv

LEMMA OutsideTyped == IInv => Outside
BY DEF IInv, TypeOK, Outside

(* No request comes to clear a revocation, or to a row that is not there. *)
NoneClears ==
  /\ Located'
  /\ \A r \in Requests : request'[r].pc = "clear" => request[r].pc = "clear" /\ request'[r].i = request[r].i

(* A plan change that is over stays so. *)
DoneStays ==
  \A w \in Webhooks : webhook[w].pc = "done" =>
    webhook'[w].pc = "done" /\ webhook'[w].rows = webhook[w].rows /\ webhook'[w].off = webhook[w].off

LEMMA Quiet ==
  ASSUME IInv, TypeOK', UsesBounded', UNCHANGED <<device, issued, dead>>, NoneClears, DoneStays
  PROVE  IInv'
<1>1. Numbered'
  BY DEF IInv, Numbered
<1>2. Located' /\ DeadIsRevoked'
  BY DEF IInv, DeadIsRevoked, Clearing, IsAt, NoneClears
<1>3. RevokedIsInactive'
  <2>1. \A i \in Identities : DoneFor(i) => DoneFor(i)'
    BY DEF DoneFor, DoneStays
  <2> QED
    BY <2>1 DEF IInv, RevokedIsInactive
<1> QED
  BY <1>1, <1>2, <1>3 DEF IInv

(* Requests, processes and files only. *)
LEMMA OutsideStep ==
  ASSUME IInv, Outside', NoneClears,
         UNCHANGED <<token, device, limit, webhook, issued, history>>
  PROVE  IInv'
<1>1. TypeOK'
  BY DEF IInv, TypeOK, Outside, history
<1>2. UsesBounded' /\ DoneStays
  BY DEF IInv, UsesBounded, Uses, DoneStays
<1> QED
  BY <1>1, <1>2, Quiet DEF history

(* The step of one request, wherever it goes. *)
LEMMA GotoTyped ==
  ASSUME IInv, NEW r \in Requests, NEW pc \in Pcs, Goto(r, pc)
  PROVE  /\ request' \in [Requests -> RequestType]
         /\ request'[r].pc = pc /\ request'[r].i = request[r].i
         /\ \A q \in Requests \ {r} : request'[q] = request[q]
         /\ pc # "clear" /\ (pc \in Found => request[r].i \in Identities) => NoneClears
<1>1. request \in [Requests -> RequestType]
  BY DEF IInv, TypeOK
<1>2. request[r] \in RequestType
  BY <1>1
<1>3. [request[r] EXCEPT !.pc = pc] \in RequestType
  BY <1>2 DEF RequestType
<1>4. request' = [request EXCEPT ![r] = [request[r] EXCEPT !.pc = pc]]
  BY DEF Goto
<1>5. /\ [request[r] EXCEPT !.pc = pc].pc = pc
      /\ [request[r] EXCEPT !.pc = pc].i = request[r].i
  BY <1>2 DEF RequestType
<1>6. /\ request' \in [Requests -> RequestType]
      /\ request'[r].pc = pc /\ request'[r].i = request[r].i
      /\ \A q \in Requests \ {r} : request'[q] = request[q]
  BY <1>1, <1>3, <1>4, <1>5
<1> QED
  BY <1>6 DEF NoneClears, Located, IInv

LEMMA GotoStep ==
  ASSUME IInv, NEW r \in Requests, NEW pc \in Pcs \ {"clear"}, Goto(r, pc),
         pc \in Found => request[r].i \in Identities,
         UNCHANGED <<token, device, limit, webhook, issued, agent, disk, faults, history>>
  PROVE  IInv'
<1>1. Outside' /\ NoneClears
  BY GotoTyped, OutsideTyped DEF Outside
<1> QED
  BY <1>1, OutsideStep

(* A request takes another's place in its slot. *)
LEMMA SlotTyped ==
  ASSUME IInv, NEW r \in Requests, NEW q \in RequestType, q.pc \notin Found,
         request' = [request EXCEPT ![r] = q]
  PROVE  request' \in [Requests -> RequestType] /\ NoneClears
BY DEF IInv, TypeOK, NoneClears, Located, Found

LEMMA ValidateStep == ASSUME IInv, NEW r \in Requests, Validate(r) PROVE IInv'
BY GotoStep DEF Validate, Pcs, Found

LEMMA CountStep == ASSUME IInv, NEW r \in Requests, Count(r) PROVE IInv'
BY GotoStep DEF Count, Pcs, Counted, Found

LEMMA FindStep == ASSUME IInv, NEW r \in Requests, Find(r) PROVE IInv'
<1> DEFINE known == request[r].i \in Rows
           pc == IF request[r].op = "recover" THEN IF known THEN "rotate" ELSE "refused"
                 ELSE IF known THEN "read" ELSE "create"
<1>1. pc \in Pcs \ {"clear"} /\ Goto(r, pc) /\ (pc \in Found => request[r].i \in Identities)
  BY DEF Find, Pcs, Counted, Found, Rows
<1> QED
  BY <1>1, GotoStep DEF Find

LEMMA ConsumeStep == ASSUME IInv, NEW r \in Requests, Consume(r) PROVE IInv'
<1> DEFINE k == request[r].k
<1>1. CASE ~Usable(k)
  <2>1. Goto(r, "refused") /\ "refused" \in Pcs \ {"clear"} /\ "refused" \notin Found /\ token' = token
    BY <1>1 DEF Consume, Pcs, Found
  <2> QED
    BY <2>1, GotoStep DEF Consume
<1>2. CASE Usable(k)
  <2>1. PICK pc \in {"find", "count"} : Goto(r, pc)
    BY <1>2 DEF Consume
  <2>2. pc \in Pcs /\ pc # "clear" /\ pc \notin Found
    BY DEF Pcs, Counted, Found
  <2>3. request' \in [Requests -> RequestType] /\ NoneClears
    BY <2>1, <2>2, GotoTyped
  <2> DEFINE next == [token[k] EXCEPT !.used = @ + 1]
  <2>4. token' = [token EXCEPT ![k] = next]
    BY <1>2 DEF Consume
  <2>5. token \in [Tokens -> TokenType]
    BY DEF IInv, TypeOK
  <2>6. k \in Tokens => next \in TokenType /\ next.used <= MaxUses
    BY <1>2, <2>5, BoundsAssumption DEF TokenType, Usable
  <2> HIDE DEF next, k
  <2>7. token' \in [Tokens -> TokenType] /\ UsesBounded'
    BY <2>4, <2>5, <2>6 DEF IInv, UsesBounded, Uses
  <2>8. TypeOK'
    BY <2>3, <2>7 DEF IInv, TypeOK, Consume, history
  <2> QED
    BY <2>3, <2>7, <2>8, Quiet DEF Consume, history, DoneStays
<1> QED
  BY <1>1, <1>2

LEMMA ReadStep == ASSUME IInv, NEW r \in Requests, Read(r) PROVE IInv'
<1> DEFINE q == [request[r] EXCEPT !.pc = "rotate", !.was = device[request[r].i].revoked]
<1>1. request \in [Requests -> RequestType] /\ device \in [Identities -> Row]
  BY DEF IInv, TypeOK
<1>2. request[r].i \in Identities /\ request[r] \in RequestType
  BY <1>1 DEF Read, IsAt, IInv, Located, Found
<1>3. device[request[r].i].revoked \in BOOLEAN
  BY <1>1, <1>2 DEF Row
<1>4. q \in RequestType /\ q.pc = "rotate" /\ q.i \in Identities
  BY <1>2, <1>3 DEF RequestType, Pcs, Counted
<1>5. request' = [request EXCEPT ![r] = q]
  BY DEF Read
<1> HIDE DEF q
<1>6. request' \in [Requests -> RequestType] /\ NoneClears
  BY <1>1, <1>4, <1>5 DEF NoneClears, Located, IInv
<1> QED
  BY <1>6, OutsideTyped, OutsideStep DEF Read, Outside

LEMMA ForgetStep == ASSUME IInv, NEW r \in Requests, Forget(r) PROVE IInv'
<1>1. Idle.pc \notin Found
  BY Constants DEF Found
<1> QED
  BY <1>1, Constants, SlotTyped, OutsideTyped, OutsideStep DEF Forget, Outside

LEMMA AskTyped ==
  ASSUME NEW op \in {"register", "recover"}, NEW i \in Identities, NEW k \in Tokens \cup {None}
  PROVE  Ask(op, i, k) \in RequestType /\ Ask(op, i, k).pc = "validate"
BY Constants DEF Ask, Idle, RequestType, Pcs

LEMMA RecoverStep ==
  ASSUME IInv, NEW r \in Requests, NEW i \in Identities, NEW k \in Tokens, Recover(r, i, k)
  PROVE  IInv'
<1> DEFINE q == Ask("recover", i, k)
<1>1. q \in RequestType /\ q.pc \notin Found
  BY AskTyped DEF Found
<1>2. request' = [request EXCEPT ![r] = q]
  BY DEF Recover
<1> HIDE DEF q
<1> QED
  BY <1>1, <1>2, SlotTyped, OutsideTyped, OutsideStep DEF Recover, Outside

-----------------------------------------------------------------------------
(* Steps of the agents *)

LEMMA BecomesTyped ==
  ASSUME IInv, NEW m \in Machines, NEW a \in Who, NEW p \in Process, Becomes(m, a, p)
  PROVE  agent' \in [Machines -> [Who -> Process]]
<1>1. agent \in [Machines -> [Who -> Process]]
  BY DEF IInv, TypeOK
<1>2. [agent[m] EXCEPT ![a] = p] \in [Who -> Process]
  BY <1>1
<1>3. agent' = [agent EXCEPT ![m] = [agent[m] EXCEPT ![a] = p]]
  BY DEF Becomes
<1> QED
  BY <1>1, <1>2, <1>3

LEMMA ProcessTyped ==
  ASSUME IInv, NEW m \in Machines, NEW a \in Who
  PROVE  agent[m][a] \in Process
BY DEF IInv, TypeOK

LEMMA NextProcess ==
  ASSUME NEW p \in Process
  PROVE  /\ \A c \in Nat : /\ [p EXCEPT !.pc = "save", !.cred = c] \in Process
                            /\ [Off EXCEPT !.pc = "run", !.cred = c] \in Process
         /\ \A k \in Tokens \cup {None} : [Off EXCEPT !.k = k] \in Process
         /\ \A pc \in {"asking", "save id", "run", "refused"} : [p EXCEPT !.pc = pc] \in Process
         /\ [p EXCEPT !.pc = "run", !.fails = 0] \in Process
         /\ [p EXCEPT !.fails = 0] \in Process
         /\ [p EXCEPT !.fails = MaxFails + 1] \in Process
         /\ p.fails < MaxFails => [p EXCEPT !.pc = "rejected", !.fails = @ + 1] \in Process
         /\ Refused(p) \in Process
         /\ p.cred \in Nat /\ p.k \in Tokens \cup {None}
<1>1. 0 \in 0..MaxFails + 1 /\ MaxFails + 1 \in 0..MaxFails + 1
  BY BoundsAssumption
<1>2. p.fails < MaxFails => p.fails + 1 \in 0..MaxFails + 1
  <2>1. p.fails \in 0..MaxFails + 1
    BY DEF Process
  <2> QED
    BY <2>1, BoundsAssumption
<1> QED
  BY <1>1, <1>2, Constants DEF Process, Off, Refused

LEMMA AsksTyped ==
  ASSUME IInv, NEW m \in Machines, NEW a \in Who, NEW p \in Process, NEW t \in Nat, Asks(m, a, p, t)
  PROVE  /\ request' \in [Requests -> RequestType] /\ NoneClears
         /\ agent' \in [Machines -> [Who -> Process]]
         /\ disk' \in [Machines -> Disk]
<1>1. disk \in [Machines -> Disk] /\ disk[m] \in Disk
  BY DEF IInv, TypeOK
<1>2. PICK r \in Requests, i \in Identity(m) :
        /\ request' = [request EXCEPT ![r] = [Ask("register", i, p.k) EXCEPT !.m = m, !.by = a]]
        /\ Becomes(m, a, [p EXCEPT !.pc = "asking"])
        /\ disk' = [disk EXCEPT ![m].inst = i, ![m].token = t]
  BY DEF Asks
<1>3. i \in Identities
  BY <1>1 DEF Identity, Disk
<1> DEFINE sent == Ask("register", i, p.k)
           q == [sent EXCEPT !.m = m, !.by = a]
<1>4. q \in RequestType /\ q.pc \notin Found
  <2>1. p.k \in Tokens \cup {None}
    BY NextProcess
  <2>2. sent \in RequestType /\ sent.pc = "validate"
    BY <1>3, <2>1, AskTyped
  <2> HIDE DEF sent
  <2> QED
    BY <2>2 DEF RequestType, Found
<1>5. request' = [request EXCEPT ![r] = q]
  BY <1>2
<1> HIDE DEF q
<1>6. request' \in [Requests -> RequestType] /\ NoneClears
  BY <1>4, <1>5, SlotTyped
<1>7. agent' \in [Machines -> [Who -> Process]]
  BY <1>2, NextProcess, BecomesTyped
<1>8. disk' = [disk EXCEPT ![m] = [disk[m] EXCEPT !.inst = i, !.token = t]]
  BY <1>1, <1>2
<1>9. [disk[m] EXCEPT !.inst = i, !.token = t] \in Disk
  BY <1>1, <1>3 DEF Disk
<1> QED
  BY <1>1, <1>6, <1>7, <1>8, <1>9

(* Steps of the agents leave the requests in flight where they are. *)
LEMMA SameRequests == ASSUME IInv, request' = request PROVE NoneClears
BY DEF NoneClears, Located, IInv

LEMMA StartStep ==
  ASSUME IInv, NEW m \in Machines, NEW a \in Who, NEW k \in Tokens \cup {None}, Start(m, a, k)
  PROVE  IInv'
<1>1. disk \in [Machines -> Disk] /\ disk[m].token \in Nat
  BY DEF IInv, TypeOK, Disk
<1>2. CASE k # None
  <2>1. Asks(m, a, [Off EXCEPT !.k = k], disk[m].token)
    BY <1>2 DEF Start
  <2>2. [Off EXCEPT !.k = k] \in Process
    BY Constants, NextProcess
  <2>3. Outside' /\ NoneClears
    BY <1>1, <2>1, <2>2, AsksTyped, OutsideTyped DEF Outside, Start
  <2> QED
    BY <2>3, OutsideStep DEF Start
<1>3. CASE k = None
  <2>1. Becomes(m, a, [Off EXCEPT !.pc = "run", !.cred = disk[m].token]) /\ UNCHANGED <<request, disk>>
    BY <1>3 DEF Start
  <2>2. [Off EXCEPT !.pc = "run", !.cred = disk[m].token] \in Process
    BY <1>1, Constants, NextProcess
  <2>3. Outside' /\ NoneClears
    BY <2>1, <2>2, BecomesTyped, SameRequests, OutsideTyped DEF Outside, Start
  <2> QED
    BY <2>3, OutsideStep DEF Start
<1> QED
  BY <1>2, <1>3

LEMMA AnsweredStep == ASSUME IInv, NEW r \in Requests, Answered(r) PROVE IInv'
<1> DEFINE m == request[r].m
           a == request[r].by
           p == agent[m][a]
<1>1. request[r] \in RequestType /\ agent \in [Machines -> [Who -> Process]]
  BY DEF IInv, TypeOK
<1>2. request[r].cred \in Nat /\ a \in Who
  BY <1>1 DEF RequestType, Answered
<1>3. Idle \in RequestType /\ Idle.pc \notin Found
  BY Constants DEF Found
<1>4. request' = [request EXCEPT ![r] = Idle]
  BY DEF Answered
<1>5. request' \in [Requests -> RequestType] /\ NoneClears
  BY <1>3, <1>4, SlotTyped
<1>6. PICK z : Becomes(m, a, z) /\ (p \in Process => z \in Process)
  BY <1>2, NextProcess DEF Answered
<1> HIDE DEF p
<1>7. agent' \in [Machines -> [Who -> Process]]
  <2>1. CASE m \in Machines
    BY <1>2, <1>6, <2>1, ProcessTyped, BecomesTyped DEF p
  <2>2. CASE m \notin Machines
    BY <1>1, <1>6, <2>2 DEF Becomes
  <2> QED
    BY <2>1, <2>2
<1> QED
  BY <1>5, <1>7, OutsideTyped, OutsideStep DEF Answered, Outside

LEMMA SaveTokenStep ==
  ASSUME IInv, NEW m \in Machines, NEW a \in Who, SaveToken(m, a)
  PROVE  IInv'
<1> DEFINE d == [disk[m] EXCEPT !.token = agent[m][a].cred]
<1>1. disk \in [Machines -> Disk] /\ disk[m] \in Disk /\ agent[m][a].cred \in Nat
  BY ProcessTyped, NextProcess DEF IInv, TypeOK
<1>2. d \in Disk
  BY <1>1 DEF Disk
<1>3. disk' = [disk EXCEPT ![m] = d]
  BY DEF SaveToken
<1> HIDE DEF d
<1>4. disk' \in [Machines -> Disk]
  BY <1>1, <1>2, <1>3
<1>5. agent' \in [Machines -> [Who -> Process]]
  BY ProcessTyped, NextProcess, BecomesTyped DEF SaveToken
<1>6. Outside' /\ NoneClears
  BY <1>4, <1>5, SameRequests, OutsideTyped DEF SaveToken, gateway, Outside
<1> QED
  BY <1>6, OutsideStep DEF SaveToken, gateway

LEMMA SaveIdStep ==
  ASSUME IInv, NEW m \in Machines, NEW a \in Who, SaveId(m, a)
  PROVE  IInv'
<1> DEFINE d == [disk[m] EXCEPT !.id = TRUE]
<1>1. disk \in [Machines -> Disk] /\ disk[m] \in Disk
  BY DEF IInv, TypeOK
<1>2. d \in Disk
  BY <1>1 DEF Disk
<1>3. disk' = [disk EXCEPT ![m] = d]
  BY DEF SaveId
<1> HIDE DEF d
<1>4. disk' \in [Machines -> Disk]
  BY <1>1, <1>2, <1>3
<1>5. agent' \in [Machines -> [Who -> Process]]
  BY Constants, ProcessTyped, NextProcess, BecomesTyped DEF SaveId
<1>6. Outside' /\ NoneClears
  BY <1>4, <1>5, SameRequests, OutsideTyped DEF SaveId, gateway, Outside
<1> QED
  BY <1>6, OutsideStep DEF SaveId, gateway

LEMMA MetricsStep == ASSUME IInv, NEW m \in Machines, Metrics(m) PROVE IInv'
<1>1. "service" \in Who /\ agent[m].service = agent[m]["service"]
  BY DEF Who
<1>2. agent' \in [Machines -> [Who -> Process]]
  BY <1>1, ProcessTyped, NextProcess, BecomesTyped DEF Metrics
<1>3. Outside' /\ NoneClears
  BY <1>2, SameRequests, OutsideTyped DEF Metrics, gateway, Outside
<1> QED
  BY <1>3, OutsideStep DEF Metrics, gateway

LEMMA ReportStep == ASSUME IInv, NEW m \in Machines, Report(m) PROVE IInv'
<1> DEFINE n == IF agent[m]["service"].fails > MaxFails THEN agent[m]["service"].fails
                ELSE agent[m]["service"].fails + 1
           z == [agent[m]["service"] EXCEPT !.pc = "rejected", !.fails = n]
<1>1. "service" \in Who /\ agent[m].service = agent[m]["service"] /\ agent[m]["service"] \in Process
  BY ProcessTyped DEF Who
<1>2. n \in 0..MaxFails + 1
  <2>1. agent[m]["service"].fails \in 0..MaxFails + 1
    BY <1>1 DEF Process
  <2> QED
    BY <2>1, BoundsAssumption
<1>3. Becomes(m, "service", z)
  BY <1>1 DEF Report
<1> HIDE DEF n
<1>4. z \in Process
  BY <1>1, <1>2 DEF Process
<1> HIDE DEF z
<1>5. agent' \in [Machines -> [Who -> Process]]
  BY <1>1, <1>3, <1>4, BecomesTyped
<1>6. Outside' /\ NoneClears
  BY <1>5, SameRequests, OutsideTyped DEF Report, gateway, Outside
<1> QED
  BY <1>6, OutsideStep DEF Report, gateway

LEMMA InvalidateStep == ASSUME IInv, NEW m \in Machines, Invalidate(m) PROVE IInv'
<1> DEFINE p == agent[m]["service"]
<1>1. "service" \in Who /\ agent[m].service = p /\ p \in Process
  BY ProcessTyped DEF Who
<1>2. CASE p.k # None
  <2>1. Asks(m, "service", p, 0)
    BY <1>1, <1>2 DEF Invalidate
  <2> HIDE DEF p
  <2>2. Outside' /\ NoneClears
    BY <1>1, <2>1, AsksTyped, OutsideTyped DEF Outside, Invalidate
  <2> QED
    BY <2>2, OutsideStep DEF Invalidate
<1>3. CASE p.k = None
  <2> DEFINE d == [disk[m] EXCEPT !.token = 0]
  <2>1. /\ Becomes(m, "service", [p EXCEPT !.pc = "run"])
        /\ request' = request
        /\ disk' = [disk EXCEPT ![m] = d]
    BY <1>1, <1>3 DEF Invalidate
  <2>2. disk \in [Machines -> Disk] /\ d \in Disk
    BY DEF IInv, TypeOK, Disk
  <2> HIDE DEF p, d
  <2>3. disk' \in [Machines -> Disk]
    BY <2>1, <2>2
  <2>4. agent' \in [Machines -> [Who -> Process]]
    BY <1>1, <2>1, NextProcess, BecomesTyped
  <2>5. Outside' /\ NoneClears
    BY <2>1, <2>3, <2>4, SameRequests, OutsideTyped DEF Outside, Invalidate
  <2> QED
    BY <2>5, OutsideStep DEF Invalidate
<1> QED
  BY <1>2, <1>3

LEMMA RetryStep == ASSUME IInv, NEW m \in Machines, Retry(m) PROVE IInv'
<1> DEFINE p == agent[m]["service"]
<1>1. "service" \in Who /\ agent[m].service = p /\ p \in Process
  BY ProcessTyped DEF Who
<1>2. disk[m].token \in Nat
  BY DEF IInv, TypeOK, Disk
<1>3. CASE Asks(m, "service", p, disk[m].token)
  <2> HIDE DEF p
  <2>1. Outside' /\ NoneClears
    BY <1>1, <1>2, <1>3, AsksTyped, OutsideTyped DEF Outside, Retry
  <2> QED
    BY <2>1, OutsideStep DEF Retry
<1>4. CASE Becomes(m, "service", [p EXCEPT !.pc = "run"]) /\ UNCHANGED <<request, disk>>
  <2> HIDE DEF p
  <2>1. agent' \in [Machines -> [Who -> Process]]
    BY <1>1, <1>4, NextProcess, BecomesTyped
  <2>2. Outside' /\ NoneClears
    BY <1>4, <2>1, SameRequests, OutsideTyped DEF Outside, Retry
  <2> QED
    BY <2>2, OutsideStep DEF Retry
<1> QED
  BY <1>1, <1>3, <1>4 DEF Retry

(* Requests whose process is gone keep their place. *)
LEMMA AbandonedTyped ==
  ASSUME IInv, NEW m, NEW A, Abandoned(m, A)
  PROVE  request' \in [Requests -> RequestType] /\ NoneClears
<1>1. request \in [Requests -> RequestType]
  BY DEF IInv, TypeOK
<1>2. \A q \in RequestType : /\ [q EXCEPT !.by = None] \in RequestType
                              /\ [q EXCEPT !.by = None].pc = q.pc
                              /\ [q EXCEPT !.by = None].i = q.i
  BY DEF RequestType
<1>3. \A r \in Requests : /\ request'[r] \in RequestType
                          /\ request'[r].pc = request[r].pc
                          /\ request'[r].i = request[r].i
  BY <1>1, <1>2 DEF Abandoned
<1>4. request' \in [Requests -> RequestType]
  BY <1>3 DEF Abandoned
<1> QED
  BY <1>3, <1>4 DEF NoneClears, Located, IInv

LEMMA ResetStep == ASSUME IInv, NEW m \in Machines, Reset(m) PROVE IInv'
<1> DEFINE stopped == IF m \in Serviced THEN Who ELSE {}
           p == [a \in Who |-> IF a \in stopped THEN Off ELSE agent[m][a]]
<1>1. Abandoned(m, stopped) /\ agent' = [agent EXCEPT ![m] = p]
  BY DEF Reset
<1>2. agent \in [Machines -> [Who -> Process]] /\ disk \in [Machines -> Disk]
  BY DEF IInv, TypeOK
<1>3. p \in [Who -> Process]
  BY <1>2, Constants
<1> HIDE DEF p, stopped
<1>4. agent' \in [Machines -> [Who -> Process]]
  BY <1>1, <1>2, <1>3
<1>5. disk' \in [Machines -> Disk]
  <2>1. [token |-> 0, inst |-> None, id |-> FALSE] \in Disk
    BY DEF Disk
  <2> QED
    BY <1>2, <2>1 DEF Reset
<1>6. Outside' /\ NoneClears
  BY <1>1, <1>4, <1>5, AbandonedTyped, OutsideTyped DEF Outside, Reset
<1> QED
  BY <1>6, OutsideStep DEF Reset

LEMMA CrashStep == ASSUME IInv, NEW m \in Machines, NEW a \in Who, Crash(m, a) PROVE IInv'
<1>1. Becomes(m, a, Off) /\ Abandoned(m, {a}) /\ faults' = faults + 1
  BY DEF Crash, Fault
<1>2. agent' \in [Machines -> [Who -> Process]]
  BY <1>1, Constants, BecomesTyped
<1>3. Outside' /\ NoneClears
  BY <1>1, <1>2, AbandonedTyped, OutsideTyped DEF Outside, Crash
<1> QED
  BY <1>3, OutsideStep DEF Crash

LEMMA TimeOutStep == ASSUME IInv, NEW r \in Requests, TimeOut(r) PROVE IInv'
<1> DEFINE m == request[r].m
           a == request[r].by
           z == Refused(agent[m][a])
           q == [request[r] EXCEPT !.by = None]
<1>1. /\ request \in [Requests -> RequestType] /\ request[r] \in RequestType
      /\ agent \in [Machines -> [Who -> Process]]
  BY DEF IInv, TypeOK
<1>2. a \in Who
  BY <1>1 DEF RequestType, TimeOut
<1>3. q \in RequestType /\ q.pc = request[r].pc /\ q.i = request[r].i
  BY <1>1 DEF RequestType
<1>4. request' = [request EXCEPT ![r] = q] /\ Becomes(m, a, z) /\ faults' = faults + 1
  BY DEF TimeOut, Fault
<1>5. m \in Machines => z \in Process
  BY <1>2, ProcessTyped, NextProcess
<1> HIDE DEF m, a, z, q
<1>6. request' \in [Requests -> RequestType] /\ NoneClears
  BY <1>1, <1>3, <1>4 DEF NoneClears, Located, IInv
<1>7. agent' \in [Machines -> [Who -> Process]]
  <2>1. CASE m \in Machines
    BY <1>2, <1>4, <1>5, <2>1, BecomesTyped
  <2>2. CASE m \notin Machines
    BY <1>1, <1>4, <2>2 DEF Becomes
  <2> QED
    BY <2>1, <2>2
<1>8. Outside'
  BY <1>4, <1>6, <1>7, OutsideTyped DEF TimeOut, Outside
<1> QED
  BY <1>6, <1>8, OutsideStep DEF TimeOut

-----------------------------------------------------------------------------
(* Administrators and the plan, the devices left alone *)

LEMMA EndTokenStep == ASSUME IInv, NEW k \in Tokens, EndToken(k) PROVE IInv'
<1> DEFINE next == [token[k] EXCEPT !.live = FALSE]
<1>1. token \in [Tokens -> TokenType]
  BY DEF IInv, TypeOK
<1>2. next \in TokenType /\ next.used = token[k].used
  BY <1>1 DEF TokenType
<1>3. token' = [token EXCEPT ![k] = next]
  BY DEF EndToken
<1> HIDE DEF next
<1>4. token' \in [Tokens -> TokenType] /\ UsesBounded'
  BY <1>1, <1>2, <1>3 DEF IInv, UsesBounded, Uses
<1>5. TypeOK' /\ NoneClears /\ DoneStays
  BY <1>4, SameRequests DEF IInv, TypeOK, DoneStays, EndToken, history
<1> QED
  BY <1>4, <1>5, Quiet DEF EndToken, history

LEMMA OutdatedTyped ==
  ASSUME NEW q \in RequestType
  PROVE  Outdated(q) \in RequestType /\ Outdated(q).pc = q.pc /\ Outdated(q).i = q.i
BY DEF Outdated, RequestType

LEMMA OvertakenTyped ==
  ASSUME NEW w \in WebhookType
  PROVE  /\ Overtaken(w) \in WebhookType
         /\ Overtaken(w).pc = w.pc /\ Overtaken(w).rows = w.rows /\ Overtaken(w).off = w.off
BY DEF Overtaken, WebhookType

(* Every request is outdated. *)
LEMMA AllOutdated ==
  ASSUME IInv, request' = [r \in Requests |-> Outdated(request[r])]
  PROVE  request' \in [Requests -> RequestType] /\ NoneClears
<1>1. request \in [Requests -> RequestType]
  BY DEF IInv, TypeOK
<1>2. \A r \in Requests : /\ request'[r] \in RequestType
                          /\ request'[r].pc = request[r].pc /\ request'[r].i = request[r].i
  BY <1>1, OutdatedTyped
<1>3. request' \in [Requests -> RequestType]
  BY <1>2
<1> QED
  BY <1>2, <1>3 DEF NoneClears, Located, IInv

LEMMA SetPlanStep == ASSUME IInv, NEW w \in Webhooks, SetPlan(w) PROVE IInv'
<1> DEFINE x == [webhook[w] EXCEPT !.pc = "list", !.raced = FALSE]
           y(v) == [webhook[v] EXCEPT !.raced = @ \/ webhook[v].pc \in {"list", "find", "write"}]
<1>1. webhook \in [Webhooks -> WebhookType]
  BY DEF IInv, TypeOK
<1>2. x \in WebhookType
  BY <1>1 DEF WebhookType
<1>3. \A v \in Webhooks : /\ y(v) \in WebhookType
                          /\ y(v).pc = webhook[v].pc /\ y(v).rows = webhook[v].rows
                          /\ y(v).off = webhook[v].off
  <2> SUFFICES ASSUME NEW v \in Webhooks
               PROVE  /\ y(v) \in WebhookType
                      /\ y(v).pc = webhook[v].pc /\ y(v).rows = webhook[v].rows
                      /\ y(v).off = webhook[v].off
    OBVIOUS
  <2>1. webhook[v] \in WebhookType
    BY <1>1
  <2> QED
    BY <2>1 DEF WebhookType
<1>4. webhook' = [v \in Webhooks |-> IF v = w THEN x ELSE y(v)]
  BY DEF SetPlan
<1>5. limit' \in Limits
  BY <1>1 DEF SetPlan, WebhookType
<1> HIDE DEF x, y
<1>6. webhook' \in [Webhooks -> WebhookType]
  BY <1>2, <1>3, <1>4
<1>7. DoneStays
  BY <1>3, <1>4 DEF DoneStays, SetPlan
<1>8. request' \in [Requests -> RequestType] /\ NoneClears
  BY AllOutdated DEF SetPlan
<1>9. TypeOK'
  BY <1>5, <1>6, <1>8 DEF IInv, TypeOK, SetPlan, history
<1>10. UsesBounded'
  BY DEF IInv, UsesBounded, Uses, SetPlan
<1> QED
  BY <1>7, <1>8, <1>9, <1>10, Quiet DEF SetPlan, history

LEMMA Counts ==
  ASSUME NEW S \in SUBSET Identities
  PROVE  /\ IsFiniteSet(S) /\ Cardinality(S) \in Nat
         /\ \A T \in SUBSET S : Cardinality(T) <= Cardinality(S)
BY FiniteAssumption, FS_Subset, FS_CardinalityType

LEMMA ListDevicesStep == ASSUME IInv, NEW w \in Webhooks, ListDevices(w) PROVE IInv'
<1>0. PICK n : n = webhook[w].limit
  OBVIOUS
<1> DEFINE room == n - Cardinality(Active)
           over == [webhook[w] EXCEPT !.pc = "write", !.off = TRUE, !.room = 0, !.rows = Excess(n)]
           under == [webhook[w] EXCEPT !.pc = "find", !.off = FALSE, !.room = room, !.rows = {}]
<1>1. webhook \in [Webhooks -> WebhookType] /\ webhook[w] \in WebhookType
  BY DEF IInv, TypeOK
<1>2. n \in Nat /\ Cardinality(Active) \in Nat /\ Excess(n) \in SUBSET Identities
  BY <1>0, <1>1, FiniteAssumption, Counts DEF WebhookType, Excess, Active, Rows
<1>3. webhook' = [webhook EXCEPT ![w] = IF Cardinality(Active) > n THEN over ELSE under]
  BY <1>0 DEF ListDevices
<1>4. ~(Cardinality(Active) > n) => room \in Nat
  BY <1>2
<1> HIDE DEF room
<1>5. over \in WebhookType /\ (~(Cardinality(Active) > n) => under \in WebhookType)
  BY <1>1, <1>2, <1>4 DEF WebhookType
<1> HIDE DEF over, under
<1>6. webhook' \in [Webhooks -> WebhookType]
  BY <1>1, <1>3, <1>5
<1>7. DoneStays
  BY <1>1, <1>3 DEF DoneStays, ListDevices
<1>8. TypeOK' /\ UsesBounded' /\ NoneClears
  BY <1>6, SameRequests DEF IInv, TypeOK, ListDevices, history, UsesBounded, Uses
<1> QED
  BY <1>7, <1>8, Quiet DEF ListDevices, history

LEMMA FindInactiveStep == ASSUME IInv, NEW w \in Webhooks, FindInactive(w) PROVE IInv'
<1>0. PICK S : S = Youngest(webhook[w].room)
  OBVIOUS
<1>1. webhook \in [Webhooks -> WebhookType] /\ S \in SUBSET Identities
  BY <1>0 DEF IInv, TypeOK, Youngest, Rows
<1>2. webhook' = [webhook EXCEPT ![w].pc = "write", ![w].rows = S] /\ webhook[w].pc = "find"
  BY <1>0 DEF FindInactive
<1>3. webhook' \in [Webhooks -> WebhookType]
  BY <1>1, <1>2 DEF WebhookType
<1>4. DoneStays
  BY <1>1, <1>2 DEF DoneStays
<1>5. TypeOK' /\ UsesBounded' /\ NoneClears
  BY <1>3, SameRequests DEF IInv, TypeOK, FindInactive, history, UsesBounded, Uses
<1> QED
  BY <1>4, <1>5, Quiet DEF FindInactive, history

LEMMA GatewayRestartStep == ASSUME IInv, GatewayRestart PROVE IInv'
<1> DEFINE q(r) == IF request[r].by = None THEN Idle ELSE [request[r] EXCEPT !.pc = "refused"]
           x(w) == IF webhook[w].pc \in {"list", "find", "write"} THEN [webhook[w] EXCEPT !.pc = "again"] ELSE webhook[w]
<1>1. request \in [Requests -> RequestType] /\ webhook \in [Webhooks -> WebhookType]
  BY DEF IInv, TypeOK
<1>2. \A r \in Requests : q(r) \in RequestType /\ q(r).pc \notin Found
  <2> SUFFICES ASSUME NEW r \in Requests PROVE q(r) \in RequestType /\ q(r).pc \notin Found
    OBVIOUS
  <2>1. request[r] \in RequestType
    BY <1>1
  <2>2. /\ [request[r] EXCEPT !.pc = "refused"] \in RequestType
        /\ [request[r] EXCEPT !.pc = "refused"].pc = "refused"
    BY <2>1 DEF RequestType, Pcs
  <2> QED
    BY <2>2, Constants DEF Found
<1>3. \A w \in Webhooks : x(w) \in WebhookType /\ (webhook[w].pc = "done" => x(w) = webhook[w])
  <2> SUFFICES ASSUME NEW w \in Webhooks
               PROVE  x(w) \in WebhookType /\ (webhook[w].pc = "done" => x(w) = webhook[w])
    OBVIOUS
  <2>1. webhook[w] \in WebhookType
    BY <1>1
  <2> QED
    BY <2>1 DEF WebhookType
<1>4. request' = [r \in Requests |-> q(r)] /\ webhook' = [w \in Webhooks |-> x(w)] /\ faults' = faults + 1
  BY DEF GatewayRestart, Fault
<1> HIDE DEF q, x
<1>5. request' \in [Requests -> RequestType] /\ NoneClears
  BY <1>2, <1>4 DEF NoneClears, Located, Found
<1>6. webhook' \in [Webhooks -> WebhookType] /\ DoneStays
  BY <1>3, <1>4 DEF DoneStays
<1>7. TypeOK' /\ UsesBounded'
  BY <1>4, <1>5, <1>6 DEF IInv, TypeOK, GatewayRestart, history, UsesBounded, Uses
<1> QED
  BY <1>5, <1>6, <1>7, Quiet DEF GatewayRestart, history

-----------------------------------------------------------------------------
(* Steps that write devices *)

(* The row of one device is replaced by d. *)
LEMMA RowTyped ==
  ASSUME IInv, NEW i \in Identities, NEW d \in Row, device' = [device EXCEPT ![i] = d]
  PROVE  /\ device' \in [Identities -> Row]
         /\ device'[i] = d
         /\ \A j \in Identities \ {i} : device'[j] = device[j]
BY DEF IInv, TypeOK

LEMMA RotateStep == ASSUME IInv, NEW r \in Requests, Rotate(r) PROVE IInv'
<1> DEFINE i == request[r].i
           c == issued + 1
           d == [device[i] EXCEPT !.cred = c]
           pc == IF request[r].was THEN "clear" ELSE "done"
           q == [request[r] EXCEPT !.pc = pc, !.cred = c]
<1>1. /\ request \in [Requests -> RequestType] /\ request[r] \in RequestType
      /\ device \in [Identities -> Row] /\ issued \in Nat
  BY DEF IInv, TypeOK
<1>2. i \in Identities
  BY DEF Rotate, IsAt, IInv, Located, Found
<1>3. /\ d \in Row /\ d.cred = c
      /\ d.revoked = device[i].revoked /\ d.inactive = device[i].inactive
  BY <1>1, <1>2 DEF Row
<1>4. q \in RequestType /\ q.pc = pc /\ q.i = i
  <2>1. pc \in Pcs /\ c \in Nat
    BY <1>1 DEF Pcs, Counted
  <2> HIDE DEF pc, c
  <2> QED
    BY <1>1, <2>1 DEF RequestType
<1>5. /\ issued' = c /\ device' = [device EXCEPT ![i] = d] /\ request' = [request EXCEPT ![r] = q]
      /\ lapsed' = IF device[i].revoked \/ device[i].inactive THEN lapsed \cup {c} ELSE lapsed
  BY <1>1, <1>2 DEF Rotate
<1> HIDE DEF d, q
<1>6. /\ device' \in [Identities -> Row] /\ device'[i] = d
      /\ \A j \in Identities \ {i} : device'[j] = device[j]
  BY <1>2, <1>3, <1>5, RowTyped
<1>7. request' \in [Requests -> RequestType] /\ request'[r] = q
      /\ \A s \in Requests \ {r} : request'[s] = request[s]
  BY <1>1, <1>4, <1>5
<1>8. TypeOK'
  BY <1>1, <1>5, <1>6, <1>7 DEF IInv, TypeOK, Rotate
<1>9. UsesBounded'
  BY DEF IInv, UsesBounded, Uses, Rotate
<1>10. Numbered'
  <2>1. dead' = dead /\ issued' = issued + 1
    BY <1>5 DEF Rotate
  <2>2. \A j \in Identities \ {i} : device'[j].cred <= issued
    BY <1>6 DEF IInv, Numbered
  <2>3. device'[i].cred = issued + 1
    BY <1>3, <1>6
  <2>4. \A j, k \in Identities : device'[j].cred = device'[k].cred /\ device'[j].cred # 0 => j = k
    BY <1>1, <1>6, <2>2, <2>3 DEF IInv, Numbered
  <2>5. \A j \in Identities : device'[j].cred <= issued'
    <3> SUFFICES ASSUME NEW j \in Identities PROVE device'[j].cred <= issued'
      OBVIOUS
    <3>1. device'[j].cred \in Nat
      BY <1>6 DEF Row
    <3> QED
      BY <1>1, <2>1, <2>2, <2>3, <3>1
  <2>6. dead' \subseteq 1..issued'
    BY <1>1, <2>1 DEF IInv, Numbered
  <2> QED
    BY <2>4, <2>5, <2>6 DEF Numbered
<1>11. Located'
  BY <1>2, <1>4, <1>7 DEF IInv, Located
<1>12. DeadIsRevoked'
  <2> SUFFICES ASSUME NEW j \in Identities, device'[j].cred \in dead'
               PROVE  device'[j].revoked /\ ~Clearing(j)'
    BY DEF DeadIsRevoked
  <2>1. dead' = dead /\ dead \subseteq 1..issued
    BY DEF Rotate, IInv, Numbered
  <2>2. j # i
    BY <1>1, <1>3, <1>6, <2>1
  <2>3. device'[j] = device[j] /\ device[j].revoked /\ ~Clearing(j)
    BY <1>6, <2>1, <2>2 DEF IInv, DeadIsRevoked
  <2> QED
    BY <1>4, <1>7, <2>2, <2>3 DEF Clearing, IsAt
<1>13. RevokedIsInactive'
  BY <1>3, <1>6 DEF IInv, RevokedIsInactive, DoneFor, Rotate
<1> QED
  BY <1>8, <1>9, <1>10, <1>11, <1>12, <1>13 DEF IInv

(* A device joins the active ones. *)
LEMMA JoiningTyped ==
  ASSUME IInv, NEW r \in Requests, NEW c \in Nat, Joining(r, "done", c)
  PROVE  /\ request' \in [Requests -> RequestType] /\ NoneClears
         /\ request'[r].pc = "done"
         /\ webhook' \in [Webhooks -> WebhookType] /\ DoneStays
         /\ outrun' \in BOOLEAN
<1> DEFINE q == [request[r] EXCEPT !.pc = "done", !.cred = c]
<1>1. /\ request \in [Requests -> RequestType] /\ request[r] \in RequestType
      /\ webhook \in [Webhooks -> WebhookType] /\ outrun \in BOOLEAN
  BY DEF IInv, TypeOK
<1>2. q \in RequestType /\ q.pc = "done"
  BY <1>1 DEF RequestType, Pcs
<1>3. /\ request' = [s \in Requests |-> IF s = r THEN q ELSE Outdated(request[s])]
      /\ webhook' = [w \in Webhooks |-> Overtaken(webhook[w])]
      /\ outrun' = (outrun \/ request[r].raced)
  BY DEF Joining
<1> HIDE DEF q
<1>4. \A s \in Requests : /\ request'[s] \in RequestType
                          /\ s = r => request'[s].pc = "done"
                          /\ s # r => request'[s].pc = request[s].pc /\ request'[s].i = request[s].i
  BY <1>1, <1>2, <1>3, OutdatedTyped
<1>5. request' \in [Requests -> RequestType] /\ request'[r].pc = "done"
  BY <1>3, <1>4
<1>6. NoneClears
  BY <1>4 DEF NoneClears, Located, Found, IInv
<1>7. \A w \in Webhooks : /\ webhook'[w] \in WebhookType
                          /\ webhook'[w].pc = webhook[w].pc /\ webhook'[w].rows = webhook[w].rows
                          /\ webhook'[w].off = webhook[w].off
  BY <1>1, <1>3, OvertakenTyped
<1>8. webhook' \in [Webhooks -> WebhookType] /\ DoneStays
  BY <1>3, <1>7 DEF DoneStays
<1>9. outrun' \in BOOLEAN
  BY <1>1, <1>3 DEF RequestType
<1> QED
  BY <1>5, <1>6, <1>8, <1>9

LEMMA DoneForStays == ASSUME DoneStays PROVE \A i \in Identities : DoneFor(i) => DoneFor(i)'
BY DEF DoneFor, DoneStays

LEMMA ClearStep == ASSUME IInv, NEW r \in Requests, Clear(r) PROVE IInv'
<1> DEFINE i == request[r].i
           d == [device[i] EXCEPT !.revoked = FALSE, !.inactive = FALSE]
<1>1. /\ device \in [Identities -> Row] /\ request[r].cred \in Nat
  BY DEF IInv, TypeOK, RequestType
<1>2. i \in Identities
  BY DEF Clear, IsAt, IInv, Located, Found
<1>3. d \in Row /\ d.cred = device[i].cred /\ ~d.revoked
  BY <1>1, <1>2 DEF Row
<1>4. device' = [device EXCEPT ![i] = d] /\ Joining(r, "done", request[r].cred)
  BY DEF Clear
<1> HIDE DEF d
<1>5. /\ device' \in [Identities -> Row] /\ device'[i] = d
      /\ \A j \in Identities \ {i} : device'[j] = device[j]
  BY <1>2, <1>3, <1>4, RowTyped
<1>6. /\ request' \in [Requests -> RequestType] /\ NoneClears
      /\ webhook' \in [Webhooks -> WebhookType] /\ DoneStays
      /\ outrun' \in BOOLEAN
  BY <1>1, <1>4, JoiningTyped
<1>7. TypeOK' /\ UsesBounded'
  BY <1>5, <1>6 DEF IInv, TypeOK, Clear, UsesBounded, Uses
<1>8. \A j \in Identities : device'[j].cred = device[j].cred
  BY <1>3, <1>5
<1>9. Numbered' /\ Located'
  BY <1>6, <1>8 DEF IInv, Numbered, Clear, NoneClears
<1>10. DeadIsRevoked'
  <2> SUFFICES ASSUME NEW j \in Identities, device'[j].cred \in dead'
               PROVE  device'[j].revoked /\ ~Clearing(j)'
    BY DEF DeadIsRevoked
  <2>1. device[j].revoked /\ ~Clearing(j)
    BY <1>8 DEF IInv, DeadIsRevoked, Clear
  <2>2. j # i
    BY <2>1 DEF Clearing, Clear
  <2> QED
    BY <1>5, <1>6, <2>1, <2>2 DEF Clearing, IsAt, NoneClears
<1>11. RevokedIsInactive'
  BY <1>3, <1>5, <1>6, DoneForStays DEF IInv, RevokedIsInactive
<1> QED
  BY <1>7, <1>9, <1>10, <1>11 DEF IInv

LEMMA CreateStep == ASSUME IInv, NEW r \in Requests, Create(r) PROVE IInv'
<1> DEFINE i == request[r].i
           c == issued + 1
           d == [NoRow EXCEPT !.cred = c, !.born = c]
<1>1. CASE i \in Rows
  <2>1. /\ Goto(r, "read") /\ "read" \in Pcs \ {"clear"} /\ i \in Identities
        /\ UNCHANGED <<device, issued, webhook, outrun>>
    BY <1>1 DEF Create, Pcs, Counted, Rows
  <2> QED
    BY <2>1, GotoStep DEF Create, history
<1>2. CASE i \notin Rows
  <2>1. /\ device \in [Identities -> Row] /\ issued \in Nat
    BY DEF IInv, TypeOK
  <2>2. issued' = c /\ device' = [device EXCEPT ![i] = d] /\ Joining(r, "done", c)
    BY <1>2 DEF Create
  <2>3. d \in Row /\ d.cred = c /\ ~d.revoked
    <3>1. c \in Nat
      BY <2>1
    <3> HIDE DEF c
    <3> QED
      BY <3>1 DEF NoRow, Row
  <2> HIDE DEF d
  <2>4. /\ device' \in [Identities -> Row] /\ (i \in Identities => device'[i] = d)
        /\ \A j \in Identities \ {i} : device'[j] = device[j]
    BY <2>1, <2>2, <2>3
  <2>5. /\ request' \in [Requests -> RequestType] /\ NoneClears
        /\ webhook' \in [Webhooks -> WebhookType] /\ DoneStays
        /\ outrun' \in BOOLEAN
    BY <2>1, <2>2, JoiningTyped
  <2>6. TypeOK' /\ UsesBounded'
    BY <2>1, <2>2, <2>4, <2>5 DEF IInv, TypeOK, Create, UsesBounded, Uses
  <2>7. Numbered'
    <3>1. dead' = dead /\ issued' = issued + 1
      BY <2>2 DEF Create
    <3>2. \A j \in Identities \ {i} : device'[j].cred <= issued
      BY <2>4 DEF IInv, Numbered
    <3>3. i \in Identities => device'[i].cred = issued + 1
      BY <2>3, <2>4
    <3>4. \A j, k \in Identities : device'[j].cred = device'[k].cred /\ device'[j].cred # 0 => j = k
      BY <2>1, <2>4, <3>2, <3>3 DEF IInv, Numbered
    <3>5. \A j \in Identities : device'[j].cred <= issued'
      <4> SUFFICES ASSUME NEW j \in Identities PROVE device'[j].cred <= issued'
        OBVIOUS
      <4>1. device'[j].cred \in Nat
        BY <2>4 DEF Row
      <4> QED
        BY <2>1, <3>1, <3>2, <3>3, <4>1
    <3>6. dead' \subseteq 1..issued'
      BY <2>1, <3>1 DEF IInv, Numbered
    <3> QED
      BY <3>4, <3>5, <3>6 DEF Numbered
  <2>8. DeadIsRevoked'
    <3> SUFFICES ASSUME NEW j \in Identities, device'[j].cred \in dead'
                 PROVE  device'[j].revoked /\ ~Clearing(j)'
      BY DEF DeadIsRevoked
    <3>1. dead' = dead /\ dead \subseteq 1..issued
      BY DEF Create, IInv, Numbered
    <3>2. j # i
      BY <2>1, <2>3, <2>4, <3>1
    <3>3. device'[j] = device[j] /\ device[j].revoked /\ ~Clearing(j)
      BY <2>4, <3>1, <3>2 DEF IInv, DeadIsRevoked
    <3> QED
      BY <2>5, <3>3 DEF Clearing, IsAt, NoneClears
  <2>9. RevokedIsInactive'
    BY <2>3, <2>4, <2>5, DoneForStays DEF IInv, RevokedIsInactive
  <2> QED
    BY <2>5, <2>6, <2>7, <2>8, <2>9 DEF IInv, NoneClears
<1> QED
  BY <1>1, <1>2

LEMMA RevokeStep == ASSUME IInv, NEW i \in Identities, Revoke(i) PROVE IInv'
<1> DEFINE d == [device[i] EXCEPT !.revoked = TRUE, !.inactive = TRUE]
<1>1. device \in [Identities -> Row] /\ issued \in Nat
  BY DEF IInv, TypeOK
<1>2. d \in Row /\ d.cred = device[i].cred /\ d.revoked /\ d.inactive
  BY <1>1 DEF Row
<1>3. /\ device' = [device EXCEPT ![i] = d]
      /\ lapsed' = lapsed \cup {device[i].cred}
      /\ dead' = IF Clearing(i) THEN dead ELSE dead \cup {device[i].cred}
  BY DEF Revoke, Clearing
<1> HIDE DEF d
<1>4. /\ device' \in [Identities -> Row] /\ device'[i] = d
      /\ \A j \in Identities \ {i} : device'[j] = device[j]
  BY <1>2, <1>3, RowTyped
<1>5. device[i].cred \in 1..issued
  BY <1>1 DEF Revoke, Rows, Row, IInv, Numbered
<1>6. dead' \subseteq 1..issued
  BY <1>3, <1>5 DEF IInv, Numbered
<1>7. TypeOK' /\ UsesBounded' /\ Located'
  <2>1. lapsed' \in SUBSET Nat /\ dead' \in SUBSET Nat
    <3>1. device[i].cred \in Nat
      BY <1>1 DEF Row
    <3>2. lapsed \in SUBSET Nat /\ dead \in SUBSET Nat
      BY DEF IInv, TypeOK
    <3> QED
      BY <1>3, <3>1, <3>2
  <2> QED
    BY <1>4, <2>1 DEF IInv, TypeOK, Revoke, UsesBounded, Uses, Located
<1>8. \A j \in Identities : device'[j].cred = device[j].cred
  BY <1>2, <1>4
<1>9. Numbered'
  BY <1>6, <1>8 DEF IInv, Numbered, Revoke
<1>10. DeadIsRevoked'
  <2> SUFFICES ASSUME NEW j \in Identities, device'[j].cred \in dead'
               PROVE  device'[j].revoked /\ ~Clearing(j)'
    BY DEF DeadIsRevoked
  <2>1. Clearing(j)' = Clearing(j)
    BY DEF Clearing, IsAt, Revoke
  <2>2. CASE device[j].cred \in dead
    BY <1>2, <1>4, <2>1, <2>2 DEF IInv, DeadIsRevoked
  <2>3. CASE device[j].cred \notin dead
    <3>1. ~Clearing(i) /\ device[j].cred = device[i].cred
      BY <1>3, <1>8, <2>3
    <3>2. j = i
      BY <1>5, <3>1 DEF IInv, Numbered
    <3> QED
      BY <1>2, <1>4, <2>1, <3>1, <3>2
  <2> QED
    BY <2>2, <2>3
<1>11. RevokedIsInactive'
  BY <1>2, <1>4 DEF IInv, RevokedIsInactive, DoneFor, Revoke
<1> QED
  BY <1>7, <1>9, <1>10, <1>11 DEF IInv

LEMMA WriteDevicesStep == ASSUME IInv, NEW w \in Webhooks, WriteDevices(w) PROVE IInv'
<1> DEFINE rows == webhook[w].rows
           off == webhook[w].off
           d(i) == IF i \in rows THEN [device[i] EXCEPT !.inactive = off] ELSE device[i]
           x == [webhook[w] EXCEPT !.pc = "done"]
<1>1. /\ device \in [Identities -> Row] /\ outrun \in BOOLEAN
      /\ webhook \in [Webhooks -> WebhookType] /\ webhook[w] \in WebhookType
  BY DEF IInv, TypeOK
<1>2. off \in BOOLEAN /\ rows \in SUBSET Identities /\ webhook[w].raced \in BOOLEAN
  BY <1>1 DEF WebhookType
<1>3. x \in WebhookType /\ x.pc = "done" /\ x.rows = rows /\ x.off = off
  BY <1>1 DEF WebhookType
<1>4. /\ device' = [i \in Identities |-> d(i)]
      /\ webhook' = [v \in Webhooks |-> IF v = w THEN x ELSE Overtaken(webhook[v])]
      /\ lapsed' = IF off THEN lapsed \cup {device[i].cred : i \in rows} ELSE lapsed
      /\ outrun' = (outrun \/ (webhook[w].raced /\ ~off /\ rows # {}))
  BY DEF WriteDevices
<1>5. \A i \in Identities :
        /\ d(i) \in Row /\ d(i).cred = device[i].cred /\ d(i).revoked = device[i].revoked
        /\ d(i).inactive = IF i \in rows THEN off ELSE device[i].inactive
  BY <1>1, <1>2 DEF Row
<1>6. lapsed' \in SUBSET Nat /\ outrun' \in BOOLEAN
  BY <1>1, <1>2, <1>4 DEF IInv, TypeOK, Row
<1> HIDE DEF d, x
<1>7. \A v \in Webhooks :
        /\ webhook'[v] \in WebhookType
        /\ v = w => webhook'[v] = x
        /\ v # w => /\ webhook'[v].pc = webhook[v].pc /\ webhook'[v].rows = webhook[v].rows
                     /\ webhook'[v].off = webhook[v].off
  BY <1>1, <1>3, <1>4, OvertakenTyped
<1>8. webhook' \in [Webhooks -> WebhookType] /\ device' \in [Identities -> Row]
  BY <1>4, <1>5, <1>7
<1>9. request' \in [Requests -> RequestType] /\ NoneClears
  BY AllOutdated DEF WriteDevices
<1>10. TypeOK' /\ UsesBounded' /\ Located'
  BY <1>6, <1>8, <1>9 DEF IInv, TypeOK, WriteDevices, UsesBounded, Uses, NoneClears
<1>11. \A i \in Identities : device'[i] = d(i)
  BY <1>4
<1>12. Numbered'
  BY <1>5, <1>11 DEF IInv, Numbered, WriteDevices
<1>13. DeadIsRevoked'
  BY <1>5, <1>9, <1>11 DEF IInv, DeadIsRevoked, Clearing, IsAt, NoneClears, WriteDevices
<1>14. RevokedIsInactive'
  <2> SUFFICES ASSUME NEW i \in Identities, device'[i].revoked
               PROVE  device'[i].inactive \/ DoneFor(i)'
    BY DEF RevokedIsInactive
  <2>1. device[i].revoked
    BY <1>5, <1>11
  <2>2. DoneFor(i) => DoneFor(i)'
    BY <1>7 DEF DoneFor, WriteDevices
  <2>3. i \in rows /\ ~off => DoneFor(i)'
    BY <1>3, <1>7 DEF DoneFor
  <2> QED
    BY <1>2, <1>5, <1>11, <2>1, <2>2, <2>3 DEF IInv, RevokedIsInactive
<1> QED
  BY <1>10, <1>12, <1>13, <1>14 DEF IInv

-----------------------------------------------------------------------------
LEMMA StepIInv == IInv /\ [Next]_vars => IInv'
<1> SUFFICES ASSUME IInv, [Next]_vars PROVE IInv'
  OBVIOUS
<1>1. ASSUME NEW r \in Requests, Gateway(r) \/ Forget(r) \/ Answered(r) \/ TimeOut(r)
      PROVE  IInv'
  BY <1>1, ValidateStep, ConsumeStep, CountStep, FindStep, ReadStep, RotateStep, ClearStep, CreateStep,
     ForgetStep, AnsweredStep, TimeOutStep DEF Gateway
<1>2. ASSUME NEW r \in Requests, NEW i \in Identities, NEW k \in Tokens, Recover(r, i, k)
      PROVE  IInv'
  BY <1>2, RecoverStep
<1>3. ASSUME NEW k \in Tokens, EndToken(k) PROVE IInv'
  BY <1>3, EndTokenStep
<1>4. ASSUME NEW w \in Webhooks, SetPlan(w) \/ ListDevices(w) \/ FindInactive(w) \/ WriteDevices(w) PROVE IInv'
  BY <1>4, SetPlanStep, ListDevicesStep, FindInactiveStep, WriteDevicesStep
<1>5. ASSUME NEW i \in Identities, Revoke(i) PROVE IInv'
  BY <1>5, RevokeStep
<1>6. ASSUME NEW m \in Machines, Metrics(m) \/ Report(m) \/ Invalidate(m) \/ Retry(m) \/ Reset(m) PROVE IInv'
  BY <1>6, MetricsStep, ReportStep, InvalidateStep, RetryStep, ResetStep
<1>7. ASSUME NEW m \in Machines, NEW a \in Who, SaveToken(m, a) \/ SaveId(m, a) \/ Crash(m, a)
      PROVE  IInv'
  BY <1>7, SaveTokenStep, SaveIdStep, CrashStep
<1>8. ASSUME NEW m \in Machines, NEW a \in Who, NEW k \in Tokens \cup {None}, Start(m, a, k)
      PROVE  IInv'
  BY <1>8, StartStep
<1>9. CASE GatewayRestart
  BY <1>9, GatewayRestartStep
<1>10. CASE UNCHANGED vars
  <2>1. Outside' /\ NoneClears
    BY <1>10, OutsideTyped, SameRequests DEF vars, gateway, Outside
  <2> QED
    BY <1>10, <2>1, OutsideStep DEF vars, gateway
<1> QED
  BY <1>1, <1>2, <1>3, <1>4, <1>5, <1>6, <1>7, <1>8, <1>9, <1>10 DEF Next

(* The inductive invariant the theorems below follow from: types, uses, rows *)
(* numbered in order, and what the writers have in hand about revocation.     *)
THEOREM Invariant == Spec => []IInv
BY InitIInv, StepIInv, PTL DEF Spec

(* Every row, request, plan change and process keeps its shape, whatever      *)
(* order registrations, administrators, agents and faults take turns in.      *)
THEOREM TypeCorrect == Spec => []TypeOK
<1>1. IInv => TypeOK
  BY DEF IInv
<1> QED
  BY <1>1, Invariant, PTL

(* devices.service.ts:158: a credential that was current at a revocation is   *)
(* never accepted again: who re-enrols the device rotates it before the       *)
(* revocation is cleared.                                                     *)
THEOREM RevokedCredentialDead == Spec => []OldCredentialDead
<1>1. IInv => OldCredentialDead
  <2> SUFFICES ASSUME IInv, NEW c \in dead, NEW i \in Active, device[i].cred = c PROVE device[i].revoked
    BY DEF OldCredentialDead, Accepts
  <2> QED
    BY DEF IInv, DeadIsRevoked, Active, Rows
<1> QED
  BY <1>1, Invariant, PTL

-----------------------------------------------------------------------------
(* Counting: what is left of LimitsKept, and DeletesStaleOnly, need more than *)
(* IInv.  PlacesRight is about the places in the plan and the uses of tokens, *)
(* AgentsRight about the credentials that agents hold.                        *)

(* Of the elements of S, numbered by f, at most n have fewer than n before them. *)
LEMMA FewAreFirst ==
  ASSUME NEW S, IsFiniteSet(S), NEW f, \A i \in S : f[i] \in Int,
         \A i, j \in S : f[i] = f[j] => i = j, NEW n \in Nat,
         NEW K, K = {i \in S : Cardinality({j \in S : f[j] < f[i]}) < n}
  PROVE  IsFiniteSet(K) /\ Cardinality(K) <= n
<1> DEFINE Before(i) == {j \in S : f[j] < f[i]}
           g == [i \in K |-> Cardinality(Before(i))]
<1>1. \A i \in S : IsFiniteSet(Before(i)) /\ Cardinality(Before(i)) \in Nat
  BY FS_Subset, FS_CardinalityType
<1>2. \A i, j \in S : f[i] < f[j] => Cardinality(Before(i)) < Cardinality(Before(j))
  <2> SUFFICES ASSUME NEW i \in S, NEW j \in S, f[i] < f[j]
               PROVE  Cardinality(Before(i)) < Cardinality(Before(j))
    OBVIOUS
  <2>1. Before(i) \in SUBSET Before(j) /\ i \in Before(j) /\ i \notin Before(i)
    OBVIOUS
  <2>2. Cardinality(Before(i)) <= Cardinality(Before(j)) /\ Cardinality(Before(i)) # Cardinality(Before(j))
    BY <1>1, <2>1, FS_Subset
  <2> HIDE DEF Before
  <2> QED
    BY <1>1, <2>2
<1>3. g \in [K -> 0..n - 1]
  <2>1. \A i \in K : i \in S /\ Cardinality(Before(i)) < n
    OBVIOUS
  <2> HIDE DEF Before
  <2> QED
    BY <1>1, <2>1
<1>4. \A i, j \in K : g[i] = g[j] => i = j
  <2> SUFFICES ASSUME NEW i \in K, NEW j \in K, g[i] = g[j] PROVE i = j
    OBVIOUS
  <2>1. i \in S /\ j \in S /\ Cardinality(Before(i)) = Cardinality(Before(j))
    OBVIOUS
  <2> HIDE DEF Before, g
  <2>2. ~(f[i] < f[j]) /\ ~(f[j] < f[i])
    BY <1>1, <1>2, <2>1
  <2> QED
    BY <2>1, <2>2
<1>5. g \in Injection(K, 0..n - 1)
  <2> HIDE DEF g
  <2> QED
    BY <1>3, <1>4 DEF Injection, IsInjective
<1>6. IsFiniteSet(0..n - 1) /\ Cardinality(0..n - 1) = n
  BY FS_Interval
<1> QED
  BY <1>5, <1>6, FS_Injection

(* The devices are finitely many, and each was registered before or after    *)
(* each other.                                                               *)
BornOnce ==
  /\ \A i \in Rows : device[i].born \in 1..issued
  /\ \A i, j \in Rows : device[i].born = device[j].born => i = j

LEMMA OneMore ==
  ASSUME NEW S \in SUBSET Identities, NEW T \in SUBSET Identities, NEW i, T \subseteq S \cup {i}
  PROVE  Cardinality(T) <= Cardinality(S) + 1
<1>1. IsFiniteSet(S) /\ Cardinality(S) \in Nat /\ IsFiniteSet(T) /\ Cardinality(T) \in Nat
  BY Counts
<1>2. IsFiniteSet(S \cup {i}) /\ Cardinality(S \cup {i}) <= Cardinality(S) + 1
  BY <1>1, FS_AddElement
<1>3. Cardinality(S \cup {i}) \in Nat
  BY <1>2, FS_CardinalityType
<1>4. Cardinality(T) <= Cardinality(S \cup {i})
  BY <1>2, FS_Subset
<1> QED
  BY <1>1, <1>2, <1>3, <1>4

(* What a plan change deactivates leaves the n devices that were first, and   *)
(* what it reactivates finds room.                                           *)
LEMMA ExcessLeaves ==
  ASSUME IInv, BornOnce, NEW n \in Nat
  PROVE  Cardinality(Active \ Excess(n)) <= n
<1> DEFINE f == [i \in Active |-> device[i].born]
           K == {i \in Active : Cardinality({j \in Active : f[j] < f[i]}) < n}
<1>1. \A i \in Active : f[i] \in Int
  BY DEF IInv, TypeOK, Row, Active, Rows
<1>2. \A i, j \in Active : f[i] = f[j] => i = j
  BY DEF BornOnce, Active
<1>3. IsFiniteSet(Active)
  BY Counts DEF Active, Rows
<1>4. Cardinality(K) <= n
  <2>1. K = {i \in Active : Cardinality({j \in Active : f[j] < f[i]}) < n}
    OBVIOUS
  <2> HIDE DEF f, K
  <2> QED
    BY <1>1, <1>2, <1>3, <2>1, FewAreFirst
<1>5. \A i \in Active : {j \in Active : f[j] < f[i]} = Older(Active, i)
  <2> SUFFICES ASSUME NEW i \in Active PROVE {j \in Active : f[j] < f[i]} = Older(Active, i)
    OBVIOUS
  <2>1. \A j \in Active : f[j] = device[j].born
    OBVIOUS
  <2> HIDE DEF f
  <2> QED
    BY <2>1 DEF Older
<1>6. \A i \in Active : Cardinality(Older(Active, i)) \in Nat
  BY Counts DEF Older, Active, Rows
<1>7. Active \ Excess(n) = K
  <2> HIDE DEF f
  <2> QED
    BY <1>5, <1>6 DEF Excess
<1> QED
  BY <1>4, <1>7

LEMMA YoungestAreFew ==
  ASSUME IInv, BornOnce, NEW k \in Nat
  PROVE  IsFiniteSet(Youngest(k)) /\ Cardinality(Youngest(k)) <= k
<1>0. PICK S : S = Rows \ Active
  OBVIOUS
<1> DEFINE f == [i \in S |-> 0 - device[i].born]
           K == {i \in S : Cardinality({j \in S : f[j] < f[i]}) < k}
<1>1. \A i \in S : device[i].born \in Nat /\ i \in Rows
  BY <1>0 DEF IInv, TypeOK, Row, Rows
<1>2. \A i \in S : f[i] \in Int
  BY <1>1
<1>3. \A i, j \in S : f[i] = f[j] => i = j
  <2> SUFFICES ASSUME NEW i \in S, NEW j \in S, f[i] = f[j] PROVE i = j
    OBVIOUS
  <2>1. 0 - device[i].born = 0 - device[j].born
    OBVIOUS
  <2>2. device[i].born = device[j].born
    BY <1>1, <2>1
  <2> QED
    BY <1>1, <2>2 DEF BornOnce
<1>4. IsFiniteSet(S)
  BY <1>0, Counts DEF Active, Rows
<1>5. IsFiniteSet(K) /\ Cardinality(K) <= k
  <2>1. K = {i \in S : Cardinality({j \in S : f[j] < f[i]}) < k}
    OBVIOUS
  <2> HIDE DEF f, K
  <2> QED
    BY <1>2, <1>3, <1>4, <2>1, FewAreFirst
<1>6. \A i \in S : {j \in S : f[j] < f[i]} = Younger(S, i)
  <2> SUFFICES ASSUME NEW i \in S PROVE {j \in S : f[j] < f[i]} = Younger(S, i)
    OBVIOUS
  <2>1. \A j \in S : f[j] = 0 - device[j].born
    OBVIOUS
  <2> HIDE DEF f
  <2> QED
    BY <1>1, <2>1 DEF Younger
<1>7. Youngest(k) = K
  <2> HIDE DEF f
  <2> QED
    BY <1>0, <1>6 DEF Youngest
<1> QED
  BY <1>5, <1>7

LEMMA RoomFits ==
  ASSUME IInv, BornOnce, NEW n \in Nat, NEW k \in Nat, Cardinality(Active) + k <= n
  PROVE  Cardinality(Active \cup Youngest(k)) <= n
<1>0. PICK K : K = Youngest(k)
  OBVIOUS
<1>1. IsFiniteSet(K) /\ Cardinality(K) <= k
  BY <1>0, YoungestAreFew
<1>2. Cardinality(Active) \in Nat /\ IsFiniteSet(Active)
  BY Counts DEF Active, Rows
<1>3. Cardinality(Active \cup K) = Cardinality(Active) + Cardinality(K) - Cardinality(Active \cap K)
  BY <1>1, <1>2, FS_Union
<1>4. Cardinality(K) \in Nat /\ Cardinality(Active \cap K) \in Nat
  BY <1>1, <1>2, FS_Intersection, FS_CardinalityType
<1> QED
  BY <1>0, <1>1, <1>2, <1>3, <1>4

-----------------------------------------------------------------------------
(* Places in the plan *)

(* Who works on a row has found it; a recovery only rotates; and who counted *)
(* in time, and was not overtaken since, counted right.                      *)
RequestRight(r) ==
  LET q == request[r] IN
  /\ q.pc \in Found => q.i \in Rows
  /\ q.op = "recover" => ~q.was /\ q.pc \notin {"count", "read", "create", "clear"}
  /\ q.op = "register" /\ q.pc \in Counted /\ ~q.raced => Cardinality(Active) < limit

(* So did a plan change that was not overtaken. *)
PlanRight(w) ==
  LET x == webhook[w] IN
  /\ x.pc = "list" /\ ~x.raced => limit = x.limit
  /\ x.pc = "find" /\ ~x.raced => Cardinality(Active) + x.room <= limit
  /\ x.pc = "write" /\ ~x.raced /\ ~x.off => Cardinality(Active \cup x.rows) <= limit

(* A plan change under way brings the active devices back to the limit. *)
Cures(w) ==
  LET x == webhook[w] IN
  \/ x.pc = "again"
  \/ x.pc = "list" /\ limit = x.limit
  \/ x.pc = "write" /\ x.off /\ Cardinality(Active \ x.rows) <= limit
Cured == ~outrun => Cardinality(Active) <= limit \/ \E w \in Webhooks : Cures(w)

(* Credentials issued, and to be issued, are paid for with a use of a token. *)
Paying == {r \in Requests : request[r].pc \in {"count", "find", "read", "rotate", "create"}}
PaidFor == issued + Cardinality(Paying) <= Cardinality(Paid)

PlacesRight ==
  /\ BornOnce /\ Cured /\ PaidFor
  /\ \A r \in Requests : RequestRight(r)
  /\ \A w \in Webhooks : PlanRight(w)

LEMMA PairsFinite == IsFiniteSet(Tokens \X (1..MaxUses))
<1>1. IsFiniteSet(1..MaxUses)
  BY BoundsAssumption, FS_Interval
<1>2. IsFiniteSet(Tokens)
  BY FiniteAssumption
<1> QED
  BY <1>1, <1>2, FS_Product

(* Devices, requests and uses of tokens can be counted, ... *)
LEMMA Numbers ==
  ASSUME IInv
  PROVE  /\ issued \in Nat /\ limit \in Nat
         /\ Rows \in SUBSET Identities /\ Active \in SUBSET Identities
         /\ Cardinality(Active) \in Nat
         /\ IsFiniteSet(Paying) /\ Cardinality(Paying) \in Nat
         /\ IsFiniteSet(Paid) /\ Cardinality(Paid) \in Nat
<1>1. issued \in Nat /\ limit \in Nat
  BY FiniteAssumption DEF IInv, TypeOK
<1>2. Rows \in SUBSET Identities /\ Active \in SUBSET Identities
  BY DEF Active, Rows
<1>3. IsFiniteSet(Tokens \X (1..MaxUses))
  BY PairsFinite
<1>4. IsFiniteSet(Paid) /\ IsFiniteSet(Paying)
  BY <1>3, FiniteAssumption, FS_Subset DEF Paid, Paying
<1> QED
  BY <1>1, <1>2, <1>4, Counts, FS_CardinalityType

(* ... and so they are after a step. *)
LEMMA NumbersNext ==
  ASSUME IInv'
  PROVE  /\ issued' \in Nat /\ limit' \in Nat
         /\ Rows' \in SUBSET Identities /\ Active' \in SUBSET Identities
         /\ Cardinality(Active') \in Nat
         /\ IsFiniteSet(Paying') /\ Cardinality(Paying') \in Nat
         /\ IsFiniteSet(Paid') /\ Cardinality(Paid') \in Nat
<1>1. issued' \in Nat /\ limit' \in Nat
  BY FiniteAssumption DEF IInv, TypeOK
<1>2. Rows' \in SUBSET Identities /\ Active' \in SUBSET Identities
  BY DEF Active, Rows
<1>3. IsFiniteSet(Tokens \X (1..MaxUses))
  BY PairsFinite
<1>4. Paid' \subseteq Tokens \X (1..MaxUses) /\ Paying' \subseteq Requests
  BY DEF Paid, Paying
<1>5. IsFiniteSet(Paid') /\ IsFiniteSet(Paying')
  BY <1>3, <1>4, FiniteAssumption, FS_Subset
<1> QED
  BY <1>1, <1>2, <1>5, Counts, FS_CardinalityType

(* A request that goes back, ends or begins, or stays where it is, whoever   *)
(* waits for it.                                                             *)
Early == {"idle", "validate", "consume", "refused"}
Moves(r) ==
  LET p == request[r]  q == request'[r] IN
  /\ q.pc \in Early \/ (q.pc = p.pc /\ q.op = p.op /\ q.i = p.i /\ q.cred = p.cred /\ (p.raced => q.raced))
  /\ q.op = "recover" => ~q.was \/ (p.op = "recover" /\ p.was)
  /\ q.cred \in {0, p.cred}

LEMMA MovesRight ==
  ASSUME IInv, IInv', NEW r \in Requests, RequestRight(r), Moves(r), limit' = limit,
         Rows \subseteq Rows', Cardinality(Active') <= Cardinality(Active)
  PROVE  RequestRight(r)'
<1> DEFINE p == request[r]
           q == request'[r]
<1>1. q.pc \in Early => q.pc \notin Found \cup Counted \cup {"count", "read", "create", "clear"}
  BY DEF Early, Found, Counted
<1>2. Cardinality(Active') < limit' \/ ~(Cardinality(Active) < limit)
  <2>1. /\ Cardinality(Active) \in Nat /\ limit \in Nat
        /\ Cardinality(Active') \in Nat
    BY Numbers, NumbersNext
  <2> QED
    BY <2>1
<1>3. q.pc \in Found => q.i \in Rows'
  BY <1>1 DEF Moves, RequestRight
<1>4. q.op = "recover" => ~q.was /\ q.pc \notin {"count", "read", "create", "clear"}
  BY <1>1 DEF Moves, RequestRight
<1>5. q.op = "register" /\ q.pc \in Counted /\ ~q.raced => Cardinality(Active') < limit'
  BY <1>1, <1>2 DEF Moves, RequestRight
<1> QED
  BY <1>3, <1>4, <1>5 DEF RequestRight

LEMMA OutdatedRight ==
  ASSUME IInv, NEW r \in Requests, RequestRight(r), request'[r] = Outdated(request[r]), Rows \subseteq Rows'
  PROVE  RequestRight(r)'
<1> DEFINE p == request[r]
           q == request'[r]
<1>1. p \in RequestType
  BY DEF IInv, TypeOK
<1>2. /\ q.pc = p.pc /\ q.op = p.op /\ q.i = p.i /\ q.was = p.was
      /\ p.pc \in Counted => q.raced
  BY <1>1 DEF Outdated, RequestType
<1> QED
  BY <1>2 DEF RequestRight

(* A plan change that stays where it is, and is overtaken if devices join. *)
Stays(w) ==
  LET x == webhook[w]  y == webhook'[w] IN
  /\ y.pc = x.pc /\ y.limit = x.limit /\ y.off = x.off /\ y.room = x.room /\ y.rows = x.rows
  /\ x.raced => y.raced

LEMMA StaysRight ==
  ASSUME IInv, IInv', NEW w \in Webhooks, PlanRight(w), Stays(w), limit' = limit,
         Active' \subseteq Active \/ (webhook[w].pc \in {"find", "write"} => webhook'[w].raced)
  PROVE  PlanRight(w)'
<1> DEFINE x == webhook[w]
           y == webhook'[w]
<1>1. y.pc = "list" /\ ~y.raced => limit' = y.limit
  BY DEF PlanRight, Stays
<1>2. ASSUME y.pc = "write", ~y.raced, ~y.off
      PROVE  Cardinality(Active' \cup y.rows) <= limit'
  <2>1. Cardinality(Active \cup x.rows) <= limit
    BY <1>2 DEF PlanRight, Stays
  <2>2. Active' \cup y.rows \subseteq Active \cup x.rows
    BY <1>2 DEF Stays
  <2>3. x.rows \in SUBSET Identities
    BY DEF IInv, TypeOK, WebhookType
  <2>4. Active \cup x.rows \in SUBSET Identities
    BY <2>3, Numbers
  <2>5. Cardinality(Active' \cup y.rows) <= Cardinality(Active \cup x.rows)
    BY <2>2, <2>4, Counts
  <2>6. Cardinality(Active \cup x.rows) \in Nat /\ Cardinality(Active' \cup y.rows) \in Nat /\ limit \in Nat
    BY <2>2, <2>4, Counts, Numbers
  <2> QED
    BY <2>1, <2>5, <2>6
<1>3. ASSUME y.pc = "find", ~y.raced PROVE Cardinality(Active') + y.room <= limit'
  <2>1. Cardinality(Active) + x.room <= limit /\ y.room = x.room
    BY <1>3 DEF PlanRight, Stays
  <2>2. Active' \subseteq Active
    BY <1>3 DEF Stays
  <2>3. Cardinality(Active') <= Cardinality(Active)
    BY <2>2, Counts, Numbers
  <2>4. /\ Cardinality(Active) \in Nat /\ Cardinality(Active') \in Nat
        /\ limit \in Nat /\ x.room \in Nat
    BY Numbers, NumbersNext DEF IInv, TypeOK, WebhookType
  <2> QED
    BY <2>1, <2>3, <2>4
<1> QED
  BY <1>1, <1>2, <1>3 DEF PlanRight

(* No device joins, and no plan change ends. *)
LEMMA StaysCures ==
  ASSUME IInv, NEW w \in Webhooks, Stays(w), limit' = limit, Active' \subseteq Active, Cures(w)
  PROVE  Cures(w)'
<1> DEFINE x == webhook[w]
           y == webhook'[w]
<1>1. CASE x.pc = "again" \/ x.pc = "list"
  BY <1>1 DEF Cures, Stays
<1>2. CASE x.pc = "write"
  <2>1. x.off /\ Cardinality(Active \ x.rows) <= limit
    BY <1>2 DEF Cures
  <2>2. Active' \ y.rows \subseteq Active \ x.rows /\ Active \ x.rows \in SUBSET Identities
    BY Numbers DEF Stays
  <2>3. /\ Cardinality(Active' \ y.rows) <= Cardinality(Active \ x.rows)
        /\ Cardinality(Active' \ y.rows) \in Nat /\ Cardinality(Active \ x.rows) \in Nat
    BY <2>2, Counts
  <2>4. Cardinality(Active' \ y.rows) <= limit'
    BY <2>1, <2>3, Numbers
  <2> QED
    BY <1>2, <2>1, <2>4 DEF Cures, Stays
<1> QED
  BY <1>1, <1>2 DEF Cures

LEMMA StaysCured ==
  ASSUME IInv, Cured, \A w \in Webhooks : Stays(w), limit' = limit, Active' \subseteq Active,
         outrun' = outrun
  PROVE  Cured'
<1>1. /\ Cardinality(Active') <= Cardinality(Active)
      /\ Cardinality(Active) \in Nat /\ Cardinality(Active') \in Nat /\ limit \in Nat
  BY Numbers, Counts
<1>2. Cardinality(Active) <= limit => Cardinality(Active') <= limit'
  BY <1>1
<1> QED
  BY <1>2, StaysCures DEF Cured

LEMMA FewerPaying ==
  ASSUME IInv, IInv', PaidFor, issued' = issued, Paying' \subseteq Paying, Paid \subseteq Paid'
  PROVE  PaidFor'
<1>1. Cardinality(Paying') <= Cardinality(Paying)
  BY Numbers, FS_Subset
<1>2. Cardinality(Paid) <= Cardinality(Paid')
  <2>1. IsFiniteSet(Paid')
    BY NumbersNext
  <2> QED
    BY <2>1, FS_Subset
<1>3. /\ issued \in Nat /\ Cardinality(Paying) \in Nat /\ Cardinality(Paid) \in Nat
      /\ Cardinality(Paying') \in Nat /\ Cardinality(Paid') \in Nat
  BY Numbers, NumbersNext
<1> QED
  BY <1>1, <1>2, <1>3 DEF PaidFor

(* Steps that leave devices and plan alone. *)
LEMMA QuietPlaces ==
  ASSUME IInv, IInv', PlacesRight, \A r \in Requests : Moves(r),
         UNCHANGED <<token, device, limit, webhook, issued, outrun>>
  PROVE  PlacesRight'
<1>1. Rows' = Rows /\ Active' = Active
  BY DEF Rows, Active
<1>2. BornOnce'
  BY <1>1 DEF PlacesRight, BornOnce
<1>3. \A w \in Webhooks : Stays(w)
  BY DEF Stays
<1>4. Cardinality(Active') <= Cardinality(Active)
  BY <1>1, Numbers
<1>5. \A r \in Requests : RequestRight(r)'
  BY <1>1, <1>4, MovesRight DEF PlacesRight
<1>6. \A w \in Webhooks : PlanRight(w)'
  BY <1>1, <1>3, StaysRight DEF PlacesRight
<1>7. Cured'
  BY <1>1, <1>3, StaysCured DEF PlacesRight
<1>8. PaidFor'
  <2>1. Paying' \subseteq Paying
    BY DEF Paying, Moves, Early
  <2>2. Paid' = Paid
    BY DEF Paid, Uses
  <2> QED
    BY <2>1, <2>2, FewerPaying DEF PlacesRight
<1> QED
  BY <1>2, <1>5, <1>6, <1>7, <1>8 DEF PlacesRight

LEMMA SameRight ==
  ASSUME NEW s \in Requests, RequestRight(s), request'[s] = request[s], Rows' = Rows, Active' = Active,
         limit' = limit
  PROVE  RequestRight(s)'
BY DEF RequestRight

(* Steps of one request that leave devices and plan alone. *)
LEMMA SamePlaces ==
  ASSUME IInv, IInv', PlacesRight, Rows' = Rows, Active' = Active, UNCHANGED <<limit, webhook, outrun>>,
         BornOnce', PaidFor', NEW r \in Requests, RequestRight(r)',
         \A s \in Requests \ {r} : request'[s] = request[s]
  PROVE  PlacesRight'
<1>1. \A s \in Requests : RequestRight(s)'
  <2> SUFFICES ASSUME NEW s \in Requests, s # r PROVE RequestRight(s)'
    OBVIOUS
  <2> QED
    BY SameRight DEF PlacesRight
<1>2. \A w \in Webhooks : Stays(w)
  BY DEF Stays
<1>3. \A w \in Webhooks : PlanRight(w)'
  BY <1>2, StaysRight DEF PlacesRight
<1>4. Cured'
  BY <1>2, StaysCured DEF PlacesRight
<1> QED
  BY <1>1, <1>3, <1>4 DEF PlacesRight

LEMMA GotoPlaces ==
  ASSUME IInv, IInv', PlacesRight, NEW r \in Requests, NEW pc \in Pcs, Goto(r, pc),
         UNCHANGED <<device, limit, webhook, issued, outrun>>,
         PaidFor' \/ (Paid' = Paid /\ (pc \notin Early => r \in Paying)),
         pc \in Found => request[r].i \in Rows,
         request[r].op = "recover" => pc \notin {"count", "read", "create", "clear"},
         request[r].op = "register" /\ pc \in Counted => request[r].pc \in Counted \/ Cardinality(Active) < limit
  PROVE  PlacesRight'
<1> DEFINE q == request'[r]
<1>1. Rows' = Rows /\ Active' = Active
  BY DEF Rows, Active
<1>2. BornOnce'
  BY <1>1 DEF PlacesRight, BornOnce
<1>3. /\ q.pc = pc /\ q.i = request[r].i
      /\ \A s \in Requests \ {r} : request'[s] = request[s]
  BY GotoTyped
<1>4. q.op = request[r].op /\ q.was = request[r].was /\ q.raced = request[r].raced
  BY DEF IInv, TypeOK, RequestType, Goto
<1>5. RequestRight(r)'
  <2>1. q.pc \in Found => q.i \in Rows'
    BY <1>1, <1>3
  <2>2. q.op = "recover" => ~q.was /\ q.pc \notin {"count", "read", "create", "clear"}
    BY <1>3, <1>4 DEF PlacesRight, RequestRight
  <2>3. q.op = "register" /\ q.pc \in Counted /\ ~q.raced => Cardinality(Active') < limit'
    BY <1>1, <1>3, <1>4 DEF PlacesRight, RequestRight
  <2> QED
    BY <2>1, <2>2, <2>3 DEF RequestRight
<1>6. PaidFor'
  <2>1. CASE Paid' = Paid /\ (pc \notin Early => r \in Paying)
    <3>1. Paying' \subseteq Paying
      BY <1>3, <2>1 DEF Paying, Early
    <3> QED
      BY <2>1, <3>1, FewerPaying DEF PlacesRight
  <2> QED
    BY <2>1
<1> QED
  BY <1>1, <1>2, <1>3, <1>5, <1>6, SamePlaces

LEMMA ValidatePlaces == ASSUME IInv, IInv', PlacesRight, NEW r \in Requests, Validate(r) PROVE PlacesRight'
<1>1. PICK pc \in {"consume", "refused"} : Goto(r, pc)
  BY DEF Validate
<1>2. pc \in Pcs /\ pc \in Early /\ pc \notin Found /\ pc \notin Counted
  BY DEF Pcs, Early, Found, Counted
<1>3. Paid' = Paid
  BY DEF Validate, Paid, Uses
<1> QED
  BY <1>1, <1>2, <1>3, GotoPlaces DEF Validate, history

LEMMA CountPlaces == ASSUME IInv, IInv', PlacesRight, NEW r \in Requests, Count(r) PROVE PlacesRight'
<1>1. PICK pc \in {"find", "refused"} : Goto(r, pc) /\ (pc = "find" => Cardinality(Active) < limit)
  BY DEF Count
<1>2. pc \in Pcs /\ pc \notin Found /\ pc \notin {"count", "read", "create", "clear"}
  BY DEF Pcs, Found, Counted
<1>3. Paid' = Paid /\ r \in Paying
  BY DEF Count, Paid, Uses, Paying, IsAt
<1>4. pc \in Counted => Cardinality(Active) < limit
  BY <1>1 DEF Counted
<1> QED
  BY <1>1, <1>2, <1>3, <1>4, GotoPlaces DEF Count, history

LEMMA FindPlaces == ASSUME IInv, IInv', PlacesRight, NEW r \in Requests, Find(r) PROVE PlacesRight'
<1> DEFINE known == request[r].i \in Rows
           pc == IF request[r].op = "recover" THEN IF known THEN "rotate" ELSE "refused"
                 ELSE IF known THEN "read" ELSE "create"
<1>1. pc \in Pcs /\ Goto(r, pc) /\ (pc \in Found => request[r].i \in Rows)
  BY DEF Find, Pcs, Counted, Found
<1>2. request[r].op = "recover" => pc \notin {"count", "read", "create", "clear"}
  OBVIOUS
<1>3. Paid' = Paid /\ r \in Paying /\ request[r].pc \in Counted
  BY DEF Find, Paid, Uses, Paying, IsAt, Counted
<1> HIDE DEF pc
<1> QED
  BY <1>1, <1>2, <1>3, GotoPlaces DEF Find, history

(* A use of the token pays for one more credential. *)
LEMMA ConsumePlaces ==
  ASSUME IInv, IInv', PlacesRight, NEW r \in Requests, request[r].k \in Tokens, Consume(r)
  PROVE  PlacesRight'
<1>0. PICK k \in Tokens : k = request[r].k
  OBVIOUS
<1>1. CASE ~Usable(k)
  <2>1. Goto(r, "refused") /\ token' = token
    BY <1>0, <1>1 DEF Consume
  <2>2. "refused" \in Pcs /\ "refused" \in Early /\ "refused" \notin Found /\ "refused" \notin Counted
    BY DEF Pcs, Early, Found, Counted
  <2>3. Paid' = Paid
    BY <2>1 DEF Paid, Uses
  <2> QED
    BY <2>1, <2>2, <2>3, GotoPlaces DEF Consume, history
<1>2. CASE Usable(k)
  <2>1. PICK pc \in {"find", "count"} : Goto(r, pc) /\ (request[r].op = "recover" <=> pc = "find")
    BY <1>0, <1>2 DEF Consume
  <2>2. pc \in Pcs /\ pc \notin Found /\ pc \notin Early
    BY DEF Pcs, Counted, Found, Early
  <2>3. request[r].op = "recover" => pc \notin {"count", "read", "create", "clear"}
    BY <2>1
  <2>4. request[r].op = "register" => pc \notin Counted
    BY <2>1 DEF Counted
  <2>5. PaidFor'
    <3>1. token \in [Tokens -> TokenType] /\ token[k].used \in Nat /\ token[k].used + 1 <= MaxUses
      BY <1>2, BoundsAssumption DEF IInv, TypeOK, TokenType, Usable
    <3>2. token' = [token EXCEPT ![k] = [token[k] EXCEPT !.used = @ + 1]]
      BY <1>0, <1>2 DEF Consume
    <3>3. /\ Uses(k)' = Uses(k) + 1
          /\ \A j \in Tokens \ {k} : Uses(j)' = Uses(j)
      BY <3>1, <3>2 DEF Uses, TokenType
    <3> DEFINE u == <<k, token[k].used + 1>>
    <3>4. u \in Paid'
      BY <3>1, <3>3 DEF Paid, Uses
    <3>5. u \notin Paid
      BY <3>1 DEF Paid, Uses
    <3>6. Paid \subseteq Paid'
      <4> SUFFICES ASSUME NEW v \in Tokens \X (1..MaxUses), v[2] <= Uses(v[1]) PROVE v[2] <= Uses(v[1])'
        BY DEF Paid
      <4>1. CASE v[1] = k
        <5>1. v[2] \in 1..MaxUses /\ Uses(k) = token[k].used
          BY DEF Uses
        <5> QED
          BY <3>1, <3>3, <4>1, <5>1, BoundsAssumption
      <4>2. CASE v[1] # k
        BY <3>3, <4>2
      <4> QED
        BY <4>1, <4>2
    <3> HIDE DEF u
    <3>7. /\ IsFiniteSet(Paid) /\ Cardinality(Paid) \in Nat /\ IsFiniteSet(Paid') /\ Cardinality(Paid') \in Nat
          /\ IsFiniteSet(Paying) /\ Cardinality(Paying) \in Nat /\ Cardinality(Paying') \in Nat
          /\ issued \in Nat
      BY Numbers, NumbersNext
    <3>8. Cardinality(Paid) + 1 <= Cardinality(Paid')
      <4>1. /\ IsFiniteSet(Paid \cup {u})
            /\ Cardinality(Paid \cup {u}) = Cardinality(Paid) + 1
        BY <3>5, <3>7, FS_AddElement
      <4>2. Cardinality(Paid \cup {u}) <= Cardinality(Paid')
        BY <3>4, <3>6, <3>7, FS_Subset
      <4> QED
        BY <4>1, <4>2
    <3>9. Cardinality(Paying') <= Cardinality(Paying) + 1
      <4>1. Paying' \subseteq Paying \cup {r}
        BY <2>1, <2>2, GotoTyped DEF Paying
      <4>2. /\ IsFiniteSet(Paying \cup {r})
            /\ Cardinality(Paying \cup {r}) \in {Cardinality(Paying), Cardinality(Paying) + 1}
        BY <3>7, FS_AddElement
      <4>3. Cardinality(Paying') <= Cardinality(Paying \cup {r})
        BY <4>1, <4>2, FS_Subset
      <4> QED
        BY <3>7, <4>2, <4>3
    <3>10. issued' = issued /\ issued + Cardinality(Paying) <= Cardinality(Paid)
      BY DEF Consume, PlacesRight, PaidFor
    <3> QED
      BY <3>7, <3>8, <3>9, <3>10 DEF PaidFor
  <2> QED
    BY <2>1, <2>2, <2>3, <2>4, <2>5, GotoPlaces DEF Consume, history
<1> QED
  BY <1>1, <1>2

LEMMA ReadPlaces == ASSUME IInv, IInv', PlacesRight, NEW r \in Requests, Read(r) PROVE PlacesRight'
<1> DEFINE p == request[r]
           q == [p EXCEPT !.pc = "rotate", !.was = device[p.i].revoked]
<1>1. request \in [Requests -> RequestType] /\ p \in RequestType
  BY DEF IInv, TypeOK
<1>2. request' = [request EXCEPT ![r] = q] /\ p.pc = "read"
  BY DEF Read, IsAt
<1>3. q.pc = "rotate" /\ q.op = p.op /\ q.i = p.i /\ q.raced = p.raced
  BY <1>1 DEF RequestType
<1> HIDE DEF q
<1>4. request'[r] = q /\ \A s \in Requests \ {r} : request'[s] = request[s]
  BY <1>1, <1>2
<1>5. Rows' = Rows /\ Active' = Active /\ BornOnce'
  BY DEF Read, Rows, Active, PlacesRight, BornOnce
<1>6. RequestRight(r)'
  <2>1. p.op # "recover" /\ p.i \in Rows
    BY <1>2 DEF PlacesRight, RequestRight, Found
  <2>2. p.op = "register" /\ ~p.raced => Cardinality(Active) < limit
    BY <1>2 DEF PlacesRight, RequestRight, Counted
  <2>3. limit' = limit
    BY DEF Read
  <2> QED
    BY <1>3, <1>4, <1>5, <2>1, <2>2, <2>3 DEF RequestRight
<1>7. PaidFor'
  <2>1. Paying' \subseteq Paying /\ Paid' = Paid
    BY <1>2, <1>4 DEF Paying, Paid, Uses, Read
  <2> QED
    BY <2>1, FewerPaying DEF PlacesRight, Read
<1> QED
  BY <1>4, <1>5, <1>6, <1>7, SamePlaces DEF Read, history

(* A credential is issued: the request has used what it was paid. *)
LEMMA PaidOnce ==
  ASSUME IInv, IInv', PaidFor, NEW r \in Paying, issued' = issued + 1, Paying' \subseteq Paying \ {r}, Paid' = Paid
  PROVE  PaidFor'
<1>1. /\ IsFiniteSet(Paying) /\ Cardinality(Paying) \in Nat /\ Cardinality(Paying') \in Nat
      /\ Cardinality(Paid) \in Nat /\ issued \in Nat
  BY Numbers, NumbersNext
<1>2. IsFiniteSet(Paying \ {r}) /\ Cardinality(Paying \ {r}) = Cardinality(Paying) - 1
  BY <1>1, FS_RemoveElement
<1>3. Cardinality(Paying') <= Cardinality(Paying \ {r})
  BY <1>2, FS_Subset
<1> QED
  BY <1>1, <1>2, <1>3 DEF PaidFor

LEMMA RotatePlaces == ASSUME IInv, IInv', PlacesRight, NEW r \in Requests, Rotate(r) PROVE PlacesRight'
<1> DEFINE p == request[r]
           i == p.i
           c == issued + 1
           d == [device[i] EXCEPT !.cred = c]
           pc == IF p.was THEN "clear" ELSE "done"
           q == [p EXCEPT !.pc = pc, !.cred = c]
<1>1. /\ request \in [Requests -> RequestType] /\ p \in RequestType /\ p.pc = "rotate"
      /\ device \in [Identities -> Row] /\ issued \in Nat
  BY DEF IInv, TypeOK, Rotate, IsAt
<1>2. i \in Rows /\ i \in Identities
  BY <1>1 DEF PlacesRight, RequestRight, Found, Rows
<1>3. /\ d.cred = c /\ d.born = device[i].born /\ d.inactive = device[i].inactive
  BY <1>1, <1>2 DEF Row
<1>4. q.pc = pc /\ q.op = p.op /\ q.i = p.i /\ q.was = p.was /\ q.raced = p.raced
  BY <1>1 DEF RequestType
<1>5. issued' = c /\ device' = [device EXCEPT ![i] = d] /\ request' = [request EXCEPT ![r] = q]
  BY <1>1, <1>2 DEF Rotate
<1>6. c # 0
  BY <1>1
<1> HIDE DEF d, q
<1>7. device'[i] = d /\ \A j \in Identities \ {i} : device'[j] = device[j]
  BY <1>1, <1>2, <1>5
<1>8. request'[r] = q /\ \A s \in Requests \ {r} : request'[s] = request[s]
  BY <1>1, <1>5
<1>9. Rows' = Rows
  BY <1>2, <1>3, <1>6, <1>7 DEF Rows
<1>10. Active' = Active
  BY <1>3, <1>7, <1>9, <1>2 DEF Active, Rows
<1>11. BornOnce'
  <2>1. \A j \in Identities : device'[j].born = device[j].born
    BY <1>3, <1>7
  <2>2. \A j \in Rows : j \in Identities
    BY DEF Rows
  <2>3. 1..issued \subseteq 1..issued'
    BY <1>1, <1>5
  <2> QED
    BY <1>9, <2>1, <2>2, <2>3 DEF PlacesRight, BornOnce
<1>12. RequestRight(r)'
  <2>1. p.op = "recover" => ~p.was
    BY DEF PlacesRight, RequestRight
  <2>2. p.op = "register" /\ ~p.raced => Cardinality(Active) < limit
    BY <1>1 DEF PlacesRight, RequestRight, Counted
  <2>3. limit' = limit
    BY DEF Rotate
  <2> QED
    BY <1>2, <1>4, <1>8, <1>9, <1>10, <2>1, <2>2, <2>3 DEF RequestRight
<1>13. PaidFor'
  <2>1. r \in Paying /\ Paying' \subseteq Paying \ {r} /\ Paid' = Paid
    BY <1>1, <1>4, <1>8 DEF Paying, Paid, Uses, Rotate
  <2> QED
    BY <1>5, <2>1, PaidOnce DEF PlacesRight
<1> QED
  BY <1>8, <1>9, <1>10, <1>11, <1>12, <1>13, SamePlaces DEF Rotate

LEMMA OutdatedSame ==
  ASSUME NEW q \in RequestType
  PROVE  /\ Outdated(q).op = q.op /\ Outdated(q).was = q.was /\ Outdated(q).by = q.by
         /\ Outdated(q).m = q.m /\ Outdated(q).k = q.k /\ Outdated(q).cred = q.cred
BY DEF Outdated, RequestType

LEMMA OvertakenStays ==
  ASSUME IInv, NEW w \in Webhooks, webhook'[w] = Overtaken(webhook[w])
  PROVE  Stays(w) /\ (webhook[w].pc \in {"find", "write"} => webhook'[w].raced)
<1>1. webhook[w] \in WebhookType
  BY DEF IInv, TypeOK
<1> QED
  BY <1>1 DEF Stays, Overtaken, WebhookType

(* A device joins: there was room, or a write relied on an outdated count. *)
LEMMA JoinPlaces ==
  ASSUME IInv, IInv', PlacesRight, NEW r \in Requests, request[r].pc \in {"clear", "create"},
         NEW c, Joining(r, "done", c), NEW i, Active' \subseteq Active \cup {i}, Rows \subseteq Rows',
         limit' = limit
  PROVE  /\ Cured'
         /\ \A s \in Requests : RequestRight(s)'
         /\ \A w \in Webhooks : PlanRight(w)'
         /\ request'[r].pc = "done"
         /\ \A s \in Requests \ {r} : request'[s].pc = request[s].pc
<1> DEFINE p == request[r]
           q == [p EXCEPT !.pc = "done", !.cred = c]
<1>1. /\ request \in [Requests -> RequestType] /\ p \in RequestType
      /\ outrun \in BOOLEAN /\ p.raced \in BOOLEAN
  BY DEF IInv, TypeOK, RequestType
<1>2. /\ request' = [s \in Requests |-> IF s = r THEN q ELSE Outdated(request[s])]
      /\ webhook' = [w \in Webhooks |-> Overtaken(webhook[w])]
      /\ outrun' = (outrun \/ p.raced)
  BY DEF Joining
<1>3. q.pc = "done" /\ q.op = p.op /\ q.i = p.i /\ q.was = p.was
  BY <1>1 DEF RequestType
<1> HIDE DEF q
<1>4. request'[r] = q /\ \A s \in Requests \ {r} : request'[s] = Outdated(request[s])
  BY <1>2
<1>5. \A s \in Requests : RequestRight(s)'
  <2>1. RequestRight(r)'
    <3>1. q.pc \notin Found \cup Counted \cup {"count", "read", "create", "clear"}
      BY <1>3 DEF Found, Counted
    <3> QED
      BY <1>3, <1>4, <3>1 DEF PlacesRight, RequestRight
  <2>2. ASSUME NEW s \in Requests \ {r} PROVE RequestRight(s)'
    BY <1>4, OutdatedRight DEF PlacesRight
  <2> QED
    BY <2>1, <2>2
<1>6. \A w \in Webhooks : PlanRight(w)'
  BY <1>2, OvertakenStays, StaysRight DEF PlacesRight
<1>7. Cured'
  <2> SUFFICES ASSUME ~outrun' PROVE Cardinality(Active') <= limit'
    BY DEF Cured
  <2>1. ~p.raced /\ p.op = "register"
    BY <1>1, <1>2 DEF PlacesRight, RequestRight, RequestType
  <2>2. Cardinality(Active) < limit
    BY <2>1 DEF PlacesRight, RequestRight, Counted
  <2>3. /\ Active \in SUBSET Identities /\ Active' \in SUBSET Identities /\ limit \in Nat
        /\ Cardinality(Active) \in Nat /\ Cardinality(Active') \in Nat
    BY Numbers, NumbersNext
  <2>4. Cardinality(Active') <= Cardinality(Active) + 1
    BY <2>3, OneMore
  <2> QED
    BY <2>2, <2>3, <2>4
<1> QED
  BY <1>1, <1>3, <1>4, <1>5, <1>6, <1>7, OutdatedTyped

LEMMA ClearPlaces == ASSUME IInv, IInv', PlacesRight, NEW r \in Requests, Clear(r) PROVE PlacesRight'
<1> DEFINE i == request[r].i
           d == [device[i] EXCEPT !.revoked = FALSE, !.inactive = FALSE]
<1>1. device \in [Identities -> Row] /\ request[r].pc = "clear"
  BY DEF IInv, TypeOK, Clear, IsAt
<1>2. i \in Rows /\ i \in Identities
  BY <1>1 DEF PlacesRight, RequestRight, Found, Rows
<1>3. d.cred = device[i].cred /\ d.born = device[i].born
  BY <1>1, <1>2 DEF Row
<1>4. device' = [device EXCEPT ![i] = d] /\ Joining(r, "done", request[r].cred)
  BY DEF Clear
<1> HIDE DEF d
<1>5. device'[i] = d /\ \A j \in Identities \ {i} : device'[j] = device[j]
  BY <1>1, <1>2, <1>4
<1>6. Rows' = Rows
  BY <1>3, <1>5 DEF Rows
<1>7. Active' \subseteq Active \cup {i}
  BY <1>5, <1>6 DEF Active, Rows
<1>8. BornOnce'
  <2>1. \A j \in Identities : device'[j].born = device[j].born
    BY <1>3, <1>5
  <2>2. \A j \in Rows : j \in Identities
    BY DEF Rows
  <2> QED
    BY <1>6, <2>1, <2>2 DEF PlacesRight, BornOnce, Clear
<1>9. limit' = limit /\ issued' = issued /\ Paid' = Paid
  BY DEF Clear, Paid, Uses
<1>10. PICK k : k = i
  OBVIOUS
<1>11. /\ Cured' /\ (\A s \in Requests : RequestRight(s)') /\ (\A w \in Webhooks : PlanRight(w)')
       /\ request'[r].pc = "done"
       /\ \A s \in Requests \ {r} : request'[s].pc = request[s].pc
  <2>1. PICK c : c = request[r].cred
    OBVIOUS
  <2>2. Joining(r, "done", c)
    BY <1>4, <2>1 DEF Joining
  <2>3. Active' \subseteq Active \cup {k}
    BY <1>7, <1>10
  <2> HIDE DEF i
  <2> QED
    BY <1>1, <1>6, <1>9, <2>2, <2>3, JoinPlaces
<1>12. PaidFor'
  <2>1. Paying' \subseteq Paying
    BY <1>11 DEF Paying
  <2> QED
    BY <1>9, <2>1, FewerPaying DEF PlacesRight
<1> QED
  BY <1>8, <1>11, <1>12 DEF PlacesRight

LEMMA CreatePlaces == ASSUME IInv, IInv', PlacesRight, NEW r \in Requests, Create(r) PROVE PlacesRight'
<1>0. PICK i : i = request[r].i
  OBVIOUS
<1>1. CASE i \in Rows
  <2>1. Goto(r, "read") /\ UNCHANGED <<device, issued, webhook, outrun>> /\ limit' = limit
    BY <1>0, <1>1 DEF Create
  <2>2. "read" \in Pcs /\ request[r].pc \in Counted /\ r \in Paying /\ request[r].op # "recover"
    BY DEF Pcs, Counted, Paying, Create, IsAt, PlacesRight, RequestRight
  <2>3. Paid' = Paid
    BY DEF Create, Paid, Uses
  <2> QED
    BY <1>0, <1>1, <2>1, <2>2, <2>3, GotoPlaces
<1>2. CASE i \notin Rows
  <2>1. PICK c : c = issued + 1
    OBVIOUS
  <2> DEFINE d == [NoRow EXCEPT !.cred = c, !.born = c]
  <2>2. issued' = c /\ device' = [device EXCEPT ![i] = d] /\ Joining(r, "done", c)
    BY <1>0, <1>2, <2>1 DEF Create
  <2>3. d.cred = c /\ d.born = c
    BY DEF NoRow
  <2> HIDE DEF d
  <2>4. device \in [Identities -> Row] /\ issued \in Nat /\ c \in Nat /\ request[r].pc = "create"
    BY <2>1 DEF IInv, TypeOK, Create, IsAt
  <2>5. /\ i \in Identities => device'[i] = d
        /\ \A j \in Identities \ {i} : device'[j] = device[j]
    BY <2>2, <2>4
  <2>6. Rows \subseteq Rows' /\ Rows' \subseteq Rows \cup {i}
    BY <1>2, <2>5 DEF Rows
  <2>7. Active' \subseteq Active \cup {i}
    BY <2>5 DEF Active, Rows
  <2>8. BornOnce'
    <3>1. \A j \in Rows : device'[j].born = device[j].born /\ device'[j].born \in 1..issued
      BY <1>2, <2>5 DEF Rows, PlacesRight, BornOnce
    <3>2. i \in Rows' => device'[i].born = issued + 1
      BY <2>1, <2>3, <2>5 DEF Rows
    <3>3. \A j \in Rows' : j \in Rows \/ j = i
      BY <2>6
    <3>4. \A j \in Rows' : device'[j].born \in 1..issued'
      BY <2>1, <2>2, <2>4, <3>1, <3>2, <3>3
    <3>5. \A j, k \in Rows' : device'[j].born = device'[k].born => j = k
      <4> SUFFICES ASSUME NEW j \in Rows', NEW k \in Rows', device'[j].born = device'[k].born PROVE j = k
        OBVIOUS
      <4>1. CASE j \in Rows /\ k \in Rows
        BY <3>1, <4>1 DEF PlacesRight, BornOnce
      <4>2. CASE j = i /\ k \in Rows
        BY <2>4, <3>1, <3>2, <4>2
      <4>3. CASE j \in Rows /\ k = i
        BY <2>4, <3>1, <3>2, <4>3
      <4> QED
        BY <3>3, <4>1, <4>2, <4>3
    <3> QED
      BY <3>4, <3>5 DEF BornOnce
  <2>9. limit' = limit /\ Paid' = Paid
    BY DEF Create, Paid, Uses
  <2>10. /\ Cured' /\ (\A s \in Requests : RequestRight(s)') /\ (\A w \in Webhooks : PlanRight(w)')
         /\ request'[r].pc = "done"
         /\ \A s \in Requests \ {r} : request'[s].pc = request[s].pc
    BY <2>2, <2>4, <2>6, <2>7, <2>9, JoinPlaces
  <2>11. PaidFor'
    <3>1. r \in Paying /\ Paying' \subseteq Paying \ {r}
      BY <2>4, <2>10 DEF Paying
    <3> QED
      BY <2>1, <2>2, <2>9, <3>1, PaidOnce DEF PlacesRight
  <2> QED
    BY <2>8, <2>10, <2>11 DEF PlacesRight
<1> QED
  BY <1>1, <1>2

LEMMA RevokePlaces == ASSUME IInv, IInv', PlacesRight, NEW i \in Identities, Revoke(i) PROVE PlacesRight'
<1> DEFINE d == [device[i] EXCEPT !.revoked = TRUE, !.inactive = TRUE]
<1>1. device \in [Identities -> Row]
  BY DEF IInv, TypeOK
<1>2. d.cred = device[i].cred /\ d.born = device[i].born /\ d.inactive
  BY <1>1 DEF Row
<1>3. device' = [device EXCEPT ![i] = d]
  BY DEF Revoke
<1> HIDE DEF d
<1>4. device'[i] = d /\ \A j \in Identities \ {i} : device'[j] = device[j]
  BY <1>1, <1>3
<1>5. Rows' = Rows /\ Active' \subseteq Active
  BY <1>2, <1>4 DEF Active, Rows
<1>6. BornOnce'
  <2>1. \A j \in Identities : device'[j].born = device[j].born
    BY <1>2, <1>4
  <2>2. \A j \in Rows : j \in Identities
    BY DEF Rows
  <2> QED
    BY <1>5, <2>1, <2>2 DEF PlacesRight, BornOnce, Revoke
<1>7. Cardinality(Active') <= Cardinality(Active)
  BY <1>5, Numbers, Counts
<1>8. \A r \in Requests : RequestRight(r)'
  <2> SUFFICES ASSUME NEW r \in Requests PROVE RequestRight(r)'
    OBVIOUS
  <2>1. Moves(r)
    BY DEF Moves, Revoke
  <2> QED
    BY <1>5, <1>7, <2>1, MovesRight DEF PlacesRight, Revoke
<1>9. \A w \in Webhooks : Stays(w)
  BY DEF Stays, Revoke
<1>10. Cured' /\ \A w \in Webhooks : PlanRight(w)'
  BY <1>5, <1>9, StaysCured, StaysRight DEF PlacesRight, Revoke
<1>11. PaidFor'
  <2>1. Paying' = Paying /\ Paid' = Paid
    BY DEF Paying, Paid, Uses, Revoke
  <2> QED
    BY <2>1, FewerPaying DEF PlacesRight, Revoke
<1> QED
  BY <1>6, <1>8, <1>10, <1>11 DEF PlacesRight

(* All requests in flight are outdated, and stay where they are. *)
LEMMA OutdatedPlaces ==
  ASSUME IInv, IInv', PlacesRight, request' = [r \in Requests |-> Outdated(request[r])], Rows \subseteq Rows',
         UNCHANGED <<token, issued>>
  PROVE  PaidFor' /\ \A r \in Requests : RequestRight(r)'
<1>1. \A r \in Requests : RequestRight(r)'
  BY OutdatedRight DEF PlacesRight
<1>2. \A r \in Requests : request'[r].pc = request[r].pc
  BY OutdatedTyped DEF IInv, TypeOK
<1>3. Paying' = Paying /\ Paid' = Paid
  BY <1>2 DEF Paying, Paid, Uses
<1> QED
  BY <1>1, <1>3, FewerPaying DEF PlacesRight

LEMMA SetPlanPlaces == ASSUME IInv, IInv', PlacesRight, NEW w \in Webhooks, SetPlan(w) PROVE PlacesRight'
<1> DEFINE x == [webhook[w] EXCEPT !.pc = "list", !.raced = FALSE]
           y(v) == [webhook[v] EXCEPT !.raced = @ \/ webhook[v].pc \in {"list", "find", "write"}]
<1>1. webhook \in [Webhooks -> WebhookType]
  BY DEF IInv, TypeOK
<1>2. x.pc = "list" /\ x.limit = webhook[w].limit
  BY <1>1 DEF WebhookType
<1>3. \A v \in Webhooks : y(v).pc = webhook[v].pc /\ (webhook[v].pc \in {"list", "find", "write"} => y(v).raced)
  <2> SUFFICES ASSUME NEW v \in Webhooks
               PROVE  y(v).pc = webhook[v].pc /\ (webhook[v].pc \in {"list", "find", "write"} => y(v).raced)
    OBVIOUS
  <2>1. webhook[v] \in WebhookType
    BY <1>1
  <2> QED
    BY <2>1 DEF WebhookType
<1>4. webhook' = [v \in Webhooks |-> IF v = w THEN x ELSE y(v)] /\ limit' = webhook[w].limit
  BY DEF SetPlan
<1> HIDE DEF x, y
<1>5. Rows' = Rows /\ BornOnce'
  BY DEF Rows, PlacesRight, BornOnce, SetPlan
<1>6. PaidFor' /\ \A r \in Requests : RequestRight(r)'
  BY <1>5, OutdatedPlaces DEF SetPlan
<1>7. \A v \in Webhooks : PlanRight(v)'
  BY <1>2, <1>3, <1>4 DEF PlanRight
<1>8. Cures(w)'
  BY <1>2, <1>4 DEF Cures
<1> QED
  BY <1>5, <1>6, <1>7, <1>8 DEF PlacesRight, Cured

LEMMA ListDevicesPlaces == ASSUME IInv, IInv', PlacesRight, NEW w \in Webhooks, ListDevices(w) PROVE PlacesRight'
<1>0. PICK n : n = webhook[w].limit
  OBVIOUS
<1> DEFINE off == Cardinality(Active) > n
           over == [webhook[w] EXCEPT !.pc = "write", !.off = TRUE, !.room = 0, !.rows = Excess(n)]
           under == [webhook[w] EXCEPT !.pc = "find", !.off = FALSE, !.room = n - Cardinality(Active), !.rows = {}]
           x == webhook'[w]
<1>1. /\ webhook \in [Webhooks -> WebhookType] /\ webhook[w] \in WebhookType /\ webhook[w].pc = "list"
      /\ n \in Nat /\ Cardinality(Active) \in Nat /\ limit \in Nat
  BY <1>0, FiniteAssumption, Numbers DEF IInv, TypeOK, WebhookType, ListDevices
<1>2. webhook' = [webhook EXCEPT ![w] = IF off THEN over ELSE under]
  BY <1>0 DEF ListDevices
<1>3. x = (IF off THEN over ELSE under) /\ \A v \in Webhooks \ {w} : webhook'[v] = webhook[v]
  BY <1>1, <1>2
<1>4. /\ over.pc = "write" /\ over.off /\ over.rows = Excess(n) /\ over.raced = webhook[w].raced
      /\ under.pc = "find" /\ under.room = n - Cardinality(Active) /\ under.raced = webhook[w].raced
  BY <1>1 DEF WebhookType
<1> HIDE DEF over, under
<1>5. Rows' = Rows /\ Active' = Active /\ limit' = limit /\ BornOnce' /\ Paying' = Paying /\ Paid' = Paid
  BY DEF Rows, Active, PlacesRight, BornOnce, ListDevices, Paying, Paid, Uses
<1>6. \A r \in Requests : RequestRight(r)'
  BY <1>5, SameRight DEF PlacesRight, ListDevices
<1>7. PaidFor'
  BY <1>5 DEF PlacesRight, PaidFor, ListDevices
<1>8. off => x.pc = "write" /\ x.off /\ Cardinality(Active \ x.rows) <= n
  BY <1>1, <1>3, <1>4, ExcessLeaves DEF PlacesRight
<1>9. ~off => x.pc = "find" /\ Cardinality(Active) + x.room <= n
  BY <1>1, <1>3, <1>4
<1>10. \A v \in Webhooks : PlanRight(v)'
  <2>1. PlanRight(w)'
    <3>1. ~x.raced => limit = n
      BY <1>0, <1>1, <1>3, <1>4 DEF PlacesRight, PlanRight
    <3> HIDE DEF off, x
    <3>2. x.pc # "list" /\ (x.pc = "write" => x.off)
      BY <1>8, <1>9
    <3>3. x.pc = "find" /\ ~x.raced => Cardinality(Active) + x.room <= limit
      BY <1>8, <1>9, <3>1
    <3> QED
      BY <1>5, <3>2, <3>3 DEF PlanRight, x
  <2>2. ASSUME NEW v \in Webhooks \ {w} PROVE PlanRight(v)'
    BY <1>3, <1>5 DEF PlacesRight, PlanRight
  <2> QED
    BY <2>1, <2>2
<1>11. Cured'
  <2> SUFFICES ASSUME ~outrun, ~(Cardinality(Active) <= limit)
               PROVE  \E v \in Webhooks : Cures(v)'
    BY <1>5 DEF Cured, ListDevices, history
  <2>1. PICK v \in Webhooks : Cures(v)
    BY DEF PlacesRight, Cured
  <2>2. CASE v = w
    <3>1. limit = n
      BY <1>0, <1>1, <2>1, <2>2 DEF Cures
    <3>2. off
      BY <1>1, <3>1
    <3> HIDE DEF off
    <3>3. Cures(w)'
      BY <1>5, <1>8, <3>1, <3>2 DEF Cures
    <3> QED
      BY <3>3
  <2>3. CASE v # w
    BY <1>3, <1>5, <2>1, <2>3 DEF Cures
  <2> QED
    BY <2>2, <2>3
<1> QED
  BY <1>5, <1>6, <1>7, <1>10, <1>11 DEF PlacesRight

LEMMA FindInactivePlaces == ASSUME IInv, IInv', PlacesRight, NEW w \in Webhooks, FindInactive(w) PROVE PlacesRight'
<1> DEFINE x == webhook[w]
           y == webhook'[w]
<1>1. /\ webhook \in [Webhooks -> WebhookType] /\ x \in WebhookType /\ x.pc = "find"
      /\ x.room \in Nat /\ limit \in Nat
  BY Numbers DEF IInv, TypeOK, WebhookType, FindInactive
<1>2. /\ webhook' = [webhook EXCEPT ![w].pc = "write", ![w].rows = Youngest(x.room)]
      /\ UNCHANGED <<token, device, limit, request, issued, outrun>>
  BY DEF FindInactive, history
<1>3. /\ y.pc = "write" /\ y.rows = Youngest(x.room) /\ y.raced = x.raced
      /\ \A v \in Webhooks \ {w} : webhook'[v] = webhook[v]
  BY <1>1, <1>2 DEF WebhookType
<1>4. Rows' = Rows /\ Active' = Active /\ limit' = limit /\ BornOnce' /\ Paying' = Paying /\ Paid' = Paid
  BY <1>2 DEF Rows, Active, PlacesRight, BornOnce, Paying, Paid, Uses
<1>5. (\A r \in Requests : RequestRight(r)') /\ PaidFor'
  BY <1>2, <1>4, SameRight DEF PlacesRight, PaidFor
<1>6. \A v \in Webhooks : PlanRight(v)'
  <2>1. ~x.raced => Cardinality(Active \cup y.rows) <= limit
    BY <1>1, <1>3, RoomFits DEF PlacesRight, PlanRight
  <2>2. PlanRight(w)'
    BY <1>3, <1>4, <2>1 DEF PlanRight
  <2>3. ASSUME NEW v \in Webhooks \ {w} PROVE PlanRight(v)'
    BY <1>3, <1>4 DEF PlacesRight, PlanRight
  <2> QED
    BY <2>2, <2>3
<1>7. Cured'
  <2>1. ~Cures(w)
    BY <1>1 DEF Cures
  <2>2. \A v \in Webhooks : Cures(v) => Cures(v)'
    BY <1>3, <1>4, <2>1 DEF Cures
  <2> QED
    BY <1>2, <1>4, <2>2 DEF PlacesRight, Cured
<1> QED
  BY <1>4, <1>5, <1>6, <1>7 DEF PlacesRight

LEMMA WriteDevicesPlaces == ASSUME IInv, IInv', PlacesRight, NEW w \in Webhooks, WriteDevices(w) PROVE PlacesRight'
<1> DEFINE rows == webhook[w].rows
           off == webhook[w].off
           d(i) == IF i \in rows THEN [device[i] EXCEPT !.inactive = off] ELSE device[i]
           x == [webhook[w] EXCEPT !.pc = "done"]
<1>1. /\ device \in [Identities -> Row] /\ outrun \in BOOLEAN
      /\ webhook \in [Webhooks -> WebhookType] /\ webhook[w] \in WebhookType /\ webhook[w].pc = "write"
  BY DEF IInv, TypeOK, WriteDevices
<1>2. off \in BOOLEAN /\ rows \in SUBSET Identities /\ webhook[w].raced \in BOOLEAN
  BY <1>1 DEF WebhookType
<1>3. x.pc = "done"
  BY <1>1 DEF WebhookType
<1>4. /\ device' = [i \in Identities |-> d(i)]
      /\ webhook' = [v \in Webhooks |-> IF v = w THEN x ELSE Overtaken(webhook[v])]
      /\ outrun' = (outrun \/ (webhook[w].raced /\ ~off /\ rows # {}))
  BY DEF WriteDevices
<1>5. \A i \in Identities :
        /\ d(i).cred = device[i].cred /\ d(i).born = device[i].born
        /\ d(i).inactive = IF i \in rows THEN off ELSE device[i].inactive
  BY <1>1, <1>2 DEF Row
<1> HIDE DEF d, x
<1>6. \A i \in Identities : device'[i] = d(i)
  BY <1>4
<1>7. Rows' = Rows
  BY <1>5, <1>6 DEF Rows
<1>8. /\ off => Active' \subseteq Active \ rows
      /\ ~off => Active' \subseteq Active \cup rows
  BY <1>2, <1>5, <1>6, <1>7 DEF Active, Rows
<1>9. BornOnce'
  <2>1. \A j \in Rows : j \in Identities
    BY DEF Rows
  <2> QED
    BY <1>5, <1>6, <1>7, <2>1 DEF PlacesRight, BornOnce, WriteDevices
<1>10. PaidFor' /\ \A r \in Requests : RequestRight(r)'
  BY <1>7, OutdatedPlaces DEF WriteDevices
<1>11. limit' = limit
  BY DEF WriteDevices
<1>12. \A v \in Webhooks \ {w} : Stays(v) /\ (webhook[v].pc \in {"find", "write"} => webhook'[v].raced)
  BY <1>4, OvertakenStays
<1>13. \A v \in Webhooks : PlanRight(v)'
  <2>1. PlanRight(w)'
    BY <1>3, <1>4 DEF PlanRight
  <2>2. ASSUME NEW v \in Webhooks \ {w} PROVE PlanRight(v)'
    BY <1>11, <1>12, StaysRight DEF PlacesRight
  <2> QED
    BY <2>1, <2>2
<1>14. ASSUME Active' \subseteq Active, NEW v \in Webhooks \ {w}, Cures(v) PROVE Cures(v)'
  BY <1>11, <1>12, <1>14, StaysCures
<1>15. /\ Active \in SUBSET Identities /\ limit \in Nat
       /\ Cardinality(Active) \in Nat /\ Cardinality(Active') \in Nat
  BY Numbers, NumbersNext
<1>16. ASSUME NEW S \in SUBSET Identities, Active' \subseteq S, Cardinality(S) <= limit
       PROVE  Cardinality(Active') <= limit'
  BY <1>11, <1>15, <1>16, Counts
<1>17. CASE outrun'
  BY <1>9, <1>10, <1>13, <1>17 DEF PlacesRight, Cured
<1>18. CASE ~outrun' /\ ~off /\ rows # {}
  <2>1. Cardinality(Active \cup rows) <= limit
    BY <1>1, <1>2, <1>4, <1>18 DEF PlacesRight, PlanRight
  <2>2. Cardinality(Active') <= limit'
    BY <1>2, <1>8, <1>15, <1>16, <1>18, <2>1
  <2> QED
    BY <1>9, <1>10, <1>13, <2>2 DEF PlacesRight, Cured
<1>19. CASE ~outrun' /\ (off \/ rows = {})
  <2>1. Active' \subseteq Active
    BY <1>2, <1>8, <1>19
  <2>2. Cardinality(Active) <= limit \/ \E v \in Webhooks : Cures(v)
    BY <1>4, <1>19 DEF PlacesRight, Cured
  <2>3. CASE Cardinality(Active) <= limit
    <3>1. Cardinality(Active') <= limit'
      BY <1>15, <1>16, <2>1, <2>3
    <3> QED
      BY <1>9, <1>10, <1>13, <3>1 DEF PlacesRight, Cured
  <2>4. CASE Cures(w)
    <3>1. off /\ Cardinality(Active \ rows) <= limit
      BY <1>1, <2>4 DEF Cures
    <3>2. Cardinality(Active') <= limit'
      BY <1>8, <1>15, <1>16, <3>1
    <3> QED
      BY <1>9, <1>10, <1>13, <3>2 DEF PlacesRight, Cured
  <2>5. ASSUME NEW v \in Webhooks \ {w}, Cures(v) PROVE PlacesRight'
    <3>1. Cures(v)'
      BY <1>14, <2>1, <2>5
    <3> QED
      BY <1>9, <1>10, <1>13, <3>1 DEF PlacesRight, Cured
  <2> QED
    BY <2>2, <2>3, <2>4, <2>5
<1> QED
  BY <1>17, <1>18, <1>19

-----------------------------------------------------------------------------
(* Steps of requests, agents and faults that change no place *)

LEMMA SlotMoves ==
  ASSUME IInv, NEW r \in Requests, NEW q, q.pc \in Early, q.op = "recover" => ~q.was, q.cred = 0,
         request' = [request EXCEPT ![r] = q]
  PROVE  \A s \in Requests : Moves(s)
<1>1. request \in [Requests -> RequestType]
  BY DEF IInv, TypeOK
<1>2. request'[r] = q /\ \A s \in Requests \ {r} : request'[s] = request[s]
  BY <1>1
<1> QED
  BY <1>2 DEF Moves

LEMMA IdleMoves == Idle.pc \in Early /\ ~Idle.was /\ Idle.cred = 0
BY DEF Idle, Early

LEMMA AskMoves ==
  ASSUME NEW op, NEW i, NEW k
  PROVE  LET q == Ask(op, i, k) IN q.pc \in Early /\ ~q.was /\ q.cred = 0 /\ q.op = op /\ q.k = k /\ q.by = None
BY DEF Ask, Idle, Early

LEMMA ForgetPlaces == ASSUME IInv, IInv', PlacesRight, NEW r \in Requests, Forget(r) PROVE PlacesRight'
<1>1. \A s \in Requests : Moves(s)
  BY IdleMoves, SlotMoves DEF Forget
<1> QED
  BY <1>1, QuietPlaces DEF Forget, history

LEMMA RecoverPlaces ==
  ASSUME IInv, IInv', PlacesRight, NEW r \in Requests, NEW i \in Identities, NEW k \in Tokens, Recover(r, i, k)
  PROVE  PlacesRight'
<1> DEFINE q == Ask("recover", i, k)
<1>1. q.pc \in Early /\ ~q.was /\ q.cred = 0 /\ request' = [request EXCEPT ![r] = q]
  BY AskMoves DEF Recover
<1> HIDE DEF q
<1>2. \A s \in Requests : Moves(s)
  BY <1>1, SlotMoves
<1> QED
  BY <1>2, QuietPlaces DEF Recover, history

LEMMA AnsweredPlaces == ASSUME IInv, IInv', PlacesRight, NEW r \in Requests, Answered(r) PROVE PlacesRight'
<1>1. request' = [request EXCEPT ![r] = Idle]
  BY DEF Answered
<1>2. \A s \in Requests : Moves(s)
  BY <1>1, IdleMoves, SlotMoves
<1> QED
  BY <1>2, QuietPlaces DEF Answered, history

LEMMA AsksMoves ==
  ASSUME IInv, NEW m \in Machines, NEW a \in Who, NEW p \in Process, NEW t \in Nat, Asks(m, a, p, t)
  PROVE  \A s \in Requests : Moves(s)
<1>1. PICK r \in Requests, i \in Identity(m) :
        request' = [request EXCEPT ![r] = [Ask("register", i, p.k) EXCEPT !.m = m, !.by = a]]
  BY DEF Asks
<1> DEFINE q == [Ask("register", i, p.k) EXCEPT !.m = m, !.by = a]
<1>2. q.pc \in Early /\ ~q.was /\ q.cred = 0
  BY DEF Ask, Idle, Early
<1>3. request' = [request EXCEPT ![r] = q]
  BY <1>1
<1> HIDE DEF q
<1> QED
  BY <1>2, <1>3, SlotMoves

LEMMA SameMoves == ASSUME request' = request PROVE \A s \in Requests : Moves(s)
BY DEF Moves

LEMMA StartPlaces ==
  ASSUME IInv, IInv', PlacesRight, NEW m \in Machines, NEW a \in Who, NEW k \in Tokens \cup {None}, Start(m, a, k)
  PROVE  PlacesRight'
<1>1. \A s \in Requests : Moves(s)
  <2>1. CASE k # None
    <3>1. PICK p \in Process, t \in Nat : Asks(m, a, p, t)
      BY <2>1, Constants, NextProcess DEF Start, IInv, TypeOK, Disk
    <3> QED
      BY <3>1, AsksMoves
  <2>2. CASE k = None
    BY <2>2, SameMoves DEF Start
  <2> QED
    BY <2>1, <2>2
<1> QED
  BY <1>1, QuietPlaces DEF Start, history

LEMMA InvalidatePlaces == ASSUME IInv, IInv', PlacesRight, NEW m \in Machines, Invalidate(m) PROVE PlacesRight'
<1>1. \A s \in Requests : Moves(s)
  <2>1. "service" \in Who /\ agent[m].service = agent[m]["service"] /\ agent[m]["service"] \in Process
    BY ProcessTyped DEF Who
  <2>2. CASE agent[m].service.k # None
    <3>1. Asks(m, "service", agent[m].service, 0)
      BY <2>2 DEF Invalidate
    <3> QED
      BY <2>1, <3>1, AsksMoves
  <2>3. CASE agent[m].service.k = None
    BY <2>3, SameMoves DEF Invalidate
  <2> QED
    BY <2>2, <2>3
<1> QED
  BY <1>1, QuietPlaces DEF Invalidate, history

LEMMA RetryPlaces == ASSUME IInv, IInv', PlacesRight, NEW m \in Machines, Retry(m) PROVE PlacesRight'
<1>1. \A s \in Requests : Moves(s)
  <2>1. "service" \in Who /\ agent[m].service = agent[m]["service"] /\ agent[m]["service"] \in Process
    BY ProcessTyped DEF Who
  <2>2. disk[m].token \in Nat
    BY DEF IInv, TypeOK, Disk
  <2>3. CASE Asks(m, "service", agent[m].service, disk[m].token)
    BY <2>1, <2>2, <2>3, AsksMoves
  <2>4. CASE request' = request
    BY <2>4, SameMoves
  <2> QED
    BY <2>3, <2>4 DEF Retry
<1> QED
  BY <1>1, QuietPlaces DEF Retry, history

LEMMA AbandonedMoves == ASSUME IInv, NEW m, NEW A, Abandoned(m, A) PROVE \A s \in Requests : Moves(s)
<1> SUFFICES ASSUME NEW s \in Requests PROVE Moves(s)
  OBVIOUS
<1>1. request[s] \in RequestType
  BY DEF IInv, TypeOK
<1>2. request'[s] = request[s] \/ request'[s] = [request[s] EXCEPT !.by = None]
  BY DEF Abandoned
<1> QED
  BY <1>1, <1>2 DEF Moves, RequestType

LEMMA ResetPlaces == ASSUME IInv, IInv', PlacesRight, NEW m \in Machines, Reset(m) PROVE PlacesRight'
<1>1. \A s \in Requests : Moves(s)
  <2>1. PICK A : Abandoned(m, A)
    BY DEF Reset
  <2> QED
    BY <2>1, AbandonedMoves
<1> QED
  BY <1>1, QuietPlaces DEF Reset, history

LEMMA CrashPlaces ==
  ASSUME IInv, IInv', PlacesRight, NEW m \in Machines, NEW a \in Who, Crash(m, a)
  PROVE  PlacesRight'
<1>1. \A s \in Requests : Moves(s)
  BY AbandonedMoves DEF Crash
<1> QED
  BY <1>1, QuietPlaces DEF Crash, history

LEMMA TimeOutPlaces == ASSUME IInv, IInv', PlacesRight, NEW r \in Requests, TimeOut(r) PROVE PlacesRight'
<1>1. request \in [Requests -> RequestType] /\ request[r] \in RequestType
  BY DEF IInv, TypeOK
<1>2. /\ request'[r] = [request[r] EXCEPT !.by = None]
      /\ \A s \in Requests \ {r} : request'[s] = request[s]
  BY <1>1 DEF TimeOut
<1>3. Moves(r)
  BY <1>1, <1>2 DEF Moves, RequestType
<1>4. \A s \in Requests : Moves(s)
  BY <1>2, <1>3 DEF Moves
<1> QED
  BY <1>4, QuietPlaces DEF TimeOut, history

(* Saving, and sending metrics, are the agent's alone. *)
LEMMA AgentPlaces == ASSUME IInv, IInv', PlacesRight, UNCHANGED <<gateway, history>> PROVE PlacesRight'
<1>1. \A s \in Requests : Moves(s)
  BY SameMoves DEF gateway
<1> QED
  BY <1>1, QuietPlaces DEF gateway, history

LEMMA EndTokenPlaces == ASSUME IInv, IInv', PlacesRight, NEW k \in Tokens, EndToken(k) PROVE PlacesRight'
<1>1. Rows' = Rows /\ Active' = Active /\ BornOnce' /\ Paying' = Paying
  BY DEF EndToken, Rows, Active, PlacesRight, BornOnce, Paying
<1>2. Paid' = Paid
  <2>1. \A j \in Tokens : token'[j].used = token[j].used
    BY DEF EndToken, IInv, TypeOK, TokenType
  <2> QED
    BY <2>1 DEF Paid, Uses
<1>3. PaidFor'
  BY <1>1, <1>2 DEF PlacesRight, PaidFor, EndToken
<1>4. \A r \in Requests : RequestRight(r)'
  BY <1>1, SameRight DEF PlacesRight, EndToken
<1>5. \A w \in Webhooks : PlanRight(w)'
  BY <1>1 DEF PlacesRight, PlanRight, EndToken
<1>6. Cured'
  BY <1>1 DEF PlacesRight, Cured, Cures, EndToken, history
<1> QED
  BY <1>1, <1>3, <1>4, <1>5, <1>6 DEF PlacesRight

LEMMA GatewayRestartPlaces == ASSUME IInv, IInv', PlacesRight, GatewayRestart PROVE PlacesRight'
<1> DEFINE q(r) == IF request[r].by = None THEN Idle ELSE [request[r] EXCEPT !.pc = "refused"]
           x(w) == IF webhook[w].pc \in {"list", "find", "write"} THEN [webhook[w] EXCEPT !.pc = "again"] ELSE webhook[w]
<1>1. request \in [Requests -> RequestType] /\ webhook \in [Webhooks -> WebhookType]
  BY DEF IInv, TypeOK
<1>2. /\ request' = [r \in Requests |-> q(r)]
      /\ webhook' = [w \in Webhooks |-> x(w)]
      /\ UNCHANGED <<token, device, limit, issued, outrun>>
  BY DEF GatewayRestart, history
<1>3. Rows' = Rows /\ Active' = Active /\ BornOnce' /\ Paid' = Paid
  BY <1>2 DEF Rows, Active, PlacesRight, BornOnce, Paid, Uses
<1>4. \A r \in Requests : Moves(r) /\ request'[r].pc \in {"idle", "refused"}
  <2> SUFFICES ASSUME NEW r \in Requests PROVE Moves(r) /\ request'[r].pc \in {"idle", "refused"}
    OBVIOUS
  <2>1. request[r] \in RequestType /\ request'[r] = q(r)
    BY <1>1, <1>2
  <2>2. CASE request[r].by = None
    <3>1. request'[r] = Idle
      BY <2>1, <2>2
    <3> QED
      BY <3>1, IdleMoves, Constants DEF Moves
  <2>3. CASE request[r].by # None
    <3>1. request'[r] = [request[r] EXCEPT !.pc = "refused"]
      BY <2>1, <2>3
    <3> QED
      BY <2>1, <3>1 DEF Moves, RequestType, Early
  <2> QED
    BY <2>2, <2>3
<1>5. Cardinality(Active') <= Cardinality(Active)
  BY <1>3, Numbers
<1>6. \A r \in Requests : RequestRight(r)'
  BY <1>2, <1>3, <1>4, <1>5, MovesRight DEF PlacesRight
<1>7. \A w \in Webhooks :
        webhook'[w] = webhook[w] \/ (webhook'[w].pc = "again" /\ webhook[w].pc \in {"list", "find", "write"})
  <2> SUFFICES ASSUME NEW w \in Webhooks
               PROVE  webhook'[w] = webhook[w] \/ (webhook'[w].pc = "again" /\ webhook[w].pc \in {"list", "find", "write"})
    OBVIOUS
  <2>1. webhook[w] \in WebhookType /\ webhook'[w] = x(w)
    BY <1>1, <1>2
  <2> QED
    BY <2>1 DEF WebhookType
<1> HIDE DEF q, x
<1>8. \A w \in Webhooks : PlanRight(w)'
  BY <1>2, <1>3, <1>7 DEF PlacesRight, PlanRight
<1>9. \A w \in Webhooks : Cures(w) => Cures(w)'
  BY <1>2, <1>3, <1>7 DEF Cures
<1>10. Cured'
  BY <1>2, <1>3, <1>9 DEF PlacesRight, Cured
<1>11. PaidFor'
  <2>1. Paying' \subseteq Paying
    BY <1>4 DEF Paying
  <2> QED
    BY <1>2, <1>3, <2>1, FewerPaying DEF PlacesRight
<1> QED
  BY <1>3, <1>6, <1>8, <1>10, <1>11 DEF PlacesRight

LEMMA InitPlaces == ASSUME Init, IInv PROVE PlacesRight
<1>1. Rows = {} /\ Active = {} /\ Paying = {} /\ outrun = FALSE /\ issued = 0
  BY DEF Init, Rows, Active, Paying, NoRow, Idle
<1>2. BornOnce
  BY <1>1 DEF BornOnce
<1>3. Cardinality({}) = 0 /\ Cardinality(Paid) \in Nat /\ limit \in Nat
  BY Numbers, FS_EmptySet
<1>4. Cured /\ PaidFor
  BY <1>1, <1>3 DEF Cured, PaidFor
<1>5. \A r \in Requests : RequestRight(r)
  BY DEF Init, Idle, RequestRight, Found, Counted
<1>6. \A w \in Webhooks : PlanRight(w)
  <2> SUFFICES ASSUME NEW w \in Webhooks PROVE webhook[w].pc = "due"
    BY DEF PlanRight
  <2> DEFINE Due == {[pc |-> "due", limit |-> n, off |-> FALSE, room |-> 0, rows |-> {}, raced |-> FALSE] : n \in Limits}
  <2>1. webhook[w] \in Due
    BY DEF Init
  <2> QED
    BY <2>1
<1> QED
  BY <1>2, <1>4, <1>5, <1>6 DEF PlacesRight

-----------------------------------------------------------------------------
(* Credentials that lapsed, and what the agents hold *)

(* A credential that is not accepted was never current, was replaced, or     *)
(* lapsed.                                                                   *)
KnownLapses == \A i \in Rows : device[i].revoked \/ device[i].inactive => device[i].cred \in lapsed

(* Credentials in hand were issued, and who registers names a token.         *)
RequestNamed(r) ==
  LET q == request[r] IN
  /\ q.cred <= issued
  /\ q.pc \in {"clear", "done"} => q.cred # 0
  /\ q.pc \in {"validate", "consume"} => q.k \in Tokens
ProcessNamed(m, a) ==
  LET p == agent[m][a] IN
  /\ p.cred <= issued
  /\ p.pc = "save" => p.cred # 0
  /\ p.pc \in {"asking", "refused"} => p.k \in Tokens

(* Of the requests at most one is waited for by each process, and it waits.  *)
Waits(r) ==
  LET q == request[r] IN
  q.by # None =>
    /\ q.m \in Machines /\ agent[q.m][q.by].pc = "asking"
    /\ \A s \in Requests : request[s].by = q.by /\ request[s].m = q.m => s = r

(* Only a machine with the service runs it, and it knows why it is rejected. *)
ServiceThere == \A m \in Machines \ Serviced : agent[m]["service"].pc = "off"
RejectedRight(m) ==
  LET p == agent[m]["service"] IN p.pc = "rejected" => ~Accepts(p.cred) \/ p.cred \in lapsed

AgentsRight ==
  /\ KnownLapses /\ ServiceThere
  /\ \A r \in Requests : RequestNamed(r) /\ Waits(r)
  /\ \A m \in Machines : RejectedRight(m) /\ \A a \in Who : ProcessNamed(m, a)
  /\ \A m \in Machines : disk[m].token <= issued

(* What comes to be accepted was just issued, or had lapsed. *)
NoRevival ==
  /\ issued' \in {issued, issued + 1} /\ lapsed \subseteq lapsed'
  /\ \A c \in 0..issued : Accepts(c)' => Accepts(c) \/ c \in lapsed'

LEMMA StillRejected ==
  ASSUME IInv, AgentsRight, NoRevival, NEW m \in Machines, agent'[m]["service"] = agent[m]["service"]
  PROVE  RejectedRight(m)'
<1>1. PICK c : c = agent[m]["service"].cred
  OBVIOUS
<1>2. "service" \in Who
  BY DEF Who
<1>3. c \in 0..issued
  <2>1. agent[m]["service"] \in Process /\ issued \in Nat
    BY <1>2 DEF IInv, TypeOK
  <2>2. c \in Nat /\ c <= issued
    BY <1>1, <1>2, <2>1 DEF AgentsRight, ProcessNamed, Process
  <2> QED
    BY <2>1, <2>2
<1>4. agent[m]["service"].pc = "rejected" => ~Accepts(c) \/ c \in lapsed
  BY <1>1 DEF AgentsRight, RejectedRight
<1>5. agent[m]["service"].pc = "rejected" => ~Accepts(c)' \/ c \in lapsed'
  BY <1>3, <1>4 DEF NoRevival
<1>6. Accepts(agent[m]["service"].cred)' = Accepts(c)'
  BY <1>1 DEF Accepts
<1> QED
  BY <1>1, <1>5, <1>6 DEF RejectedRight

(* Who still waits goes on waiting. *)
LEMMA WaitsKept ==
  ASSUME \A r \in Requests : Waits(r),
         \A s \in Requests : \/ request'[s].by = None
                             \/ /\ request'[s].by = request[s].by /\ request'[s].m = request[s].m
                                /\ agent'[request[s].m][request[s].by].pc = agent[request[s].m][request[s].by].pc
  PROVE  \A r \in Requests : Waits(r)'
<1> SUFFICES ASSUME NEW r \in Requests, request'[r].by # None
             PROVE  /\ request'[r].m \in Machines /\ agent'[request'[r].m][request'[r].by].pc = "asking"
                    /\ \A s \in Requests : request'[s].by = request'[r].by /\ request'[s].m = request'[r].m => s = r
  BY DEF Waits
<1>1. /\ request'[r].by = request[r].by /\ request'[r].m = request[r].m
      /\ agent'[request[r].m][request[r].by].pc = agent[request[r].m][request[r].by].pc
  OBVIOUS
<1>2. /\ request[r].m \in Machines /\ agent[request[r].m][request[r].by].pc = "asking"
      /\ \A s \in Requests : request[s].by = request[r].by /\ request[s].m = request[r].m => s = r
  BY <1>1 DEF Waits
<1>3. \A s \in Requests : request'[s].by # None => request'[s].by = request[s].by /\ request'[s].m = request[s].m
  OBVIOUS
<1> QED
  BY <1>1, <1>2, <1>3

(* Steps of the gateway leave the agents alone. *)
LEMMA GatewaySide ==
  ASSUME IInv, IInv', AgentsRight, UNCHANGED <<agent, disk>>, KnownLapses', NoRevival,
         \A s \in Requests : /\ RequestNamed(s)'
                             /\ \/ request'[s].by = None
                                \/ request'[s].by = request[s].by /\ request'[s].m = request[s].m
  PROVE  AgentsRight'
<1>1. \A s \in Requests : Waits(s)'
  BY WaitsKept DEF AgentsRight
<1>2. \A m \in Machines : RejectedRight(m)'
  BY StillRejected
<1>3. issued \in Nat /\ issued <= issued'
  BY DEF IInv, TypeOK, NoRevival
<1>4. \A m \in Machines, a \in Who : ProcessNamed(m, a)'
  <2> SUFFICES ASSUME NEW m \in Machines, NEW a \in Who PROVE ProcessNamed(m, a)'
    OBVIOUS
  <2>1. agent[m][a].cred \in Nat /\ agent[m][a].cred <= issued
    BY DEF IInv, TypeOK, Process, AgentsRight, ProcessNamed
  <2>2. agent[m][a].cred <= issued'
    BY <1>3, <2>1, NumbersNext
  <2> QED
    BY <2>2 DEF AgentsRight, ProcessNamed
<1>5. \A m \in Machines : disk'[m].token <= issued'
  <2> SUFFICES ASSUME NEW m \in Machines PROVE disk[m].token <= issued'
    OBVIOUS
  <2>1. disk[m].token \in Nat /\ disk[m].token <= issued
    BY DEF IInv, TypeOK, Disk, AgentsRight
  <2> QED
    BY <1>3, <2>1, NumbersNext
<1> QED
  BY <1>1, <1>2, <1>4, <1>5 DEF AgentsRight, ServiceThere

LEMMA SameDevices ==
  ASSUME IInv, AgentsRight, UNCHANGED <<device, issued, lapsed>>
  PROVE  KnownLapses' /\ NoRevival /\ \A c : Accepts(c)' = Accepts(c)
<1>1. Rows' = Rows /\ Active' = Active
  BY DEF Rows, Active
<1>2. \A c : Accepts(c)' = Accepts(c)
  BY <1>1 DEF Accepts
<1> QED
  BY <1>1, <1>2 DEF AgentsRight, KnownLapses, NoRevival

LEMMA GotoSide ==
  ASSUME IInv, IInv', AgentsRight, NEW r \in Requests, NEW pc \in Pcs \ {"clear", "done", "validate"}, Goto(r, pc),
         pc = "consume" => request[r].pc = "validate",
         UNCHANGED <<device, issued, agent, disk, lapsed>>
  PROVE  AgentsRight'
<1>1. /\ request' = [request EXCEPT ![r] = [request[r] EXCEPT !.pc = pc]]
      /\ request \in [Requests -> RequestType] /\ request[r] \in RequestType
  BY DEF Goto, IInv, TypeOK
<1>2. /\ request'[r].pc = pc /\ request'[r].by = request[r].by /\ request'[r].m = request[r].m
      /\ request'[r].k = request[r].k /\ request'[r].cred = request[r].cred
      /\ \A s \in Requests \ {r} : request'[s] = request[s]
  BY <1>1 DEF RequestType
<1>3. RequestNamed(r)'
  BY <1>2 DEF AgentsRight, RequestNamed
<1>4. \A s \in Requests : /\ RequestNamed(s)'
                          /\ request'[s].by = request[s].by /\ request'[s].m = request[s].m
  BY <1>2, <1>3 DEF AgentsRight, RequestNamed
<1> QED
  BY <1>4, SameDevices, GatewaySide

LEMMA ValidateSide == ASSUME IInv, IInv', AgentsRight, NEW r \in Requests, Validate(r) PROVE AgentsRight'
<1>1. PICK pc \in {"consume", "refused"} : Goto(r, pc)
  BY DEF Validate
<1>2. pc \in Pcs \ {"clear", "done", "validate"} /\ request[r].pc = "validate"
  BY DEF Pcs, Validate, IsAt
<1> QED
  BY <1>1, <1>2, GotoSide DEF Validate, history

LEMMA ConsumeSide == ASSUME IInv, IInv', AgentsRight, NEW r \in Requests, Consume(r) PROVE AgentsRight'
<1>1. PICK pc \in {"find", "count", "refused"} : Goto(r, pc)
  BY DEF Consume
<1>2. pc \in Pcs \ {"clear", "done", "validate"}
  BY DEF Pcs, Counted
<1> QED
  BY <1>1, <1>2, GotoSide DEF Consume, history

LEMMA CountSide == ASSUME IInv, IInv', AgentsRight, NEW r \in Requests, Count(r) PROVE AgentsRight'
<1>1. PICK pc \in {"find", "refused"} : Goto(r, pc)
  BY DEF Count
<1>2. pc \in Pcs \ {"clear", "done", "validate"}
  BY DEF Pcs, Counted
<1> QED
  BY <1>1, <1>2, GotoSide DEF Count, history

LEMMA FindSide == ASSUME IInv, IInv', AgentsRight, NEW r \in Requests, Find(r) PROVE AgentsRight'
<1>1. PICK pc \in {"rotate", "refused", "read", "create"} : Goto(r, pc)
  BY DEF Find
<1>2. pc \in Pcs \ {"clear", "done", "validate"}
  BY DEF Pcs, Counted
<1> QED
  BY <1>1, <1>2, GotoSide DEF Find, history

LEMMA ReadSide == ASSUME IInv, IInv', AgentsRight, NEW r \in Requests, Read(r) PROVE AgentsRight'
<1> DEFINE q == [request[r] EXCEPT !.pc = "rotate", !.was = device[request[r].i].revoked]
<1>1. request \in [Requests -> RequestType] /\ request[r] \in RequestType
  BY DEF IInv, TypeOK
<1>2. request' = [request EXCEPT ![r] = q]
  BY DEF Read
<1>3. q.pc = "rotate" /\ q.by = request[r].by /\ q.m = request[r].m /\ q.cred = request[r].cred
  BY <1>1 DEF RequestType
<1> HIDE DEF q
<1>4. request'[r] = q /\ \A s \in Requests \ {r} : request'[s] = request[s]
  BY <1>1, <1>2
<1>5. RequestNamed(r)'
  BY <1>3, <1>4 DEF AgentsRight, RequestNamed, Read
<1>6. \A s \in Requests : /\ RequestNamed(s)'
                          /\ request'[s].by = request[s].by /\ request'[s].m = request[s].m
  BY <1>3, <1>4, <1>5 DEF AgentsRight, RequestNamed, Read
<1> QED
  BY <1>6, SameDevices, GatewaySide DEF Read, history

LEMMA RotateSide == ASSUME IInv, IInv', PlacesRight, AgentsRight, NEW r \in Requests, Rotate(r) PROVE AgentsRight'
<1>0. PICK i : i = request[r].i
  OBVIOUS
<1> DEFINE c == issued + 1
           d == [device[i] EXCEPT !.cred = c]
           pc == IF request[r].was THEN "clear" ELSE "done"
           q == [request[r] EXCEPT !.pc = pc, !.cred = c]
<1>1. /\ request \in [Requests -> RequestType] /\ request[r] \in RequestType /\ request[r].pc = "rotate"
      /\ device \in [Identities -> Row] /\ issued \in Nat
  BY DEF IInv, TypeOK, Rotate, IsAt
<1>2. i \in Rows /\ i \in Identities
  BY <1>0, <1>1 DEF PlacesRight, RequestRight, Found, Rows
<1>3. d.cred = c /\ d.inactive = device[i].inactive /\ d.revoked = device[i].revoked
  BY <1>1, <1>2 DEF Row
<1>4. q.pc = pc /\ q.by = request[r].by /\ q.m = request[r].m /\ q.cred = c
  BY <1>1 DEF RequestType
<1>5. /\ issued' = c /\ device' = [device EXCEPT ![i] = d] /\ request' = [request EXCEPT ![r] = q]
      /\ lapsed' = IF device[i].revoked \/ device[i].inactive THEN lapsed \cup {c} ELSE lapsed
  BY <1>0, <1>1, <1>2 DEF Rotate
<1>6. c # 0 /\ c \notin 0..issued /\ c \in Nat /\ pc \in {"clear", "done"}
  BY <1>1
<1> HIDE DEF d, q, pc
<1>7. device'[i] = d /\ \A j \in Identities \ {i} : device'[j] = device[j]
  BY <1>1, <1>2, <1>5
<1>8. request'[r] = q /\ \A s \in Requests \ {r} : request'[s] = request[s]
  BY <1>1, <1>5
<1>9. KnownLapses'
  <2> SUFFICES ASSUME NEW j \in Rows', device'[j].revoked \/ device'[j].inactive
               PROVE  device'[j].cred \in lapsed'
    BY DEF KnownLapses
  <2>1. j \in Identities
    BY DEF Rows
  <2>2. CASE j = i
    BY <1>3, <1>5, <1>7, <2>2
  <2>3. CASE j # i
    <3>1. device'[j] = device[j] /\ j \in Rows
      BY <1>7, <2>1, <2>3 DEF Rows
    <3> QED
      BY <1>5, <3>1 DEF AgentsRight, KnownLapses
  <2> QED
    BY <2>2, <2>3
<1>10. NoRevival
  <2> SUFFICES ASSUME NEW e \in 0..issued, NEW j \in Active', device'[j].cred = e, ~device'[j].revoked
               PROVE  Accepts(e)
    BY <1>5 DEF NoRevival, Accepts
  <2>1. j \in Identities /\ j # i
    BY <1>3, <1>6, <1>7 DEF Active, Rows
  <2> QED
    BY <1>7, <2>1 DEF Accepts, Active, Rows
<1>11. \A s \in Requests : /\ RequestNamed(s)'
                           /\ request'[s].by = request[s].by /\ request'[s].m = request[s].m
  <2>1. RequestNamed(r)'
    BY <1>4, <1>5, <1>6, <1>8 DEF RequestNamed
  <2>2. ASSUME NEW s \in Requests \ {r} PROVE RequestNamed(s)'
    <3>1. request'[s] = request[s] /\ request[s].cred \in Nat
      BY <1>1, <1>8 DEF RequestType
    <3>2. request[s].cred <= issued'
      BY <1>1, <1>5, <3>1 DEF AgentsRight, RequestNamed
    <3> QED
      BY <3>1, <3>2 DEF AgentsRight, RequestNamed
  <2> QED
    BY <1>4, <1>8, <2>1, <2>2
<1> QED
  BY <1>9, <1>10, <1>11, GatewaySide DEF Rotate

(* The requests as a device joins. *)
LEMMA JoinSide ==
  ASSUME IInv, IInv', AgentsRight, NEW r \in Requests, NEW c \in Nat, c # 0, c <= issued', issued' \in {issued, issued + 1},
         Joining(r, "done", c)
  PROVE  \A s \in Requests : /\ RequestNamed(s)'
                             /\ request'[s].by = request[s].by /\ request'[s].m = request[s].m
<1> DEFINE q == [request[r] EXCEPT !.pc = "done", !.cred = c]
<1>1. request \in [Requests -> RequestType] /\ request[r] \in RequestType /\ issued \in Nat
  BY DEF IInv, TypeOK
<1>2. request' = [s \in Requests |-> IF s = r THEN q ELSE Outdated(request[s])]
  BY DEF Joining
<1>3. q.pc = "done" /\ q.cred = c /\ q.by = request[r].by /\ q.m = request[r].m
  BY <1>1 DEF RequestType
<1> HIDE DEF q
<1>4. RequestNamed(r)'
  BY <1>2, <1>3 DEF RequestNamed
<1>5. ASSUME NEW s \in Requests \ {r}
      PROVE  /\ RequestNamed(s)'
             /\ request'[s].by = request[s].by /\ request'[s].m = request[s].m
  <2>1. request[s] \in RequestType /\ request'[s] = Outdated(request[s])
    BY <1>1, <1>2
  <2>2. /\ request'[s].by = request[s].by /\ request'[s].m = request[s].m /\ request'[s].pc = request[s].pc
        /\ request'[s].k = request[s].k /\ request'[s].cred = request[s].cred
    BY <2>1, OutdatedSame, OutdatedTyped
  <2>3. request[s].cred \in Nat /\ request[s].cred <= issued
    BY <2>1 DEF RequestType, AgentsRight, RequestNamed
  <2>4. request[s].cred <= issued'
    BY <1>1, <2>3
  <2> QED
    BY <2>2, <2>4 DEF AgentsRight, RequestNamed
<1> QED
  BY <1>2, <1>3, <1>4, <1>5

LEMMA ClearSide == ASSUME IInv, IInv', PlacesRight, AgentsRight, NEW r \in Requests, Clear(r) PROVE AgentsRight'
<1>0. PICK i : i = request[r].i
  OBVIOUS
<1> DEFINE d == [device[i] EXCEPT !.revoked = FALSE, !.inactive = FALSE]
<1>1. /\ device \in [Identities -> Row] /\ request[r].pc = "clear" /\ request[r].cred \in Nat
      /\ issued' = issued /\ lapsed' = lapsed
  BY DEF IInv, TypeOK, RequestType, Clear, IsAt
<1>2. i \in Rows /\ i \in Identities
  BY <1>0, <1>1 DEF PlacesRight, RequestRight, Found, Rows
<1>3. d.cred = device[i].cred /\ ~d.revoked /\ ~d.inactive
  BY <1>1, <1>2 DEF Row
<1>4. device' = [device EXCEPT ![i] = d] /\ Joining(r, "done", request[r].cred)
  BY <1>0 DEF Clear
<1> HIDE DEF d
<1>5. device'[i] = d /\ \A j \in Identities \ {i} : device'[j] = device[j]
  BY <1>1, <1>2, <1>4
<1>6. KnownLapses'
  BY <1>1, <1>3, <1>5 DEF AgentsRight, KnownLapses, Rows
<1>7. NoRevival
  <2> SUFFICES ASSUME NEW e \in 0..issued, NEW j \in Active', device'[j].cred = e, ~device'[j].revoked
               PROVE  Accepts(e) \/ e \in lapsed'
    BY <1>1 DEF NoRevival, Accepts
  <2>1. j \in Identities /\ j \in Rows /\ device[j].cred = e
    BY <1>2, <1>3, <1>5 DEF Active, Rows
  <2>2. CASE device[j].revoked \/ device[j].inactive
    BY <1>1, <2>1, <2>2 DEF AgentsRight, KnownLapses
  <2>3. CASE ~(device[j].revoked \/ device[j].inactive)
    BY <2>1, <2>3 DEF Accepts, Active
  <2> QED
    BY <2>2, <2>3
<1>8. \A s \in Requests : /\ RequestNamed(s)'
                          /\ request'[s].by = request[s].by /\ request'[s].m = request[s].m
  <2>1. PICK c : c = request[r].cred
    OBVIOUS
  <2>2. c \in Nat /\ c # 0 /\ c <= issued' /\ Joining(r, "done", c)
    BY <1>1, <1>4, <2>1 DEF AgentsRight, RequestNamed
  <2> QED
    BY <1>1, <2>2, JoinSide
<1> QED
  BY <1>6, <1>7, <1>8, GatewaySide DEF Clear

LEMMA CreateSide == ASSUME IInv, IInv', AgentsRight, NEW r \in Requests, Create(r) PROVE AgentsRight'
<1>0. PICK i : i = request[r].i
  OBVIOUS
<1>1. CASE i \in Rows
  <2>1. Goto(r, "read") /\ "read" \in Pcs \ {"clear", "done", "validate"} /\ UNCHANGED <<device, issued>>
    BY <1>0, <1>1 DEF Create, Pcs, Counted
  <2> QED
    BY <2>1, GotoSide DEF Create
<1>2. CASE i \notin Rows
  <2>1. PICK c : c = issued + 1
    OBVIOUS
  <2> DEFINE d == [NoRow EXCEPT !.cred = c, !.born = c]
  <2>2. /\ issued' = c /\ device' = [device EXCEPT ![i] = d] /\ Joining(r, "done", c)
        /\ lapsed' = lapsed
    BY <1>0, <1>2, <2>1 DEF Create
  <2>3. d.cred = c /\ ~d.revoked /\ ~d.inactive
    BY DEF NoRow
  <2> HIDE DEF d
  <2>4. device \in [Identities -> Row] /\ issued \in Nat /\ c \in Nat /\ c # 0 /\ c \notin 0..issued
    BY <2>1 DEF IInv, TypeOK
  <2>5. /\ i \in Identities => device'[i] = d
        /\ \A j \in Identities \ {i} : device'[j] = device[j]
    BY <2>2, <2>4
  <2>6. KnownLapses'
    BY <2>2, <2>3, <2>5 DEF AgentsRight, KnownLapses, Rows
  <2>7. NoRevival
    <3> SUFFICES ASSUME NEW e \in 0..issued, NEW j \in Active', device'[j].cred = e, ~device'[j].revoked
                 PROVE  Accepts(e)
      BY <2>1, <2>2 DEF NoRevival, Accepts
    <3>1. j \in Identities /\ j # i
      BY <2>3, <2>4, <2>5 DEF Active, Rows
    <3> QED
      BY <2>5, <3>1 DEF Accepts, Active, Rows
  <2>8. \A s \in Requests : /\ RequestNamed(s)'
                            /\ request'[s].by = request[s].by /\ request'[s].m = request[s].m
    BY <2>1, <2>2, <2>4, JoinSide
  <2> QED
    BY <2>6, <2>7, <2>8, GatewaySide DEF Create
<1> QED
  BY <1>1, <1>2

LEMMA SameNamed ==
  ASSUME AgentsRight, NEW s \in Requests, request'[s] = request[s], issued' = issued
  PROVE  RequestNamed(s)'
BY DEF AgentsRight, RequestNamed

LEMMA RevokeSide == ASSUME IInv, IInv', AgentsRight, NEW i \in Identities, Revoke(i) PROVE AgentsRight'
<1> DEFINE d == [device[i] EXCEPT !.revoked = TRUE, !.inactive = TRUE]
<1>1. device \in [Identities -> Row]
  BY DEF IInv, TypeOK
<1>2. d.cred = device[i].cred /\ d.revoked /\ d.inactive
  BY <1>1 DEF Row
<1>3. device' = [device EXCEPT ![i] = d] /\ lapsed' = lapsed \cup {device[i].cred}
  BY DEF Revoke
<1> HIDE DEF d
<1>4. device'[i] = d /\ \A j \in Identities \ {i} : device'[j] = device[j]
  BY <1>1, <1>3
<1>5. KnownLapses'
  BY <1>2, <1>3, <1>4 DEF AgentsRight, KnownLapses, Rows
<1>6. NoRevival
  BY <1>2, <1>3, <1>4 DEF NoRevival, Accepts, Active, Rows, Revoke
<1>7. \A s \in Requests : RequestNamed(s)'
  BY SameNamed DEF Revoke
<1> QED
  BY <1>5, <1>6, <1>7, GatewaySide DEF Revoke

LEMMA OutdatedSide ==
  ASSUME IInv, AgentsRight, request' = [r \in Requests |-> Outdated(request[r])], issued' = issued
  PROVE  \A s \in Requests : /\ RequestNamed(s)'
                             /\ request'[s].by = request[s].by /\ request'[s].m = request[s].m
<1> SUFFICES ASSUME NEW s \in Requests
             PROVE  /\ RequestNamed(s)'
                    /\ request'[s].by = request[s].by /\ request'[s].m = request[s].m
  OBVIOUS
<1>1. request[s] \in RequestType /\ request'[s] = Outdated(request[s])
  BY DEF IInv, TypeOK
<1>2. /\ request'[s].by = request[s].by /\ request'[s].m = request[s].m /\ request'[s].pc = request[s].pc
      /\ request'[s].k = request[s].k /\ request'[s].cred = request[s].cred
  BY <1>1, OutdatedSame, OutdatedTyped
<1> QED
  BY <1>2 DEF AgentsRight, RequestNamed

LEMMA SetPlanSide == ASSUME IInv, IInv', AgentsRight, NEW w \in Webhooks, SetPlan(w) PROVE AgentsRight'
BY OutdatedSide, SameDevices, GatewaySide DEF SetPlan, history

LEMMA ListDevicesSide == ASSUME IInv, IInv', AgentsRight, NEW w \in Webhooks, ListDevices(w) PROVE AgentsRight'
<1>1. \A s \in Requests : RequestNamed(s)'
  BY SameNamed DEF ListDevices
<1> QED
  BY <1>1, SameDevices, GatewaySide DEF ListDevices, history

LEMMA FindInactiveSide == ASSUME IInv, IInv', AgentsRight, NEW w \in Webhooks, FindInactive(w) PROVE AgentsRight'
<1>1. \A s \in Requests : RequestNamed(s)'
  BY SameNamed DEF FindInactive
<1> QED
  BY <1>1, SameDevices, GatewaySide DEF FindInactive, history

LEMMA WriteDevicesSide == ASSUME IInv, IInv', AgentsRight, NEW w \in Webhooks, WriteDevices(w) PROVE AgentsRight'
<1> DEFINE rows == webhook[w].rows
           off == webhook[w].off
           d(i) == IF i \in rows THEN [device[i] EXCEPT !.inactive = off] ELSE device[i]
<1>1. device \in [Identities -> Row] /\ webhook[w] \in WebhookType
  BY DEF IInv, TypeOK
<1>2. off \in BOOLEAN /\ rows \in SUBSET Identities
  BY <1>1 DEF WebhookType
<1>3. /\ device' = [i \in Identities |-> d(i)] /\ issued' = issued
      /\ lapsed' = IF off THEN lapsed \cup {device[i].cred : i \in rows} ELSE lapsed
  BY DEF WriteDevices
<1>4. \A i \in Identities :
        /\ d(i).cred = device[i].cred /\ d(i).revoked = device[i].revoked
        /\ d(i).inactive = IF i \in rows THEN off ELSE device[i].inactive
  BY <1>1, <1>2 DEF Row
<1> HIDE DEF d
<1>5. \A i \in Identities :
        /\ device'[i].cred = device[i].cred /\ device'[i].revoked = device[i].revoked
        /\ device'[i].inactive = IF i \in rows THEN off ELSE device[i].inactive
  BY <1>3, <1>4
<1>6. Rows' = Rows /\ Rows \subseteq Identities
  BY <1>5 DEF Rows
<1>7. KnownLapses'
  <2> SUFFICES ASSUME NEW j \in Rows, device'[j].revoked \/ device'[j].inactive
               PROVE  device[j].cred \in lapsed'
    BY <1>5, <1>6 DEF KnownLapses
  <2>1. CASE device[j].revoked \/ device[j].inactive
    BY <1>3, <2>1 DEF AgentsRight, KnownLapses
  <2>2. CASE ~(device[j].revoked \/ device[j].inactive)
    BY <1>3, <1>5, <1>6, <2>2
  <2> QED
    BY <2>1, <2>2
<1>8. NoRevival
  <2> SUFFICES ASSUME NEW e \in 0..issued, NEW j \in Active', device'[j].cred = e, ~device'[j].revoked
               PROVE  Accepts(e) \/ e \in lapsed'
    BY <1>3 DEF NoRevival, Accepts
  <2>1. j \in Identities /\ j \in Rows /\ device[j].cred = e
    BY <1>5, <1>6 DEF Active
  <2>2. CASE device[j].revoked \/ device[j].inactive
    BY <1>3, <2>1, <2>2 DEF AgentsRight, KnownLapses
  <2>3. CASE ~(device[j].revoked \/ device[j].inactive)
    BY <2>1, <2>3 DEF Accepts, Active
  <2> QED
    BY <2>2, <2>3
<1> QED
  BY <1>3, <1>7, <1>8, OutdatedSide, GatewaySide DEF WriteDevices

LEMMA EndTokenSide == ASSUME IInv, IInv', AgentsRight, NEW k \in Tokens, EndToken(k) PROVE AgentsRight'
<1>1. \A s \in Requests : RequestNamed(s)'
  BY SameNamed DEF EndToken
<1> QED
  BY <1>1, SameDevices, GatewaySide DEF EndToken, history

(* A slot is emptied, or taken by a request that nobody waits for. *)
LEMMA SlotSide ==
  ASSUME IInv, IInv', AgentsRight, NEW r \in Requests, NEW q, q.cred = 0, q.by = None, q.pc \notin {"clear", "done"},
         q.pc \in {"validate", "consume"} => q.k \in Tokens,
         request' = [request EXCEPT ![r] = q], UNCHANGED <<device, issued, agent, disk, lapsed>>
  PROVE  AgentsRight'
<1>1. request \in [Requests -> RequestType] /\ issued \in Nat
  BY DEF IInv, TypeOK
<1>2. request'[r] = q /\ \A s \in Requests \ {r} : request'[s] = request[s]
  BY <1>1
<1>3. RequestNamed(r)'
  BY <1>1, <1>2 DEF RequestNamed
<1>4. \A s \in Requests \ {r} : RequestNamed(s)'
  BY <1>2, SameNamed
<1> QED
  BY <1>2, <1>3, <1>4, SameDevices, GatewaySide

LEMMA IdleNamed == Idle.cred = 0 /\ Idle.by = None /\ Idle.pc = "idle"
BY DEF Idle

LEMMA ForgetSide == ASSUME IInv, IInv', AgentsRight, NEW r \in Requests, Forget(r) PROVE AgentsRight'
BY IdleNamed, SlotSide DEF Forget, history

LEMMA RecoverSide ==
  ASSUME IInv, IInv', AgentsRight, NEW r \in Requests, NEW i \in Identities, NEW k \in Tokens, Recover(r, i, k)
  PROVE  AgentsRight'
<1> DEFINE q == Ask("recover", i, k)
<1>1. /\ q.cred = 0 /\ q.by = None /\ q.pc = "validate" /\ q.k = k
      /\ request' = [request EXCEPT ![r] = q]
  BY DEF Ask, Idle, Recover
<1> HIDE DEF q
<1> QED
  BY <1>1, SlotSide DEF Recover, history

LEMMA GatewayRestartSide == ASSUME IInv, IInv', AgentsRight, GatewayRestart PROVE AgentsRight'
<1>1. \A s \in Requests : /\ RequestNamed(s)'
                          /\ \/ request'[s].by = None
                             \/ request'[s].by = request[s].by /\ request'[s].m = request[s].m
  <2> SUFFICES ASSUME NEW s \in Requests
               PROVE  /\ RequestNamed(s)'
                      /\ \/ request'[s].by = None
                         \/ request'[s].by = request[s].by /\ request'[s].m = request[s].m
    OBVIOUS
  <2>1. request[s] \in RequestType /\ issued' = issued /\ issued \in Nat
    BY DEF IInv, TypeOK, GatewayRestart
  <2>2. CASE request[s].by = None
    <3>1. request'[s] = Idle
      BY <2>2 DEF GatewayRestart
    <3> QED
      BY <2>1, <3>1, IdleNamed DEF RequestNamed
  <2>3. CASE request[s].by # None
    <3>1. request'[s] = [request[s] EXCEPT !.pc = "refused"]
      BY <2>3 DEF GatewayRestart
    <3>2. /\ request'[s].pc = "refused" /\ request'[s].cred = request[s].cred
          /\ request'[s].by = request[s].by /\ request'[s].m = request[s].m
      BY <2>1, <3>1 DEF RequestType
    <3> QED
      BY <2>1, <3>2 DEF AgentsRight, RequestNamed
  <2> QED
    BY <2>2, <2>3
<1> QED
  BY <1>1, SameDevices, GatewaySide DEF GatewayRestart, history

-----------------------------------------------------------------------------
(* Steps of the agents *)

LEMMA BecomesAt ==
  ASSUME IInv, NEW m \in Machines, NEW a \in Who, NEW p, Becomes(m, a, p)
  PROVE  /\ agent'[m][a] = p
         /\ \A n \in Machines, b \in Who : n # m \/ b # a => agent'[n][b] = agent[n][b]
<1>1. agent \in [Machines -> [Who -> Process]]
  BY DEF IInv, TypeOK
<1>2. agent' = [agent EXCEPT ![m] = [agent[m] EXCEPT ![a] = p]]
  BY DEF Becomes
<1> QED
  BY <1>1, <1>2

(* A process that nobody waits on, or whose wait is over, goes on as p. *)
LEMMA AgentSide ==
  ASSUME IInv, IInv', AgentsRight, UNCHANGED <<device, issued, lapsed>>,
         NEW m \in Machines, NEW a \in Who, NEW p, Becomes(m, a, p),
         p.cred <= issued, p.pc = "save" => p.cred # 0, p.pc \in {"asking", "refused"} => p.k \in Tokens,
         a = "service" => m \in Serviced \/ p.pc = "off",
         a = "service" /\ p.pc = "rejected" => ~Accepts(p.cred),
         \A n \in Machines : disk'[n].token <= issued,
         \A s \in Requests : RequestNamed(s)' /\ Waits(s)'
  PROVE  AgentsRight'
<1>1. /\ agent'[m][a] = p
      /\ \A n \in Machines, b \in Who : n # m \/ b # a => agent'[n][b] = agent[n][b]
  BY BecomesAt
<1>2. "service" \in Who
  BY DEF Who
<1>3. KnownLapses' /\ NoRevival /\ \A c : Accepts(c)' = Accepts(c)
  BY SameDevices
<1>4. ServiceThere'
  BY <1>1, <1>2 DEF AgentsRight, ServiceThere
<1>5. \A n \in Machines : RejectedRight(n)'
  <2> SUFFICES ASSUME NEW n \in Machines PROVE RejectedRight(n)'
    OBVIOUS
  <2>1. CASE n = m /\ a = "service"
    <3>1. p.pc = "rejected" => ~Accepts(p.cred)'
      BY <1>3, <2>1
    <3>2. Accepts(agent[m]["service"].cred)' = Accepts(p.cred)'
      BY <1>1, <2>1 DEF Accepts
    <3> QED
      BY <1>1, <2>1, <3>1, <3>2 DEF RejectedRight
  <2>2. CASE n # m \/ a # "service"
    BY <1>1, <1>2, <1>3, <2>2, StillRejected
  <2> QED
    BY <2>1, <2>2
<1>6. \A n \in Machines, b \in Who : ProcessNamed(n, b)'
  <2> SUFFICES ASSUME NEW n \in Machines, NEW b \in Who PROVE ProcessNamed(n, b)'
    OBVIOUS
  <2>1. CASE n = m /\ b = a
    BY <1>1, <2>1 DEF ProcessNamed
  <2>2. CASE n # m \/ b # a
    BY <1>1, <2>2 DEF AgentsRight, ProcessNamed
  <2> QED
    BY <2>1, <2>2
<1> QED
  BY <1>3, <1>4, <1>5, <1>6 DEF AgentsRight

(* Nobody waits on a process that does not ask. *)
LEMMA NoneWaits ==
  ASSUME IInv, AgentsRight, NEW m \in Machines, NEW a \in Who, agent[m][a].pc # "asking",
         NEW p, Becomes(m, a, p), UNCHANGED <<request, issued>>
  PROVE  \A s \in Requests : RequestNamed(s)' /\ Waits(s)'
<1>1. \A n \in Machines, b \in Who : n # m \/ b # a => agent'[n][b] = agent[n][b]
  BY BecomesAt
<1>2. \A s \in Requests : request[s].by # None =>
        agent'[request[s].m][request[s].by] = agent[request[s].m][request[s].by]
  <2> SUFFICES ASSUME NEW s \in Requests, request[s].by # None
               PROVE  agent'[request[s].m][request[s].by] = agent[request[s].m][request[s].by]
    OBVIOUS
  <2>1. request[s].m \in Machines /\ request[s].by \in Who /\ agent[request[s].m][request[s].by].pc = "asking"
    BY DEF AgentsRight, Waits, IInv, TypeOK, RequestType
  <2> QED
    BY <1>1, <2>1
<1>3. \A s \in Requests : Waits(s)'
  BY <1>2, WaitsKept DEF AgentsRight
<1> QED
  BY <1>3, SameNamed

(* A process that did not ask asks, and waits. *)
LEMMA AsksSide ==
  ASSUME IInv, IInv', AgentsRight, UNCHANGED <<device, issued, lapsed>>,
         NEW m \in Machines, NEW a \in Who, agent[m][a].pc # "asking", a = "service" => m \in Serviced,
         NEW p \in Process, p.cred <= issued, p.k \in Tokens, NEW t \in Nat, t <= issued, Asks(m, a, p, t)
  PROVE  AgentsRight'
<1>1. PICK r \in Requests, i \in Identity(m) :
        /\ request' = [request EXCEPT ![r] = [Ask("register", i, p.k) EXCEPT !.m = m, !.by = a]]
        /\ Becomes(m, a, [p EXCEPT !.pc = "asking"])
        /\ disk' = [disk EXCEPT ![m].inst = i, ![m].token = t]
  BY DEF Asks
<1> DEFINE q == [Ask("register", i, p.k) EXCEPT !.m = m, !.by = a]
           z == [p EXCEPT !.pc = "asking"]
<1>2. q.pc = "validate" /\ q.k = p.k /\ q.m = m /\ q.by = a /\ q.cred = 0
  BY DEF Ask, Idle
<1>3. z.pc = "asking" /\ z.cred = p.cred /\ z.k = p.k
  BY DEF Process
<1>4. request' = [request EXCEPT ![r] = q] /\ Becomes(m, a, z)
  BY <1>1
<1> HIDE DEF q, z
<1>5. request \in [Requests -> RequestType] /\ issued \in Nat
  BY DEF IInv, TypeOK
<1>6. request'[r] = q /\ \A s \in Requests \ {r} : request'[s] = request[s]
  BY <1>4, <1>5
<1>7. \A s \in Requests : RequestNamed(s)'
  <2>1. RequestNamed(r)'
    BY <1>2, <1>5, <1>6 DEF RequestNamed
  <2>2. \A s \in Requests \ {r} : RequestNamed(s)'
    BY <1>6, SameNamed
  <2> QED
    BY <2>1, <2>2
<1>8. /\ agent'[m][a] = z
      /\ \A n \in Machines, b \in Who : n # m \/ b # a => agent'[n][b] = agent[n][b]
  BY <1>4, BecomesAt
<1>9. \A s \in Requests : request[s].by # None =>
        /\ request[s].m \in Machines /\ agent[request[s].m][request[s].by].pc = "asking"
        /\ request[s].by \in Who
  BY <1>5 DEF AgentsRight, Waits, RequestType
<1>10. \A s \in Requests \ {r} : ~(request[s].by = a /\ request[s].m = m)
  <2> SUFFICES ASSUME NEW s \in Requests, request[s].by = a, request[s].m = m PROVE FALSE
    OBVIOUS
  <2>1. a = None
    BY <1>9
  <2> QED
    BY <2>1, NoneAssumption
<1>11. \A s \in Requests : Waits(s)'
  <2>1. Waits(r)'
    BY <1>2, <1>3, <1>6, <1>8, <1>10 DEF Waits
  <2>2. ASSUME NEW s \in Requests \ {r}, request[s].by # None PROVE Waits(s)'
    <3>1. request'[s] = request[s] /\ agent'[request[s].m][request[s].by] = agent[request[s].m][request[s].by]
      BY <1>6, <1>8, <1>9, <1>10, <2>2
    <3>2. \A x \in Requests : request[x].by = request[s].by /\ request[x].m = request[s].m => x = s
      BY <2>2 DEF AgentsRight, Waits
    <3>3. \A x \in Requests : request'[x].by = request[s].by /\ request'[x].m = request[s].m => x = s
      BY <1>2, <1>6, <1>10, <3>2
    <3> QED
      BY <1>9, <2>2, <3>1, <3>3 DEF Waits
  <2>3. ASSUME NEW s \in Requests \ {r}, request[s].by = None PROVE Waits(s)'
    BY <1>6, <2>3 DEF Waits
  <2> QED
    BY <2>1, <2>2, <2>3
<1>12. \A n \in Machines : disk'[n].token <= issued
  BY <1>1 DEF AgentsRight, IInv, TypeOK, Disk
<1> QED
  BY <1>3, <1>4, <1>7, <1>11, <1>12, AgentSide

LEMMA StartSide ==
  ASSUME IInv, IInv', AgentsRight, NEW m \in Machines, NEW a \in Who, NEW k \in Tokens \cup {None}, Start(m, a, k)
  PROVE  AgentsRight'
<1>1. /\ agent[m][a].pc = "off" /\ (a = "service" => m \in Serviced)
      /\ UNCHANGED <<device, issued, lapsed>>
  BY DEF Start, Is, history
<1>2. disk[m].token \in Nat /\ disk[m].token <= issued /\ issued \in Nat
  BY DEF IInv, TypeOK, Disk, AgentsRight
<1>3. CASE k # None
  <2> DEFINE p == [Off EXCEPT !.k = k]
  <2>1. p \in Process /\ p.cred = 0 /\ p.k = k
    BY Constants, NextProcess DEF Off
  <2>2. Asks(m, a, p, disk[m].token)
    BY <1>3 DEF Start
  <2> HIDE DEF p
  <2>3. PICK t \in Nat : t <= issued /\ Asks(m, a, p, t)
    BY <1>2, <2>2
  <2> QED
    BY <1>1, <1>2, <1>3, <2>1, <2>3, AsksSide
<1>4. CASE k = None
  <2> DEFINE p == [Off EXCEPT !.pc = "run", !.cred = disk[m].token]
  <2>1. p.pc = "run" /\ p.cred = disk[m].token
    BY DEF Off
  <2>2. Becomes(m, a, p) /\ request' = request /\ disk' = disk
    BY <1>4 DEF Start
  <2> HIDE DEF p
  <2>3. \A s \in Requests : RequestNamed(s)' /\ Waits(s)'
    BY <1>1, <2>2, NoneWaits
  <2>4. \A n \in Machines : disk'[n].token <= issued
    BY <2>2 DEF AgentsRight
  <2> QED
    BY <1>1, <1>2, <2>1, <2>2, <2>3, <2>4, AgentSide
<1> QED
  BY <1>3, <1>4

(* The wait of a process is over. *)
LEMMA WaitOver ==
  ASSUME IInv, IInv', AgentsRight, NEW r \in Requests, request[r].by # None,
         NEW p, Becomes(request[r].m, request[r].by, p), p.cred <= issued, p.pc # "asking",
         p.pc = "save" => p.cred # 0, p.pc = "refused" => p.k \in Tokens, p.pc # "rejected",
         NEW q, q.by = None, RequestNamed(r)', request' = [request EXCEPT ![r] = q],
         UNCHANGED <<device, issued, disk, lapsed>>
  PROVE  AgentsRight'
<1>0. PICK m, a : m = request[r].m /\ a = request[r].by
  OBVIOUS
<1>1. request \in [Requests -> RequestType]
  BY DEF IInv, TypeOK
<1>2. m \in Machines /\ a \in Who /\ agent[m][a].pc = "asking"
  BY <1>0, <1>1 DEF AgentsRight, Waits, RequestType
<1>3. Becomes(m, a, p)
  BY <1>0
<1>4. request'[r] = q /\ \A s \in Requests \ {r} : request'[s] = request[s]
  BY <1>1
<1>5. /\ agent'[m][a] = p
      /\ \A n \in Machines, b \in Who : n # m \/ b # a => agent'[n][b] = agent[n][b]
  BY <1>2, <1>3, BecomesAt
<1>6. \A s \in Requests \ {r} : request[s].by # None =>
        agent'[request[s].m][request[s].by] = agent[request[s].m][request[s].by]
  <2> SUFFICES ASSUME NEW s \in Requests \ {r}, request[s].by # None
               PROVE  agent'[request[s].m][request[s].by] = agent[request[s].m][request[s].by]
    OBVIOUS
  <2>1. request[s].m \in Machines /\ request[s].by \in Who
    BY <1>1 DEF AgentsRight, Waits, RequestType
  <2>2. ~(request[s].m = m /\ request[s].by = a)
    BY <1>0 DEF AgentsRight, Waits
  <2> QED
    BY <1>5, <2>1, <2>2
<1>7. \A s \in Requests : Waits(s)'
  BY <1>4, <1>6, WaitsKept DEF AgentsRight
<1>8. \A s \in Requests \ {r} : RequestNamed(s)'
  BY <1>4, SameNamed
<1>9. a = "service" => m \in Serviced
  BY <1>2 DEF AgentsRight, ServiceThere
<1>10. \A n \in Machines : disk'[n].token <= issued
  BY DEF AgentsRight
<1> QED
  BY <1>2, <1>3, <1>7, <1>8, <1>9, <1>10, AgentSide

(* A process that waits holds the token it named. *)
LEMMA RefusedRight ==
  ASSUME IInv, AgentsRight, NEW r \in Requests, request[r].by # None
  PROVE  LET z == Refused(agent[request[r].m][request[r].by]) IN
         z.cred <= issued /\ z.pc \in {"off", "refused"} /\ (z.pc = "refused" => z.k \in Tokens)
<1>0. PICK m, a : m = request[r].m /\ a = request[r].by
  OBVIOUS
<1>1. m \in Machines /\ a \in Who /\ agent[m][a].pc = "asking" /\ issued \in Nat
  BY <1>0 DEF AgentsRight, Waits, IInv, TypeOK, RequestType
<1>2. agent[m][a] \in Process /\ agent[m][a].k \in Tokens /\ agent[m][a].cred <= issued
  BY <1>1, ProcessTyped DEF AgentsRight, ProcessNamed
<1>3. PICK p \in Process : p = agent[m][a]
  BY <1>2
<1>4. CASE p.cred = 0
  <2>1. Refused(p) = Off /\ Off.cred = 0 /\ Off.pc = "off"
    BY <1>4 DEF Refused, Off
  <2> QED
    BY <1>0, <1>1, <1>3, <2>1
<1>5. CASE p.cred # 0
  <2> DEFINE z == [p EXCEPT !.pc = "refused"]
  <2>1. z.cred = p.cred /\ z.pc = "refused" /\ z.k = p.k
    BY DEF Process
  <2>2. Refused(p) = z
    BY <1>5 DEF Refused
  <2> HIDE DEF z
  <2> QED
    BY <1>0, <1>2, <1>3, <2>1, <2>2
<1> QED
  BY <1>4, <1>5

LEMMA AnsweredSide == ASSUME IInv, IInv', AgentsRight, NEW r \in Requests, Answered(r) PROVE AgentsRight'
<1>0. PICK p : p = agent[request[r].m][request[r].by]
  OBVIOUS
<1>1. /\ request[r].by # None /\ request[r].pc \in {"done", "refused"}
      /\ request' = [request EXCEPT ![r] = Idle]
      /\ UNCHANGED <<device, issued, disk, lapsed>>
  BY DEF Answered, history
<1>2. request \in [Requests -> RequestType] /\ issued \in Nat
  BY DEF IInv, TypeOK
<1>3. RequestNamed(r)'
  <2>1. request'[r] = Idle
    BY <1>1, <1>2
  <2> QED
    BY <1>1, <1>2, <2>1, IdleNamed DEF RequestNamed
<1>4. CASE request[r].pc = "done"
  <2> DEFINE z == [p EXCEPT !.pc = "save", !.cred = request[r].cred]
  <2>1. p \in Process
    BY <1>0, <1>1, <1>2, ProcessTyped DEF AgentsRight, Waits, RequestType
  <2>2. z.pc = "save" /\ z.cred = request[r].cred
    BY <2>1 DEF Process
  <2>3. Becomes(request[r].m, request[r].by, z)
    BY <1>0, <1>4 DEF Answered, IsAt
  <2>4. request[r].cred <= issued /\ request[r].cred # 0
    BY <1>4 DEF AgentsRight, RequestNamed
  <2> HIDE DEF z
  <2> QED
    BY <1>1, <1>3, <2>2, <2>3, <2>4, IdleNamed, WaitOver
<1>5. CASE request[r].pc # "done"
  <2>1. PICK z : z = Refused(p)
    OBVIOUS
  <2>2. Becomes(request[r].m, request[r].by, z)
    BY <1>0, <1>5, <2>1 DEF Answered, IsAt
  <2>3. z.cred <= issued /\ z.pc \in {"off", "refused"} /\ (z.pc = "refused" => z.k \in Tokens)
    BY <1>0, <1>1, <2>1, RefusedRight
  <2> QED
    BY <1>1, <1>3, <2>2, <2>3, IdleNamed, WaitOver
<1> QED
  BY <1>4, <1>5

LEMMA TimeOutSide == ASSUME IInv, IInv', AgentsRight, NEW r \in Requests, TimeOut(r) PROVE AgentsRight'
<1> DEFINE q == [request[r] EXCEPT !.by = None]
<1>1. /\ request[r].by # None /\ request' = [request EXCEPT ![r] = q]
      /\ UNCHANGED <<device, issued, disk, lapsed>>
  BY DEF TimeOut, history
<1>2. request \in [Requests -> RequestType] /\ request[r] \in RequestType
  BY DEF IInv, TypeOK
<1>3. q.by = None /\ q.pc = request[r].pc /\ q.cred = request[r].cred /\ q.k = request[r].k
  BY <1>2 DEF RequestType
<1> HIDE DEF q
<1>4. RequestNamed(r)'
  BY <1>1, <1>2, <1>3 DEF AgentsRight, RequestNamed
<1>5. PICK z : z = Refused(agent[request[r].m][request[r].by])
  OBVIOUS
<1>6. Becomes(request[r].m, request[r].by, z)
  BY <1>5 DEF TimeOut
<1>7. z.cred <= issued /\ z.pc \in {"off", "refused"} /\ (z.pc = "refused" => z.k \in Tokens)
  BY <1>1, <1>5, RefusedRight
<1> QED
  BY <1>1, <1>3, <1>4, <1>6, <1>7, WaitOver

LEMMA SaveTokenSide ==
  ASSUME IInv, IInv', AgentsRight, NEW m \in Machines, NEW a \in Who, SaveToken(m, a)
  PROVE  AgentsRight'
<1> DEFINE z == [agent[m][a] EXCEPT !.pc = "save id"]
<1>1. /\ agent[m][a].pc = "save" /\ Becomes(m, a, z) /\ disk' = [disk EXCEPT ![m].token = agent[m][a].cred]
      /\ UNCHANGED <<device, issued, lapsed, request>>
  BY DEF SaveToken, Is, gateway, history
<1>2. agent[m][a] \in Process /\ agent[m][a].cred <= issued
  BY ProcessTyped DEF AgentsRight, ProcessNamed
<1>3. z.pc = "save id" /\ z.cred = agent[m][a].cred
  BY <1>2 DEF Process
<1> HIDE DEF z
<1>4. \A s \in Requests : RequestNamed(s)' /\ Waits(s)'
  BY <1>1, NoneWaits
<1>5. \A n \in Machines : disk'[n].token <= issued
  BY <1>1, <1>2 DEF AgentsRight, IInv, TypeOK, Disk
<1>6. a = "service" => m \in Serviced
  BY <1>1 DEF AgentsRight, ServiceThere
<1> QED
  BY <1>1, <1>2, <1>3, <1>4, <1>5, <1>6, AgentSide

LEMMA SaveIdSide ==
  ASSUME IInv, IInv', AgentsRight, NEW m \in Machines, NEW a \in Who, SaveId(m, a)
  PROVE  AgentsRight'
<1>1. /\ agent[m][a].pc = "save id" /\ disk' = [disk EXCEPT ![m].id = TRUE]
      /\ UNCHANGED <<device, issued, lapsed, request>>
  BY DEF SaveId, Is, gateway, history
<1>2. agent[m][a] \in Process /\ agent[m][a].cred <= issued /\ issued \in Nat
  BY ProcessTyped DEF AgentsRight, ProcessNamed, IInv, TypeOK
<1>3. PICK z : Becomes(m, a, z) /\ z.cred <= issued /\ z.pc \in {"off", "run"}
  <2> DEFINE on == [agent[m][a] EXCEPT !.pc = "run", !.fails = 0]
  <2>1. Off.cred = 0 /\ Off.pc = "off" /\ on.cred = agent[m][a].cred /\ on.pc = "run"
    BY <1>2 DEF Off, Process
  <2>2. Becomes(m, a, IF a = "installer" THEN Off ELSE on)
    BY DEF SaveId
  <2> HIDE DEF on
  <2>3. CASE a = "installer"
    <3>1. Becomes(m, a, Off)
      BY <2>2, <2>3
    <3> QED
      BY <1>2, <2>1, <3>1
  <2>4. CASE a # "installer"
    <3>1. Becomes(m, a, on)
      BY <2>2, <2>4
    <3> QED
      BY <1>2, <2>1, <3>1
  <2> QED
    BY <2>3, <2>4
<1>4. \A s \in Requests : RequestNamed(s)' /\ Waits(s)'
  BY <1>1, <1>3, NoneWaits
<1>5. \A n \in Machines : disk'[n].token <= issued
  BY <1>1 DEF AgentsRight, IInv, TypeOK, Disk
<1>6. a = "service" => m \in Serviced
  BY <1>1 DEF AgentsRight, ServiceThere
<1> QED
  BY <1>1, <1>3, <1>4, <1>5, <1>6, AgentSide

LEMMA MetricsSide == ASSUME IInv, IInv', AgentsRight, NEW m \in Machines, Metrics(m) PROVE AgentsRight'
<1>1. /\ "service" \in Who /\ agent[m].service = agent[m]["service"]
      /\ agent[m]["service"].pc = "run"
      /\ UNCHANGED <<device, issued, lapsed, request, disk>>
  BY DEF Who, Metrics, Is, gateway, history
<1>2. PICK p \in Process : p = agent[m]["service"]
  BY <1>1, ProcessTyped
<1>3. p.cred <= issued
  BY <1>1, <1>2 DEF AgentsRight, ProcessNamed
<1>4. PICK z : /\ Becomes(m, "service", z) /\ z.cred = p.cred /\ z.pc \in {"run", "rejected"}
               /\ z.pc = "rejected" => ~Accepts(p.cred)
  <2> DEFINE well == [p EXCEPT !.fails = 0]
             ill == [p EXCEPT !.pc = "rejected", !.fails = @ + 1]
             worse == [p EXCEPT !.fails = MaxFails + 1]
  <2>1. /\ well.cred = p.cred /\ well.pc = "run"
        /\ ill.cred = p.cred /\ ill.pc = "rejected"
        /\ worse.cred = p.cred /\ worse.pc = "run"
    BY <1>1, <1>2 DEF Process
  <2>2. Becomes(m, "service", IF Accepts(p.cred) THEN well ELSE IF p.fails < MaxFails THEN ill ELSE worse)
    BY <1>1, <1>2 DEF Metrics
  <2> HIDE DEF well, ill, worse
  <2>3. CASE Accepts(p.cred)
    <3>1. Becomes(m, "service", well)
      BY <2>2, <2>3
    <3> QED
      BY <2>1, <3>1
  <2>4. CASE ~Accepts(p.cred) /\ p.fails < MaxFails
    <3>1. Becomes(m, "service", ill)
      BY <2>2, <2>4
    <3> QED
      BY <2>1, <2>4, <3>1
  <2>5. CASE ~Accepts(p.cred) /\ ~(p.fails < MaxFails)
    <3>1. Becomes(m, "service", worse)
      BY <2>2, <2>5
    <3> QED
      BY <2>1, <3>1
  <2> QED
    BY <2>3, <2>4, <2>5
<1>5. \A s \in Requests : RequestNamed(s)' /\ Waits(s)'
  BY <1>1, <1>4, NoneWaits
<1>6. \A n \in Machines : disk'[n].token <= issued
  BY <1>1 DEF AgentsRight
<1>7. m \in Serviced
  BY <1>1 DEF AgentsRight, ServiceThere
<1>8. z.cred <= issued /\ (z.pc = "rejected" => ~Accepts(z.cred))
  BY <1>3, <1>4
<1> QED
  BY <1>1, <1>4, <1>5, <1>6, <1>7, <1>8, AgentSide

LEMMA ReportSide == ASSUME IInv, IInv', AgentsRight, NEW m \in Machines, Report(m) PROVE AgentsRight'
<1>1. /\ "service" \in Who /\ agent[m].service = agent[m]["service"]
      /\ agent[m]["service"].pc = "run"
      /\ UNCHANGED <<device, issued, lapsed, request, disk>>
  BY DEF Who, Report, Is, gateway, history
<1>2. PICK p \in Process : p = agent[m]["service"]
  BY <1>1, ProcessTyped
<1>3. p.cred <= issued /\ ~Accepts(p.cred)
  BY <1>1, <1>2 DEF AgentsRight, ProcessNamed, Report
<1>4. PICK n : Becomes(m, "service", [p EXCEPT !.pc = "rejected", !.fails = n])
  BY <1>1, <1>2 DEF Report
<1> DEFINE z == [p EXCEPT !.pc = "rejected", !.fails = n]
<1>5. Becomes(m, "service", z) /\ z.cred = p.cred /\ z.pc = "rejected"
  BY <1>2, <1>4 DEF Process
<1> HIDE DEF z
<1>6. \A s \in Requests : RequestNamed(s)' /\ Waits(s)'
  BY <1>1, <1>5, NoneWaits
<1>7. \A k \in Machines : disk'[k].token <= issued
  BY <1>1 DEF AgentsRight
<1>8. m \in Serviced
  BY <1>1 DEF AgentsRight, ServiceThere
<1>9. z.cred <= issued /\ (z.pc = "rejected" => ~Accepts(z.cred))
  BY <1>3, <1>5
<1> QED
  BY <1>1, <1>5, <1>6, <1>7, <1>8, <1>9, AgentSide

LEMMA InvalidateSide == ASSUME IInv, IInv', AgentsRight, NEW m \in Machines, Invalidate(m) PROVE AgentsRight'
<1>1. /\ "service" \in Who /\ agent[m].service = agent[m]["service"]
      /\ agent[m]["service"].pc = "rejected"
      /\ UNCHANGED <<device, issued, lapsed>>
  BY DEF Who, Invalidate, Is, history
<1>2. PICK p \in Process : p = agent[m]["service"]
  BY <1>1, ProcessTyped
<1>3. p.cred <= issued /\ issued \in Nat
  BY <1>1, <1>2 DEF AgentsRight, ProcessNamed, IInv, TypeOK
<1>4. m \in Serviced
  BY <1>1 DEF AgentsRight, ServiceThere
<1>5. CASE p.k # None
  <2>1. Asks(m, "service", p, 0) /\ p.k \in Tokens
    BY <1>1, <1>2, <1>5 DEF Invalidate, Process
  <2>2. PICK t \in Nat : t <= issued /\ Asks(m, "service", p, t)
    BY <1>3, <2>1
  <2> QED
    BY <1>1, <1>2, <1>3, <1>4, <2>1, <2>2, AsksSide
<1>6. CASE p.k = None
  <2> DEFINE z == [p EXCEPT !.pc = "run"]
  <2>1. Becomes(m, "service", z) /\ request' = request /\ disk' = [disk EXCEPT ![m].token = 0]
    BY <1>1, <1>2, <1>6 DEF Invalidate
  <2>2. z.pc = "run" /\ z.cred = p.cred
    BY DEF Process
  <2> HIDE DEF z
  <2>3. \A s \in Requests : RequestNamed(s)' /\ Waits(s)'
    BY <1>1, <2>1, NoneWaits
  <2>4. \A n \in Machines : disk'[n].token <= issued
    BY <1>3, <2>1 DEF AgentsRight, IInv, TypeOK, Disk
  <2> QED
    BY <1>1, <1>3, <1>4, <2>1, <2>2, <2>3, <2>4, AgentSide
<1> QED
  BY <1>5, <1>6

LEMMA RetrySide == ASSUME IInv, IInv', AgentsRight, NEW m \in Machines, Retry(m) PROVE AgentsRight'
<1>1. /\ "service" \in Who /\ agent[m].service = agent[m]["service"]
      /\ agent[m]["service"].pc = "refused"
      /\ UNCHANGED <<device, issued, lapsed>>
  BY DEF Who, Retry, Is, history
<1>2. PICK p \in Process : p = agent[m]["service"]
  BY <1>1, ProcessTyped
<1>3. p.cred <= issued /\ p.k \in Tokens /\ issued \in Nat
  BY <1>1, <1>2 DEF AgentsRight, ProcessNamed, IInv, TypeOK
<1>4. m \in Serviced
  BY <1>1 DEF AgentsRight, ServiceThere
<1>5. CASE Asks(m, "service", p, disk[m].token)
  <2>1. PICK t \in Nat : t <= issued /\ Asks(m, "service", p, t)
    BY <1>5 DEF IInv, TypeOK, Disk, AgentsRight
  <2> QED
    BY <1>1, <1>2, <1>3, <1>4, <2>1, AsksSide
<1>6. CASE Becomes(m, "service", [p EXCEPT !.pc = "run"]) /\ UNCHANGED <<request, disk>>
  <2> DEFINE z == [p EXCEPT !.pc = "run"]
  <2>1. Becomes(m, "service", z) /\ z.pc = "run" /\ z.cred = p.cred
    BY <1>6 DEF Process
  <2> HIDE DEF z
  <2>2. \A s \in Requests : RequestNamed(s)' /\ Waits(s)'
    BY <1>1, <1>6, <2>1, NoneWaits
  <2>3. \A n \in Machines : disk'[n].token <= issued
    BY <1>6 DEF AgentsRight
  <2> QED
    BY <1>1, <1>3, <1>4, <2>1, <2>2, <2>3, AgentSide
<1> QED
  BY <1>1, <1>2, <1>5, <1>6 DEF Retry

(* Processes stop; their requests go on without them. *)
LEMMA AbandonedSide ==
  ASSUME IInv, AgentsRight, NEW m \in Machines, NEW A, Abandoned(m, A), issued' = issued,
         \A n \in Machines, b \in Who : n # m \/ b \notin A => agent'[n][b] = agent[n][b]
  PROVE  \A s \in Requests : RequestNamed(s)' /\ Waits(s)'
<1>1. \A s \in Requests :
        /\ RequestNamed(s)'
        /\ request'[s].by = None \/ (request'[s] = request[s] /\ ~(request[s].m = m /\ request[s].by \in A))
  <2> SUFFICES ASSUME NEW s \in Requests
               PROVE  /\ RequestNamed(s)'
                      /\ \/ request'[s].by = None
                         \/ request'[s] = request[s] /\ ~(request[s].m = m /\ request[s].by \in A)
    OBVIOUS
  <2>1. request[s] \in RequestType
    BY DEF IInv, TypeOK
  <2>2. CASE request[s].m = m /\ request[s].by \in A
    <3>1. request'[s] = [request[s] EXCEPT !.by = None]
      BY <2>2 DEF Abandoned
    <3>2. /\ request'[s].by = None /\ request'[s].pc = request[s].pc
          /\ request'[s].cred = request[s].cred /\ request'[s].k = request[s].k
      BY <2>1, <3>1 DEF RequestType
    <3> QED
      BY <3>2 DEF AgentsRight, RequestNamed
  <2>3. CASE ~(request[s].m = m /\ request[s].by \in A)
    <3>1. request'[s] = request[s]
      BY <2>3 DEF Abandoned
    <3> QED
      BY <2>3, <3>1, SameNamed
  <2> QED
    BY <2>2, <2>3
<1>2. \A s \in Requests : request'[s].by # None =>
        agent'[request[s].m][request[s].by] = agent[request[s].m][request[s].by]
  <2> SUFFICES ASSUME NEW s \in Requests, request'[s].by # None
               PROVE  agent'[request[s].m][request[s].by] = agent[request[s].m][request[s].by]
    OBVIOUS
  <2>1. request[s].m \in Machines /\ request[s].by \in Who /\ ~(request[s].m = m /\ request[s].by \in A)
    BY <1>1 DEF AgentsRight, Waits, IInv, TypeOK, RequestType
  <2> QED
    BY <2>1
<1>3. \A s \in Requests : Waits(s)'
  BY <1>1, <1>2, WaitsKept DEF AgentsRight
<1> QED
  BY <1>1, <1>3

LEMMA CrashSide == ASSUME IInv, IInv', AgentsRight, NEW m \in Machines, NEW a \in Who, Crash(m, a) PROVE AgentsRight'
<1>1. Becomes(m, a, Off) /\ Abandoned(m, {a}) /\ UNCHANGED <<device, issued, disk, lapsed>>
  BY DEF Crash, history
<1>2. \A n \in Machines, b \in Who : n # m \/ b # a => agent'[n][b] = agent[n][b]
  BY <1>1, BecomesAt
<1>3. \A s \in Requests : RequestNamed(s)' /\ Waits(s)'
  BY <1>1, <1>2, AbandonedSide
<1>4. Off.cred <= issued /\ Off.pc = "off"
  BY DEF Off, IInv, TypeOK
<1>5. \A n \in Machines : disk'[n].token <= issued
  BY <1>1 DEF AgentsRight
<1> QED
  BY <1>1, <1>3, <1>4, <1>5, AgentSide

LEMMA ResetSide == ASSUME IInv, IInv', AgentsRight, NEW m \in Machines, Reset(m) PROVE AgentsRight'
<1>1. PICK stopped : stopped = IF m \in Serviced THEN Who ELSE {}
  OBVIOUS
<1>2. /\ Abandoned(m, stopped)
      /\ agent' = [agent EXCEPT ![m] = [a \in Who |-> IF a \in stopped THEN Off ELSE agent[m][a]]]
      /\ disk' = [disk EXCEPT ![m] = [token |-> 0, inst |-> None, id |-> FALSE]]
      /\ UNCHANGED <<device, issued, lapsed>>
  BY <1>1 DEF Reset, history
<1>3. /\ agent \in [Machines -> [Who -> Process]] /\ disk \in [Machines -> Disk] /\ issued \in Nat
      /\ "service" \in Who /\ Off.cred = 0 /\ Off.pc = "off"
  BY DEF IInv, TypeOK, Who, Off
<1>4. \A n \in Machines, b \in Who :
        agent'[n][b] = IF n = m /\ b \in stopped THEN Off ELSE agent[n][b]
  BY <1>2, <1>3
<1>5. \A s \in Requests : RequestNamed(s)' /\ Waits(s)'
  BY <1>2, <1>4, AbandonedSide
<1>6. \A n \in Machines, b \in Who : ProcessNamed(n, b)'
  BY <1>2, <1>3, <1>4 DEF AgentsRight, ProcessNamed
<1>7. KnownLapses' /\ NoRevival
  BY <1>2, SameDevices
<1>8. \A n \in Machines : RejectedRight(n)'
  <2> SUFFICES ASSUME NEW n \in Machines PROVE RejectedRight(n)'
    OBVIOUS
  <2>1. CASE agent'[n]["service"] = agent[n]["service"]
    BY <1>7, <2>1, StillRejected
  <2>2. CASE agent'[n]["service"] # agent[n]["service"]
    <3>1. agent'[n]["service"].pc = "off"
      BY <1>3, <1>4, <2>2
    <3> QED
      BY <3>1 DEF RejectedRight
  <2> QED
    BY <2>1, <2>2
<1>9. ServiceThere'
  BY <1>3, <1>4 DEF AgentsRight, ServiceThere
<1>10. \A n \in Machines : disk'[n].token <= issued'
  BY <1>2, <1>3 DEF AgentsRight
<1> QED
  BY <1>5, <1>6, <1>7, <1>8, <1>9, <1>10 DEF AgentsRight

LEMMA InitSide == ASSUME Init PROVE AgentsRight
<1>1. /\ Rows = {} /\ issued = 0
      /\ \A r \in Requests : request[r] = Idle
      /\ \A m \in Machines, a \in Who : agent[m][a] = Off
      /\ \A m \in Machines : disk[m].token = 0
  BY DEF Init, Rows, NoRow
<1>2. "service" \in Who /\ Off.pc = "off" /\ Off.cred = 0
  BY DEF Who, Off
<1>3. KnownLapses /\ ServiceThere
  BY <1>1, <1>2 DEF KnownLapses, ServiceThere
<1>4. \A r \in Requests : RequestNamed(r) /\ Waits(r)
  BY <1>1, IdleNamed DEF RequestNamed, Waits
<1>5. \A m \in Machines : RejectedRight(m) /\ \A a \in Who : ProcessNamed(m, a)
  BY <1>1, <1>2 DEF RejectedRight, ProcessNamed
<1> QED
  BY <1>1, <1>3, <1>4, <1>5 DEF AgentsRight

LEMMA StepPlaces == IInv /\ PlacesRight /\ AgentsRight /\ IInv' /\ [Next]_vars => PlacesRight'
<1> SUFFICES ASSUME IInv, PlacesRight, AgentsRight, IInv', [Next]_vars PROVE PlacesRight'
  OBVIOUS
<1>1. ASSUME NEW r \in Requests, Consume(r) PROVE PlacesRight'
  <2>1. request[r].k \in Tokens
    BY <1>1 DEF AgentsRight, RequestNamed, Consume, IsAt
  <2> QED
    BY <1>1, <2>1, ConsumePlaces
<1>2. ASSUME NEW r \in Requests, Gateway(r) \/ Forget(r) \/ Answered(r) \/ TimeOut(r)
      PROVE  PlacesRight'
  BY <1>1, <1>2, ValidatePlaces, CountPlaces, FindPlaces, ReadPlaces, RotatePlaces, ClearPlaces, CreatePlaces,
     ForgetPlaces, AnsweredPlaces, TimeOutPlaces DEF Gateway
<1>3. ASSUME NEW r \in Requests, NEW i \in Identities, NEW k \in Tokens, Recover(r, i, k)
      PROVE  PlacesRight'
  BY <1>3, RecoverPlaces
<1>4. ASSUME NEW k \in Tokens, EndToken(k) PROVE PlacesRight'
  BY <1>4, EndTokenPlaces
<1>5. ASSUME NEW w \in Webhooks, SetPlan(w) \/ ListDevices(w) \/ FindInactive(w) \/ WriteDevices(w) PROVE PlacesRight'
  BY <1>5, SetPlanPlaces, ListDevicesPlaces, FindInactivePlaces, WriteDevicesPlaces
<1>6. ASSUME NEW i \in Identities, Revoke(i) PROVE PlacesRight'
  BY <1>6, RevokePlaces
<1>7. ASSUME NEW m \in Machines, Metrics(m) \/ Report(m) \/ Invalidate(m) \/ Retry(m) \/ Reset(m) PROVE PlacesRight'
  BY <1>7, InvalidatePlaces, RetryPlaces, ResetPlaces, AgentPlaces DEF Metrics, Report
<1>8. ASSUME NEW m \in Machines, NEW a \in Who, SaveToken(m, a) \/ SaveId(m, a) \/ Crash(m, a)
      PROVE  PlacesRight'
  BY <1>8, CrashPlaces, AgentPlaces DEF SaveToken, SaveId
<1>9. ASSUME NEW m \in Machines, NEW a \in Who, NEW k \in Tokens \cup {None}, Start(m, a, k)
      PROVE  PlacesRight'
  BY <1>9, StartPlaces
<1>10. CASE GatewayRestart
  BY <1>10, GatewayRestartPlaces
<1>11. CASE UNCHANGED vars
  BY <1>11, AgentPlaces DEF vars
<1> QED
  BY <1>2, <1>3, <1>4, <1>5, <1>6, <1>7, <1>8, <1>9, <1>10, <1>11 DEF Next

LEMMA StepAgents == IInv /\ PlacesRight /\ AgentsRight /\ IInv' /\ [Next]_vars => AgentsRight'
<1> SUFFICES ASSUME IInv, PlacesRight, AgentsRight, IInv', [Next]_vars PROVE AgentsRight'
  OBVIOUS
<1>1. ASSUME NEW r \in Requests, Gateway(r) \/ Forget(r) \/ Answered(r) \/ TimeOut(r)
      PROVE  AgentsRight'
  BY <1>1, ValidateSide, ConsumeSide, CountSide, FindSide, ReadSide, RotateSide, ClearSide, CreateSide,
     ForgetSide, AnsweredSide, TimeOutSide DEF Gateway
<1>2. ASSUME NEW r \in Requests, NEW i \in Identities, NEW k \in Tokens, Recover(r, i, k)
      PROVE  AgentsRight'
  BY <1>2, RecoverSide
<1>3. ASSUME NEW k \in Tokens, EndToken(k) PROVE AgentsRight'
  BY <1>3, EndTokenSide
<1>4. ASSUME NEW w \in Webhooks, SetPlan(w) \/ ListDevices(w) \/ FindInactive(w) \/ WriteDevices(w) PROVE AgentsRight'
  BY <1>4, SetPlanSide, ListDevicesSide, FindInactiveSide, WriteDevicesSide
<1>5. ASSUME NEW i \in Identities, Revoke(i) PROVE AgentsRight'
  BY <1>5, RevokeSide
<1>6. ASSUME NEW m \in Machines, Metrics(m) \/ Report(m) \/ Invalidate(m) \/ Retry(m) \/ Reset(m) PROVE AgentsRight'
  BY <1>6, MetricsSide, ReportSide, InvalidateSide, RetrySide, ResetSide
<1>7. ASSUME NEW m \in Machines, NEW a \in Who, SaveToken(m, a) \/ SaveId(m, a) \/ Crash(m, a)
      PROVE  AgentsRight'
  BY <1>7, SaveTokenSide, SaveIdSide, CrashSide
<1>8. ASSUME NEW m \in Machines, NEW a \in Who, NEW k \in Tokens \cup {None}, Start(m, a, k)
      PROVE  AgentsRight'
  BY <1>8, StartSide
<1>9. CASE GatewayRestart
  BY <1>9, GatewayRestartSide
<1>10. CASE UNCHANGED vars
  <2>1. \A s \in Requests : RequestNamed(s)'
    BY <1>10, SameNamed DEF vars, gateway
  <2> QED
    BY <1>10, <2>1, SameDevices, GatewaySide DEF vars, gateway, history
<1> QED
  BY <1>1, <1>2, <1>3, <1>4, <1>5, <1>6, <1>7, <1>8, <1>9, <1>10 DEF Next

(* All three together are inductive. *)
THEOREM FullInvariant == Spec => [](IInv /\ PlacesRight /\ AgentsRight)
<1>1. Init => IInv /\ PlacesRight /\ AgentsRight
  BY InitIInv, InitPlaces, InitSide
<1>2. IInv /\ PlacesRight /\ AgentsRight /\ [Next]_vars => (IInv /\ PlacesRight /\ AgentsRight)'
  BY StepIInv, StepPlaces, StepAgents
<1> QED
  BY <1>1, <1>2, PTL DEF Spec

(* enrollment.service.ts:100, devices.service.ts:86, billing.service.ts:333,    *)
(* admin-recovery.service.ts:74: no token is used above its limit, and every    *)
(* credential was paid for with a use; the plan's limit is exceeded only while  *)
(* a plan change is under way, or after a write that relied on an outdated      *)
(* count; and a revoked device takes a place only if a plan change gave it one. *)
THEOREM PlanAndTokensKept == Spec => []LimitsKept
<1>1. IInv /\ PlacesRight => LimitsKept
  <2> SUFFICES ASSUME IInv, PlacesRight PROVE LimitsKept
    OBVIOUS
  <2>1. UsesBounded /\ RevokedTakesNoPlace
    BY DEF IInv, RevokedIsInactive, DoneFor, RevokedTakesNoPlace, Reactivated, Active, Rows
  <2>2. issued <= Cardinality(Paid)
    BY Numbers DEF PlacesRight, PaidFor
  <2>3. Cardinality(Active) > limit => outrun \/ Changing
    <3>1. \A w \in Webhooks : Cures(w) => Changing
      BY DEF Cures, Changing
    <3> QED
      BY <3>1, Numbers DEF PlacesRight, Cured
  <2> QED
    BY <2>1, <2>2, <2>3 DEF LimitsKept
<1> QED
  BY <1>1, FullInvariant, PTL

LEMMA AcceptedNotZero == ASSUME IInv, NEW c, Accepts(c) PROVE c # 0
BY DEF Accepts, Active, Rows

LEMMA AsksKeeps ==
  ASSUME IInv, NEW m \in Machines, NEW n \in Machines, NEW a, NEW p, NEW t, Asks(m, a, p, t)
  PROVE  disk'[n].token = IF n = m THEN t ELSE disk[n].token
BY DEF Asks, IInv, TypeOK, Disk

LEMMA DeletesRight ==
  ASSUME IInv, AgentsRight, [Next]_vars, NEW m \in Machines
  PROVE  Deleting(m)
<1> DEFINE Goal == \/ disk'[m].inst = None /\ (m \in Serviced => agent'[m].service = Off)
                   \/ /\ Is(m, "service", "rejected")
                      /\ agent[m].service.cred # disk[m].token \/ disk[m].token \in lapsed
<1> SUFFICES ASSUME Accepts(disk[m].token), disk'[m].token = 0 PROVE Goal
  BY DEF Deleting
<1>1. /\ disk \in [Machines -> Disk] /\ disk[m].token # 0 /\ "service" \in Who
      /\ agent[m].service = agent[m]["service"]
  BY AcceptedNotZero DEF IInv, TypeOK, Who
<1>2. disk' # disk
  BY <1>1
<1>3. ASSUME NEW n \in Machines, Invalidate(n) PROVE Goal
  <2>1. n = m
    <3>1. disk'[m].token = disk[m].token \/ n = m
      BY <1>1, <1>3, AsksKeeps DEF Invalidate
    <3> QED
      BY <1>1, <3>1
  <2>2. Is(m, "service", "rejected")
    BY <1>3, <2>1 DEF Invalidate
  <2>3. agent[m]["service"].cred = disk[m].token => disk[m].token \in lapsed
    BY <1>1, <2>2 DEF AgentsRight, RejectedRight, Is
  <2> QED
    BY <1>1, <2>2, <2>3
<1>4. ASSUME NEW n \in Machines, Reset(n) PROVE Goal
  <2>1. n = m
    BY <1>1, <1>4 DEF Reset
  <2>2. disk'[m].inst = None
    BY <1>1, <1>4, <2>1 DEF Reset
  <2>3. m \in Serviced => agent'[m].service = Off
    BY <1>1, <1>4, <2>1 DEF Reset, IInv, TypeOK
  <2> QED
    BY <2>2, <2>3
<1>5. ASSUME NEW n \in Machines, Retry(n) PROVE FALSE
  <2>1. PICK p : Asks(n, "service", p, disk[n].token)
    BY <1>2, <1>5 DEF Retry
  <2> QED
    BY <1>1, <2>1, AsksKeeps
<1>6. ASSUME NEW n \in Machines, NEW a \in Who, NEW k \in Tokens \cup {None}, Start(n, a, k) PROVE FALSE
  <2>1. PICK p : Asks(n, a, p, disk[n].token)
    BY <1>2, <1>6 DEF Start
  <2> QED
    BY <1>1, <2>1, AsksKeeps
<1>7. ASSUME NEW n \in Machines, NEW a \in Who, SaveToken(n, a) PROVE FALSE
  <2>1. agent[n][a].cred # 0 /\ disk' = [disk EXCEPT ![n].token = agent[n][a].cred]
    BY <1>7 DEF SaveToken, Is, AgentsRight, ProcessNamed
  <2> QED
    BY <1>1, <2>1 DEF Disk
<1>8. ASSUME NEW n \in Machines, NEW a \in Who, SaveId(n, a) PROVE FALSE
  <2>1. disk' = [disk EXCEPT ![n].id = TRUE]
    BY <1>8 DEF SaveId
  <2> QED
    BY <1>1, <2>1 DEF Disk
<1> HIDE DEF Goal
<1>9. CASE disk' = disk
  BY <1>2, <1>9
<1>10. ASSUME NEW r \in Requests, Gateway(r) \/ Forget(r) \/ Answered(r) \/ TimeOut(r) PROVE disk' = disk
  BY <1>10 DEF Gateway, Validate, Consume, Count, Find, Read, Rotate, Clear, Create, Forget, Answered, TimeOut
<1>11. ASSUME NEW r \in Requests, NEW i \in Identities, NEW k \in Tokens, Recover(r, i, k) PROVE disk' = disk
  BY <1>11 DEF Recover
<1>12. ASSUME NEW k \in Tokens, EndToken(k) PROVE disk' = disk
  BY <1>12 DEF EndToken
<1>13. ASSUME NEW w \in Webhooks, SetPlan(w) \/ ListDevices(w) \/ FindInactive(w) \/ WriteDevices(w) PROVE disk' = disk
  BY <1>13 DEF SetPlan, ListDevices, FindInactive, WriteDevices
<1>14. ASSUME NEW i \in Identities, Revoke(i) PROVE disk' = disk
  BY <1>14 DEF Revoke
<1>15. ASSUME NEW n \in Machines, Metrics(n) \/ Report(n) PROVE disk' = disk
  BY <1>15 DEF Metrics, Report
<1>16. ASSUME NEW n \in Machines, NEW a \in Who, Crash(n, a) PROVE disk' = disk
  BY <1>16 DEF Crash
<1>17. GatewayRestart \/ UNCHANGED vars => disk' = disk
  BY DEF GatewayRestart, vars
<1> QED
  BY <1>3, <1>4, <1>5, <1>6, <1>7, <1>8, <1>9, <1>10, <1>11, <1>12, <1>13, <1>14, <1>15, <1>16, <1>17 DEF Next

(* registration.rs:373: a credential that the gateway accepts is deleted from   *)
(* disk by a reset, or by a rejected service that runs on another, or after the *)
(* credential had lapsed and was accepted again.                                *)
THEOREM OnlyStaleDeleted == Spec => DeletesStaleOnly
<1>1. IInv /\ AgentsRight /\ [Next]_vars => [\A m \in Machines : Deleting(m)]_vars
  BY DeletesRight
<1> QED
  BY <1>1, FullInvariant, PTL DEF Spec, DeletesStaleOnly

-----------------------------------------------------------------------------
(* The inventory of a device.  What follows is about I!Spec alone, and names *)
(* it shares with the module above are parameters of it like the others.      *)

CONSTANTS Versions, Slots, Attempts, MaxChanges, MaxRefreshes
VARIABLES machine, barred, uploaded, late, aged, job, slot, row, changes,
  refreshes, reports, latest, overtaken, missed, cut

I == INSTANCE Inventory

Bounds == {Attempts, MaxChanges, MaxRefreshes, MaxFaults} \subseteq Nat

(* The conjuncts of TypeOK, by component. *)
AgentType == [pc : {"idle", "collect", "send", "clear", "wipe"}, v : Versions \cup {None}, n : Nat,
              cmd : BOOLEAN, sent : BOOLEAN, clears : 0..3]
CallType == [pc : {"send", "clear", "wipe"}, v : Versions \cup {None}, n : Nat]
JobType == [st : {"none", "waiting", "active", "kept"}, by : Slots \cup {None}, throws : 0..Attempts]
MachineTyped ==
  machine \in Versions /\ changes \in 0..MaxChanges /\ reports \in Nat /\ barred \in BOOLEAN
AgentTyped == agent \in AgentType /\ uploaded \in Versions \cup {None} /\ late \in CallType \cup {None}
FlagTyped ==
  /\ flag \in BOOLEAN /\ aged \in BOOLEAN /\ asked \in BOOLEAN /\ overlapped \in BOOLEAN
  /\ request \in [Requests -> {"idle", "clear", "wipe", "set"}] /\ refreshes \in 0..MaxRefreshes
QueueTyped ==
  /\ job \in [Versions -> JobType] /\ slot \in [Slots -> Versions \cup {None}]
  /\ row \in [v : Versions \cup {None}, n : Nat] /\ latest \in [Versions -> Nat]
  /\ missed \in SUBSET Versions /\ overtaken \in BOOLEAN /\ cut \in BOOLEAN
FaultsTyped == faults \in 0..MaxFaults

(* A call under way is about a version, and marks are still to be taken back. *)
InHand ==
  /\ agent.pc \in {"send", "clear", "wipe"} => agent.clears > 0
  /\ agent.pc = "send" => agent.v \in Versions
  /\ late # None /\ late.pc = "send" => late.v \in Versions

(* While a refresh that nobody was about to take back waits for its collection, *)
(* the mark stands, is fresh, and nobody is about to take it back.              *)
Undisturbed ==
  asked /\ ~overlapped =>
    /\ flag /\ ~aged
    /\ agent.pc \in {"idle", "collect"} /\ agent.clears = 0 /\ late = None
    /\ \A u \in Requests : request[u] \notin {"clear", "wipe"}

Typed == MachineTyped /\ AgentTyped /\ FlagTyped /\ QueueTyped /\ FaultsTyped
InventoryInv == Typed /\ InHand /\ Undisturbed

LEMMA TypedIsTypeOK == I!TypeOK <=> Typed
BY DEF I!TypeOK, Typed, MachineTyped, AgentTyped, FlagTyped, QueueTyped, FaultsTyped, AgentType,
   CallType, JobType

LEMMA InventoryInitially == ASSUME Bounds PROVE I!Init => InventoryInv
<1> SUFFICES ASSUME I!Init PROVE InventoryInv
  OBVIOUS
<1>0. Attempts \in Nat /\ MaxChanges \in Nat /\ MaxRefreshes \in Nat /\ MaxFaults \in Nat
  BY DEF Bounds
<1>1. MachineTyped
  BY <1>0 DEF I!Init, MachineTyped
<1>2. AgentTyped
  <2>1. I!AgentIdle \in AgentType
    BY DEF I!AgentIdle, AgentType
  <2> QED
    BY <2>1 DEF I!Init, AgentTyped
<1>3. FlagTyped
  <2>1. refreshes \in 0..MaxRefreshes
    BY <1>0 DEF I!Init
  <2> QED
    BY <2>1 DEF I!Init, FlagTyped
<1>4. QueueTyped
  <2>1. I!NoJob \in JobType
    BY <1>0 DEF I!NoJob, JobType
  <2> QED
    BY <2>1 DEF I!Init, QueueTyped
<1>5. FaultsTyped
  BY <1>0 DEF I!Init, FaultsTyped
<1>6. InHand /\ Undisturbed
  BY DEF I!Init, InHand, Undisturbed, I!AgentIdle
<1> QED
  BY <1>1, <1>2, <1>3, <1>4, <1>5, <1>6 DEF InventoryInv, Typed

LEMMA EnqueuedTyped ==
  ASSUME InventoryInv, NEW v \in Versions, NEW n \in Nat, I!Enqueued(v, n)
  PROVE  QueueTyped'
<1>1. job' \in [Versions -> JobType]
  BY DEF InventoryInv, Typed, QueueTyped, I!Enqueued, JobType
<1>2. latest' \in [Versions -> Nat]
  BY DEF InventoryInv, Typed, QueueTyped, I!Enqueued, I!Later
<1>3. missed' \in SUBSET Versions
  BY DEF InventoryInv, Typed, QueueTyped, I!Enqueued
<1> QED
  BY <1>1, <1>2, <1>3 DEF InventoryInv, Typed, QueueTyped, I!Enqueued

LEMMA OverTyped ==
  ASSUME InventoryInv, NEW w \in Slots, slot[w] # None, I!Free(w), I!Over(w)
  PROVE  job' \in [Versions -> JobType] /\ slot' \in [Slots -> Versions \cup {None}]
<1>0. slot[w] \in Versions
  BY DEF InventoryInv, Typed, QueueTyped
<1>1. job' \in [Versions -> JobType]
  <2>0. job \in [Versions -> JobType]
    BY DEF InventoryInv, Typed, QueueTyped
  <2>1. CASE job[slot[w]].by = w
    <3>1. PICK v \in Versions : job' = [job EXCEPT ![v].st = "kept", ![v].by = None]
      BY <1>0, <2>1 DEF I!Over
    <3> QED
      BY <2>0, <3>1 DEF JobType
  <2>2. CASE job[slot[w]].by # w
    BY <2>0, <2>2 DEF I!Over
  <2> QED
    BY <2>1, <2>2
<1>2. slot' \in [Slots -> Versions \cup {None}]
  BY DEF InventoryInv, Typed, QueueTyped, I!Free
<1> QED
  BY <1>1, <1>2

LEMMA Failed ==
  ASSUME Bounds, InventoryInv, I!Fail
  PROVE  FaultsTyped'
BY DEF Bounds, InventoryInv, Typed, FaultsTyped, I!Fail

LEMMA InventoryStepwise == ASSUME Bounds, InventoryInv, [I!Next]_(I!vars) PROVE InventoryInv'
<1> USE DEF InventoryInv, Typed
<1>a. Attempts \in Nat /\ MaxChanges \in Nat /\ MaxRefreshes \in Nat /\ MaxFaults \in Nat
  BY DEF Bounds
<1>b. I!AgentIdle \in AgentType /\ I!AgentIdle.pc = "idle" /\ I!AgentIdle.clears = 0 /\ 1 \in 0..3
  BY DEF I!AgentIdle, AgentType
<1>1. ASSUME NEW v \in Versions, I!Install(v) PROVE InventoryInv'
  <2>1. MachineTyped'
    BY <1>a, <1>1 DEF I!Install, MachineTyped
  <2>2. AgentTyped'
    BY <1>1 DEF I!Install, I!queueVars, I!flagVars, I!machineVars, AgentTyped, I!vars
  <2>3. FlagTyped'
    BY <1>1 DEF I!Install, I!queueVars, I!flagVars, I!machineVars, FlagTyped, I!vars, I!flagVars
  <2>4. QueueTyped'
    BY <1>1 DEF I!Install, I!queueVars, I!flagVars, I!machineVars, QueueTyped, I!vars, I!queueVars
  <2>5. FaultsTyped'
    BY <1>1 DEF I!Install, I!queueVars, I!flagVars, I!machineVars, FaultsTyped, I!vars
  <2>6. InHand'
    BY <1>1 DEF I!Install, I!queueVars, I!flagVars, I!machineVars, InHand, I!vars
  <2>7. Undisturbed'
    BY <1>1 DEF I!Install, I!queueVars, I!flagVars, I!machineVars, Undisturbed, I!vars, I!flagVars
  <2> QED
    BY <2>1, <2>2, <2>3, <2>4, <2>5, <2>6, <2>7 DEF InventoryInv, Typed
<1>2. ASSUME NEW v \in Versions, I!Evict(v) PROVE InventoryInv'
  <2>1. MachineTyped'
    BY <1>2 DEF I!Evict, I!others, MachineTyped, I!vars, I!machineVars
  <2>2. AgentTyped'
    BY <1>2 DEF I!Evict, I!others, AgentTyped, I!vars
  <2>3. FlagTyped'
    BY <1>2 DEF I!Evict, I!others, FlagTyped, I!vars, I!flagVars
  <2>4. QueueTyped'
    BY <1>a, <1>2 DEF I!Evict, I!others, QueueTyped, I!NoJob, JobType
  <2>5. FaultsTyped'
    BY <1>2 DEF I!Evict, I!others, FaultsTyped, I!vars
  <2>6. InHand'
    BY <1>2 DEF I!Evict, I!others, InHand, I!vars
  <2>7. Undisturbed'
    BY <1>2 DEF I!Evict, I!others, Undisturbed, I!vars, I!flagVars
  <2> QED
    BY <2>1, <2>2, <2>3, <2>4, <2>5, <2>6, <2>7 DEF InventoryInv, Typed
<1>3. ASSUME NEW u \in Requests, I!Refresh(u) PROVE InventoryInv'
  <2>1. MachineTyped'
    BY <1>3 DEF I!Refresh, I!machineVars, I!queueVars, MachineTyped, I!vars, I!machineVars
  <2>2. AgentTyped'
    BY <1>3 DEF I!Refresh, I!machineVars, I!queueVars, AgentTyped, I!vars
  <2>3. FlagTyped'
    BY <1>a, <1>3 DEF I!Refresh, FlagTyped
  <2>4. QueueTyped'
    BY <1>3 DEF I!Refresh, I!machineVars, I!queueVars, QueueTyped, I!vars, I!queueVars
  <2>5. FaultsTyped'
    BY <1>3 DEF I!Refresh, I!machineVars, I!queueVars, FaultsTyped, I!vars
  <2>6. InHand'
    BY <1>3 DEF I!Refresh, I!machineVars, I!queueVars, InHand, I!vars
  <2>7. Undisturbed'
    BY <1>3 DEF I!Refresh, Undisturbed, FlagTyped
  <2> QED
    BY <2>1, <2>2, <2>3, <2>4, <2>5, <2>6, <2>7 DEF InventoryInv, Typed
<1>4. ASSUME NEW u \in Requests, I!ClearOld(u) PROVE InventoryInv'
  <2>1. MachineTyped'
    BY <1>4 DEF I!ClearOld, I!machineVars, I!queueVars, MachineTyped, I!vars, I!machineVars
  <2>2. AgentTyped'
    BY <1>4 DEF I!ClearOld, I!machineVars, I!queueVars, AgentTyped, I!vars
  <2>3. FlagTyped'
    BY <1>4 DEF I!ClearOld, FlagTyped
  <2>4. QueueTyped'
    BY <1>4 DEF I!ClearOld, I!machineVars, I!queueVars, QueueTyped, I!vars, I!queueVars
  <2>5. FaultsTyped'
    BY <1>4 DEF I!ClearOld, I!machineVars, I!queueVars, FaultsTyped, I!vars
  <2>6. InHand'
    BY <1>4 DEF I!ClearOld, I!machineVars, I!queueVars, InHand, I!vars
  <2>7. Undisturbed'
    BY <1>4 DEF I!ClearOld, Undisturbed, FlagTyped
  <2> QED
    BY <2>1, <2>2, <2>3, <2>4, <2>5, <2>6, <2>7 DEF InventoryInv, Typed
<1>5. ASSUME NEW u \in Requests, I!WipeOld(u) PROVE InventoryInv'
  <2>1. MachineTyped'
    BY <1>5 DEF I!WipeOld, I!machineVars, I!queueVars, MachineTyped, I!vars, I!machineVars
  <2>2. AgentTyped'
    BY <1>5 DEF I!WipeOld, I!machineVars, I!queueVars, AgentTyped, I!vars
  <2>3. FlagTyped'
    BY <1>5 DEF I!WipeOld, FlagTyped
  <2>4. QueueTyped'
    BY <1>5 DEF I!WipeOld, I!machineVars, I!queueVars, QueueTyped, I!vars, I!queueVars
  <2>5. FaultsTyped'
    BY <1>5 DEF I!WipeOld, I!machineVars, I!queueVars, FaultsTyped, I!vars
  <2>6. InHand'
    BY <1>5 DEF I!WipeOld, I!machineVars, I!queueVars, InHand, I!vars
  <2>7. Undisturbed'
    BY <1>5 DEF I!WipeOld, Undisturbed, FlagTyped
  <2> QED
    BY <2>1, <2>2, <2>3, <2>4, <2>5, <2>6, <2>7 DEF InventoryInv, Typed
<1>6. ASSUME NEW u \in Requests, I!SetPending(u) PROVE InventoryInv'
  <2>1. MachineTyped'
    BY <1>6 DEF I!SetPending, I!machineVars, I!queueVars, MachineTyped, I!vars, I!machineVars
  <2>2. AgentTyped'
    BY <1>6 DEF I!SetPending, I!machineVars, I!queueVars, AgentTyped, I!vars
  <2>3. FlagTyped'
    BY <1>6 DEF I!SetPending, FlagTyped, I!Clearing
  <2>4. QueueTyped'
    BY <1>6 DEF I!SetPending, I!machineVars, I!queueVars, QueueTyped, I!vars, I!queueVars
  <2>5. FaultsTyped'
    BY <1>6 DEF I!SetPending, I!machineVars, I!queueVars, FaultsTyped, I!vars
  <2>6. InHand'
    BY <1>6 DEF I!SetPending, I!machineVars, I!queueVars, InHand, I!vars
  <2>7. Undisturbed'
    <3>1. overlapped' = I!Clearing /\ flag' = TRUE /\ aged' = FALSE /\ UNCHANGED <<agent, late>>
      BY <1>6 DEF I!SetPending
    <3>2. ~I!Clearing => agent.pc \in {"idle", "collect"}
      BY DEF I!Clearing, InHand, AgentTyped, AgentType
    <3>3. ~I!Clearing => agent.clears = 0 /\ late = None /\ \A q \in Requests : request[q] \notin {"clear", "wipe"}
      BY DEF I!Clearing, AgentTyped, AgentType
    <3>4. \A q \in Requests : request'[q] \in {request[q], "idle"}
      BY <1>6 DEF I!SetPending, FlagTyped
    <3> QED
      BY <3>1, <3>2, <3>3, <3>4 DEF Undisturbed
  <2> QED
    BY <2>1, <2>2, <2>3, <2>4, <2>5, <2>6, <2>7 DEF InventoryInv, Typed
<1>7. ASSUME I!Age PROVE InventoryInv'
  <2>1. MachineTyped'
    BY <1>7 DEF I!Age, I!machineVars, I!queueVars, MachineTyped, I!vars, I!machineVars
  <2>2. AgentTyped'
    BY <1>7 DEF I!Age, I!machineVars, I!queueVars, AgentTyped, I!vars
  <2>3. FlagTyped'
    BY <1>7 DEF I!Age, FlagTyped
  <2>4. QueueTyped'
    BY <1>7 DEF I!Age, I!machineVars, I!queueVars, QueueTyped, I!vars, I!queueVars
  <2>5. FaultsTyped'
    BY <1>7 DEF I!Age, I!machineVars, I!queueVars, FaultsTyped, I!vars
  <2>6. InHand'
    BY <1>7 DEF I!Age, I!machineVars, I!queueVars, InHand, I!vars
  <2>7. Undisturbed'
    BY <1>7 DEF I!Age, Undisturbed
  <2> QED
    BY <2>1, <2>2, <2>3, <2>4, <2>5, <2>6, <2>7 DEF InventoryInv, Typed
<1>8. ASSUME I!Check PROVE InventoryInv'
  <2>1. MachineTyped'
    BY <1>8 DEF I!Check, I!machineVars, I!queueVars, I!flagVars, MachineTyped, I!vars, I!machineVars
  <2>2. AgentTyped'
    BY <1>b, <1>8 DEF I!Check, I!To, AgentTyped, AgentType
  <2>3. FlagTyped'
    BY <1>8 DEF I!Check, I!machineVars, I!queueVars, I!flagVars, FlagTyped, I!vars, I!flagVars
  <2>4. QueueTyped'
    BY <1>8 DEF I!Check, I!machineVars, I!queueVars, I!flagVars, QueueTyped, I!vars, I!queueVars
  <2>5. FaultsTyped'
    BY <1>8 DEF I!Check, I!machineVars, I!queueVars, I!flagVars, FaultsTyped, I!vars
  <2>6. InHand'
    BY <1>8 DEF I!Check, I!To, InHand, I!AgentIdle
  <2>7. Undisturbed'
    BY <1>8 DEF I!Check, I!To, Undisturbed, I!AgentIdle, I!flagVars
  <2> QED
    BY <2>1, <2>2, <2>3, <2>4, <2>5, <2>6, <2>7 DEF InventoryInv, Typed
<1>9. ASSUME I!Collect PROVE InventoryInv'
  <2>1. MachineTyped'
    BY <1>9 DEF I!Collect, MachineTyped
  <2>2. AgentTyped'
    <3> DEFINE more == IF agent.cmd THEN 1 ELSE 0
    <3>1. 2 + more \in 0..3 /\ 1 \in 0..3 /\ reports + 1 \in Nat /\ machine \in Versions
      BY DEF MachineTyped
    <3> HIDE DEF more
    <3>2. \/ agent' = [agent EXCEPT !.pc = "send", !.v = machine, !.n = reports + 1, !.sent = TRUE, !.clears = 2 + more]
          \/ agent' = [agent EXCEPT !.pc = "clear", !.clears = 1]
          \/ agent' = I!AgentIdle
      BY <1>9 DEF I!Collect, I!To, more
    <3>3. agent' \in AgentType
      BY <1>b, <3>1, <3>2 DEF AgentTyped, AgentType
    <3> QED
      BY <3>3, <1>9 DEF I!Collect, AgentTyped
  <2>3. FlagTyped'
    BY <1>9 DEF I!Collect, FlagTyped
  <2>4. QueueTyped'
    <3>1. missed' \in SUBSET Versions
      BY <1>9 DEF I!Collect, MachineTyped, QueueTyped
    <3> QED
      BY <3>1, <1>9 DEF I!Collect, QueueTyped
  <2>5. FaultsTyped'
    BY <1>9 DEF I!Collect, FaultsTyped, I!vars
  <2>6. InHand'
    <3>1. UNCHANGED late /\ machine \in Versions /\ agent \in AgentType
      BY <1>9 DEF I!Collect, MachineTyped, AgentTyped
    <3>2. agent'.pc = "send" => agent'.v \in Versions
      BY <3>1, <1>9 DEF I!Collect, I!To, I!AgentIdle, AgentType
    <3>3. agent'.pc \in {"send", "clear", "wipe"} => agent'.clears > 0
      BY <3>1, <1>9 DEF I!Collect, I!To, I!AgentIdle, AgentType
    <3> QED
      BY <3>1, <3>2, <3>3 DEF InHand
  <2>7. Undisturbed'
    BY <1>9 DEF I!Collect, Undisturbed
  <2> QED
    BY <2>1, <2>2, <2>3, <2>4, <2>5, <2>6, <2>7 DEF InventoryInv, Typed
<1>10. ASSUME I!Send PROVE InventoryInv'
  <2>1. MachineTyped'
    BY <1>10 DEF I!Send, I!machineVars, I!flagVars, MachineTyped, I!vars, I!machineVars
  <2>2. AgentTyped'
    BY <1>10 DEF I!Send, I!To, AgentTyped, AgentType
  <2>3. FlagTyped'
    BY <1>10 DEF I!Send, I!machineVars, I!flagVars, FlagTyped, I!vars, I!flagVars
  <2>4. QueueTyped'
    BY <1>10, EnqueuedTyped DEF I!Send, InHand, AgentTyped, AgentType
  <2>5. FaultsTyped'
    BY <1>10 DEF I!Send, I!machineVars, I!flagVars, FaultsTyped, I!vars
  <2>6. InHand'
    BY <1>10 DEF I!Send, I!To, InHand, AgentTyped, AgentType
  <2>7. Undisturbed'
    BY <1>10 DEF I!Send, I!To, Undisturbed, I!flagVars
  <2> QED
    BY <2>1, <2>2, <2>3, <2>4, <2>5, <2>6, <2>7 DEF InventoryInv, Typed
<1>11. ASSUME I!Clear PROVE InventoryInv'
  <2>1. MachineTyped'
    BY <1>11 DEF I!Clear, I!machineVars, I!queueVars, I!flagVars, MachineTyped, I!vars, I!machineVars
  <2>2. AgentTyped'
    <3>1. agent.clears \in 0..3 /\ (agent.clears > 1 => agent.clears - 1 \in 0..3)
      BY DEF AgentTyped, AgentType
    <3> QED
      BY <1>b, <3>1, <1>11 DEF I!Clear, I!Cleared, I!To, AgentTyped, AgentType
  <2>3. FlagTyped'
    BY <1>11 DEF I!Clear, I!machineVars, I!queueVars, I!flagVars, FlagTyped, I!vars, I!flagVars
  <2>4. QueueTyped'
    BY <1>11 DEF I!Clear, I!machineVars, I!queueVars, I!flagVars, QueueTyped, I!vars, I!queueVars
  <2>5. FaultsTyped'
    BY <1>11 DEF I!Clear, I!machineVars, I!queueVars, I!flagVars, FaultsTyped, I!vars
  <2>6. InHand'
    <3>1. agent.clears \in 0..3 /\ (agent.clears > 1 => agent.clears - 1 > 0) /\ UNCHANGED late
      BY <1>11 DEF I!Clear, AgentTyped, AgentType
    <3>2. CASE flag
      BY <3>1, <3>2, <1>11 DEF I!Clear, I!To, InHand, AgentTyped, AgentType
    <3>3. CASE ~flag
      <4>1. \/ agent.clears > 1 /\ agent' = [agent EXCEPT !.pc = "clear", !.clears = @ - 1, !.sent = FALSE]
            \/ agent' = I!AgentIdle
        BY <3>3, <1>11 DEF I!Clear, I!Cleared, I!To
      <4> QED
        BY <1>b, <3>1, <4>1 DEF InHand, AgentTyped, AgentType
    <3> QED
      BY <3>2, <3>3
  <2>7. Undisturbed'
    BY <1>11 DEF I!Clear, Undisturbed, I!flagVars
  <2> QED
    BY <2>1, <2>2, <2>3, <2>4, <2>5, <2>6, <2>7 DEF InventoryInv, Typed
<1>12. ASSUME I!Wipe PROVE InventoryInv'
  <2>1. MachineTyped'
    BY <1>12 DEF I!Wipe, I!machineVars, I!queueVars, MachineTyped, I!vars, I!machineVars
  <2>2. AgentTyped'
    <3>1. agent.clears \in 0..3 /\ (agent.clears > 1 => agent.clears - 1 \in 0..3)
      BY DEF AgentTyped, AgentType
    <3> QED
      BY <1>b, <3>1, <1>12 DEF I!Wipe, I!Cleared, I!To, AgentTyped, AgentType
  <2>3. FlagTyped'
    BY <1>12 DEF I!Wipe, FlagTyped
  <2>4. QueueTyped'
    BY <1>12 DEF I!Wipe, I!machineVars, I!queueVars, QueueTyped, I!vars, I!queueVars
  <2>5. FaultsTyped'
    BY <1>12 DEF I!Wipe, I!machineVars, I!queueVars, FaultsTyped, I!vars
  <2>6. InHand'
    <3>1. agent.clears \in 0..3 /\ (agent.clears > 1 => agent.clears - 1 > 0)
      BY DEF AgentTyped, AgentType
    <3> QED
      BY <3>1, <1>12 DEF I!Wipe, I!Cleared, I!To, InHand, AgentTyped, AgentType, I!AgentIdle
  <2>7. Undisturbed'
    BY <1>12 DEF I!Wipe, Undisturbed
  <2> QED
    BY <2>1, <2>2, <2>3, <2>4, <2>5, <2>6, <2>7 DEF InventoryInv, Typed
<1>13. ASSUME I!GiveUp PROVE InventoryInv'
  <2>1. MachineTyped'
    BY <1>13 DEF I!GiveUp, I!machineVars, I!queueVars, I!flagVars, MachineTyped, I!vars, I!machineVars
  <2>2. AgentTyped'
    <3>1. I!Call \in CallType
      BY <1>13 DEF I!GiveUp, I!InCall, I!Call, CallType, AgentTyped, AgentType
    <3>2. agent' \in AgentType
      BY <1>b, <1>13 DEF I!GiveUp, I!Failed, I!To, AgentTyped, AgentType
    <3> QED
      BY <3>1, <3>2, <1>13 DEF I!GiveUp, I!Served, AgentTyped
  <2>3. FlagTyped'
    BY <1>13 DEF I!GiveUp, I!machineVars, I!queueVars, I!flagVars, FlagTyped, I!vars, I!flagVars
  <2>4. QueueTyped'
    BY <1>13 DEF I!GiveUp, I!machineVars, I!queueVars, I!flagVars, QueueTyped, I!vars, I!queueVars
  <2>5. FaultsTyped'
    BY <1>a, <1>13, Failed DEF I!GiveUp
  <2>6. InHand'
    <3>1. late' # None /\ late'.pc = "send" => late'.v \in Versions
      BY <1>13 DEF I!GiveUp, I!Served, I!Call, InHand
    <3> QED
      BY <3>1, <1>13 DEF I!GiveUp, I!Failed, I!To, InHand, AgentTyped, AgentType, I!AgentIdle
  <2>7. Undisturbed'
    BY <1>13 DEF I!GiveUp, I!InCall, Undisturbed, I!flagVars
  <2> QED
    BY <2>1, <2>2, <2>3, <2>4, <2>5, <2>6, <2>7 DEF InventoryInv, Typed
<1>14. ASSUME I!AgentRestart PROVE InventoryInv'
  <2>1. MachineTyped'
    BY <1>14 DEF I!AgentRestart, I!machineVars, I!queueVars, I!flagVars, MachineTyped, I!vars,
       I!machineVars
  <2>2. AgentTyped'
    <3>1. I!InCall => I!Call \in CallType
      BY DEF I!InCall, I!Call, CallType, AgentTyped, AgentType
    <3> QED
      BY <1>b, <3>1, <1>14 DEF I!AgentRestart, I!To, I!Served, AgentTyped
  <2>3. FlagTyped'
    BY <1>14 DEF I!AgentRestart, I!machineVars, I!queueVars, I!flagVars, FlagTyped, I!vars, I!flagVars
  <2>4. QueueTyped'
    BY <1>14 DEF I!AgentRestart, I!machineVars, I!queueVars, I!flagVars, QueueTyped, I!vars, I!queueVars
  <2>5. FaultsTyped'
    BY <1>a, <1>14, Failed DEF I!AgentRestart
  <2>6. InHand'
    BY <1>14 DEF I!AgentRestart, I!To, InHand, I!AgentIdle, I!Served, I!Call, I!InCall
  <2>7. Undisturbed'
    BY <1>14 DEF I!AgentRestart, I!To, I!AgentIdle, I!InCall, Undisturbed, I!flagVars
  <2> QED
    BY <2>1, <2>2, <2>3, <2>4, <2>5, <2>6, <2>7 DEF InventoryInv, Typed
<1>15. ASSUME I!LateSend PROVE InventoryInv'
  <2>1. MachineTyped'
    BY <1>15 DEF I!LateSend, I!machineVars, I!flagVars, MachineTyped, I!vars, I!machineVars
  <2>2. AgentTyped'
    BY <1>15 DEF I!LateSend, AgentTyped, CallType
  <2>3. FlagTyped'
    BY <1>15 DEF I!LateSend, I!machineVars, I!flagVars, FlagTyped, I!vars, I!flagVars
  <2>4. QueueTyped'
    BY <1>15, EnqueuedTyped DEF I!LateSend, InHand, AgentTyped, CallType
  <2>5. FaultsTyped'
    BY <1>15 DEF I!LateSend, I!machineVars, I!flagVars, FaultsTyped, I!vars
  <2>6. InHand'
    BY <1>15 DEF I!LateSend, InHand, AgentTyped, CallType
  <2>7. Undisturbed'
    BY <1>15 DEF I!LateSend, Undisturbed, I!flagVars
  <2> QED
    BY <2>1, <2>2, <2>3, <2>4, <2>5, <2>6, <2>7 DEF InventoryInv, Typed
<1>16. ASSUME I!LateClear PROVE InventoryInv'
  <2>1. MachineTyped'
    BY <1>16 DEF I!LateClear, I!machineVars, I!queueVars, I!flagVars, MachineTyped, I!vars,
       I!machineVars
  <2>2. AgentTyped'
    BY <1>16 DEF I!LateClear, AgentTyped, CallType
  <2>3. FlagTyped'
    BY <1>16 DEF I!LateClear, I!machineVars, I!queueVars, I!flagVars, FlagTyped, I!vars, I!flagVars
  <2>4. QueueTyped'
    BY <1>16 DEF I!LateClear, I!machineVars, I!queueVars, I!flagVars, QueueTyped, I!vars, I!queueVars
  <2>5. FaultsTyped'
    BY <1>16 DEF I!LateClear, I!machineVars, I!queueVars, I!flagVars, FaultsTyped, I!vars
  <2>6. InHand'
    BY <1>16 DEF I!LateClear, InHand, AgentTyped, CallType
  <2>7. Undisturbed'
    BY <1>16 DEF I!LateClear, Undisturbed, I!flagVars
  <2> QED
    BY <2>1, <2>2, <2>3, <2>4, <2>5, <2>6, <2>7 DEF InventoryInv, Typed
<1>17. ASSUME I!LateWipe PROVE InventoryInv'
  <2>1. MachineTyped'
    BY <1>17 DEF I!LateWipe, I!machineVars, I!queueVars, MachineTyped, I!vars, I!machineVars
  <2>2. AgentTyped'
    BY <1>17 DEF I!LateWipe, AgentTyped
  <2>3. FlagTyped'
    BY <1>17 DEF I!LateWipe, FlagTyped
  <2>4. QueueTyped'
    BY <1>17 DEF I!LateWipe, I!machineVars, I!queueVars, QueueTyped, I!vars, I!queueVars
  <2>5. FaultsTyped'
    BY <1>17 DEF I!LateWipe, I!machineVars, I!queueVars, FaultsTyped, I!vars
  <2>6. InHand'
    BY <1>17 DEF I!LateWipe, InHand
  <2>7. Undisturbed'
    BY <1>17 DEF I!LateWipe, Undisturbed
  <2> QED
    BY <2>1, <2>2, <2>3, <2>4, <2>5, <2>6, <2>7 DEF InventoryInv, Typed
<1>18. ASSUME NEW w \in Slots, I!Take(w) PROVE InventoryInv'
  <2>1. MachineTyped'
    BY <1>18 DEF I!Take, I!others, MachineTyped, I!vars, I!machineVars
  <2>2. AgentTyped'
    BY <1>18 DEF I!Take, I!others, AgentTyped, I!vars
  <2>3. FlagTyped'
    BY <1>18 DEF I!Take, I!others, FlagTyped, I!vars, I!flagVars
  <2>4. QueueTyped'
    <3>1. PICK v \in Versions : /\ job' = [job EXCEPT ![v].st = "active", ![v].by = w]
                               /\ slot' = [slot EXCEPT ![w] = v]
      BY <1>18 DEF I!Take
    <3>2. job' \in [Versions -> JobType]
      BY <3>1 DEF QueueTyped, JobType
    <3> QED
      BY <3>1, <3>2, <1>18 DEF I!Take, I!others, QueueTyped
  <2>5. FaultsTyped'
    BY <1>18 DEF I!Take, I!others, FaultsTyped, I!vars
  <2>6. InHand'
    BY <1>18 DEF I!Take, I!others, InHand, I!vars
  <2>7. Undisturbed'
    BY <1>18 DEF I!Take, I!others, Undisturbed, I!vars, I!flagVars
  <2> QED
    BY <2>1, <2>2, <2>3, <2>4, <2>5, <2>6, <2>7 DEF InventoryInv, Typed
<1>19. ASSUME NEW w \in Slots, I!Upsert(w) PROVE InventoryInv'
  <2>1. MachineTyped'
    BY <1>19 DEF I!Upsert, I!others, MachineTyped, I!vars, I!machineVars
  <2>2. AgentTyped'
    BY <1>19 DEF I!Upsert, I!others, AgentTyped, I!vars
  <2>3. FlagTyped'
    BY <1>19 DEF I!Upsert, I!others, FlagTyped, I!vars, I!flagVars
  <2>4. QueueTyped'
    <3>1. job' \in [Versions -> JobType] /\ slot' \in [Slots -> Versions \cup {None}]
      BY <1>19, OverTyped DEF I!Upsert
    <3>2. slot[w] \in Versions
      BY <1>19 DEF I!Upsert, QueueTyped
    <3>3. latest[slot[w]] \in Nat /\ row.n \in Nat
      BY <3>2 DEF QueueTyped
    <3>4. row' \in [v : Versions \cup {None}, n : Nat]
      BY <3>2, <3>3, <1>19 DEF I!Upsert, I!Later
    <3> QED
      BY <3>1, <3>4, <1>19 DEF I!Upsert, I!others, QueueTyped
  <2>5. FaultsTyped'
    BY <1>19 DEF I!Upsert, I!others, FaultsTyped, I!vars
  <2>6. InHand'
    BY <1>19 DEF I!Upsert, I!others, InHand, I!vars
  <2>7. Undisturbed'
    BY <1>19 DEF I!Upsert, I!others, Undisturbed, I!vars, I!flagVars
  <2> QED
    BY <2>1, <2>2, <2>3, <2>4, <2>5, <2>6, <2>7 DEF InventoryInv, Typed
<1>20. ASSUME NEW w \in Slots, I!ItemFails(w) PROVE InventoryInv'
  <2>1. MachineTyped'
    BY <1>20 DEF I!ItemFails, I!others, MachineTyped, I!vars, I!machineVars
  <2>2. AgentTyped'
    BY <1>20 DEF I!ItemFails, I!others, AgentTyped, I!vars
  <2>3. FlagTyped'
    BY <1>20 DEF I!ItemFails, I!others, FlagTyped, I!vars, I!flagVars
  <2>4. QueueTyped'
    <3>1. job' \in [Versions -> JobType] /\ slot' \in [Slots -> Versions \cup {None}]
      BY <1>20, OverTyped DEF I!ItemFails
    <3> QED
      BY <3>1, <1>20 DEF I!ItemFails, I!others, QueueTyped
  <2>5. FaultsTyped'
    BY <1>a, <1>20, Failed DEF I!ItemFails
  <2>6. InHand'
    BY <1>20 DEF I!ItemFails, I!others, InHand, I!vars
  <2>7. Undisturbed'
    BY <1>20 DEF I!ItemFails, I!others, Undisturbed, I!vars, I!flagVars
  <2> QED
    BY <2>1, <2>2, <2>3, <2>4, <2>5, <2>6, <2>7 DEF InventoryInv, Typed
<1>21. ASSUME NEW w \in Slots, I!Throw(w) PROVE InventoryInv'
  <2>1. MachineTyped'
    BY <1>21 DEF I!Throw, I!others, MachineTyped, I!vars, I!machineVars
  <2>2. AgentTyped'
    BY <1>21 DEF I!Throw, I!others, AgentTyped, I!vars
  <2>3. FlagTyped'
    BY <1>21 DEF I!Throw, I!others, FlagTyped, I!vars, I!flagVars
  <2>4. QueueTyped'
    <3>1. slot[w] \in Versions /\ slot' \in [Slots -> Versions \cup {None}]
      BY <1>21 DEF I!Throw, I!Free, QueueTyped
    <3>2. CASE I!Over(w)
      <4>1. job' \in [Versions -> JobType]
        BY <1>21, <3>2, OverTyped DEF I!Throw
      <4> QED
        BY <3>1, <4>1, <1>21 DEF I!Throw, I!others, QueueTyped
    <3>3. CASE ~I!Over(w)
      <4> DEFINE t == job[slot[w]].throws + 1
      <4>1. job[slot[w]].throws \in 0..Attempts
        BY <3>1 DEF QueueTyped, JobType
      <4>2. t < Attempts /\ job' = [job EXCEPT ![slot[w]] = [st |-> "waiting", by |-> None, throws |-> t]] /\ cut' = cut
        BY <1>21, <3>3 DEF I!Throw
      <4>3. t \in 0..Attempts
        BY <1>a, <4>1, <4>2
      <4> HIDE DEF t
      <4>4. job' \in [Versions -> JobType]
        BY <4>2, <4>3 DEF QueueTyped, JobType
      <4> QED
        BY <3>1, <4>2, <4>4, <1>21 DEF I!Throw, I!others, QueueTyped
    <3> QED
      BY <3>2, <3>3
  <2>5. FaultsTyped'
    BY <1>a, <1>21, Failed DEF I!Throw
  <2>6. InHand'
    BY <1>21 DEF I!Throw, I!others, InHand, I!vars
  <2>7. Undisturbed'
    BY <1>21 DEF I!Throw, I!others, Undisturbed, I!vars, I!flagVars
  <2> QED
    BY <2>1, <2>2, <2>3, <2>4, <2>5, <2>6, <2>7 DEF InventoryInv, Typed
<1>22. ASSUME NEW w \in Slots, I!Stall(w) PROVE InventoryInv'
  <2>1. MachineTyped'
    BY <1>22 DEF I!Stall, I!others, MachineTyped, I!vars, I!machineVars
  <2>2. AgentTyped'
    BY <1>22 DEF I!Stall, I!others, AgentTyped, I!vars
  <2>3. FlagTyped'
    BY <1>22 DEF I!Stall, I!others, FlagTyped, I!vars, I!flagVars
  <2>4. QueueTyped'
    <3>1. job' \in [Versions -> JobType]
      BY <1>22 DEF I!Stall, QueueTyped, JobType
    <3>2. slot' \in [Slots -> Versions \cup {None}]
      BY <1>22 DEF I!Stall, QueueTyped
    <3> QED
      BY <3>1, <3>2, <1>22 DEF I!Stall, I!others, QueueTyped
  <2>5. FaultsTyped'
    BY <1>a, <1>22, Failed DEF I!Stall
  <2>6. InHand'
    BY <1>22 DEF I!Stall, I!others, InHand, I!vars
  <2>7. Undisturbed'
    BY <1>22 DEF I!Stall, I!others, Undisturbed, I!vars, I!flagVars
  <2> QED
    BY <2>1, <2>2, <2>3, <2>4, <2>5, <2>6, <2>7 DEF InventoryInv, Typed
<1>23. ASSUME I!Refuse PROVE InventoryInv'
  <2>1. MachineTyped'
    BY <1>23 DEF I!Refuse, I!machineVars, MachineTyped
  <2>2. AgentTyped'
    BY <1>b, <1>23 DEF I!Refuse, I!Failed, I!To, AgentTyped, AgentType
  <2>3. FlagTyped'
    BY <1>23 DEF I!Refuse, I!flagVars, FlagTyped
  <2>4. QueueTyped'
    BY <1>23 DEF I!Refuse, I!queueVars, QueueTyped
  <2>5. FaultsTyped'
    BY <1>23 DEF I!Refuse, FaultsTyped
  <2>6. InHand'
    BY <1>23 DEF I!Refuse, I!Failed, I!To, InHand, AgentTyped, AgentType, I!AgentIdle
  <2>7. Undisturbed'
    BY <1>23 DEF I!Refuse, I!Failed, I!To, Undisturbed, I!flagVars
  <2> QED
    BY <2>1, <2>2, <2>3, <2>4, <2>5, <2>6, <2>7 DEF InventoryInv, Typed
<1>24. CASE UNCHANGED I!vars
  BY <1>24 DEF I!vars, I!machineVars, I!flagVars, I!queueVars, MachineTyped, AgentTyped,
     FlagTyped, QueueTyped, FaultsTyped, InHand, Undisturbed
<1> QED
  BY <1>1, <1>2, <1>3, <1>4, <1>5, <1>6, <1>7, <1>8, <1>9, <1>10, <1>11, <1>12, <1>13, <1>14,
     <1>15, <1>16, <1>17, <1>18, <1>19, <1>20, <1>21, <1>22, <1>23, <1>24 DEF I!Next, I!RefreshStep,
     I!AgentStep, I!LateStep, I!Work

LEMMA InventoryInvariant == ASSUME Bounds PROVE I!Spec => []InventoryInv
BY InventoryInitially, InventoryStepwise, PTL DEF I!Spec

(* Types of the agent, the marks, the queue and the row, for any versions,   *)
(* requests, slots and bounds.                                               *)
THEOREM InventoryTypeCorrect == ASSUME Bounds PROVE I!Spec => []I!TypeOK
<1>1. InventoryInv => I!TypeOK
  BY TypedIsTypeOK DEF InventoryInv
<1> QED
  BY <1>1, InventoryInvariant, PTL

(* A refresh that a user asks for keeps its mark until a collection follows  *)
(* it, unless somebody was about to take the mark back when it was set,      *)
(* whatever calls are given up and served late, and for any number of users. *)
THEOREM RefreshMarkKept == ASSUME Bounds PROVE I!Spec => []RefreshKept
<1>1. InventoryInv => RefreshKept
  BY DEF InventoryInv, Undisturbed, RefreshKept, Typed, FlagTyped
<1> QED
  BY <1>1, InventoryInvariant, PTL

=============================================================================

--------------------------- MODULE AccountsProofs ---------------------------
(***************************************************************************)
(* Proofs about OrgMembership, for any users, organizations, requests and  *)
(* bounds, and, from "The second factor" on, about Mfa, for any requests,  *)
(* codes and bound.                                                        *)
(***************************************************************************)
EXTENDS OrgMembership, SecondFactor, FiniteSetTheorems, TLAPS

(* Memberships are of live organizations, and a request is about           *)
(* organizations that exist or have existed.                               *)
Known ==
  /\ \A u \in Users, o \in Orgs : IsMember(u, o) => org[o] = "live"
  /\ \A r \in Requests, o \in Orgs :
       o = request[r].org \/ o \in request[r].lost => org[o] # "new"

(* Two requests bound for one organization have been noticed. *)
Apart ==
  \A r, q \in Requests, o \in Orgs :
    r # q /\ o \in Bound(r) /\ o \in Bound(q) => o \in overlapped

Excused == demoted \cup overlapped
HasOther(u, o) == \E v \in Users \ {u} : RoleIn(v, o) = "Owner"

(* r is about to take or change the Owner membership it read in o *)
Takes(r, o) ==
  /\ request[r].pc \in {"remaining", "write"} /\ request[r].org = o
  /\ RowStands(r) /\ RoleIn(request[r].user, o) = "Owner"

(* r is about to erase an Owner of o, and o not with it *)
Forsakes(r, o) ==
  /\ request[r].pc = "erase" /\ o \notin request[r].lost
  /\ RoleIn(request[r].user, o) = "Owner"

(* What the count of the Owners told request r still holds *)
Spares(r, o) ==
  /\ Takes(r, o) => \/ request[r].op = "admin" /\ request[r].was = "Owner"
                    \/ HasOther(request[r].user, o)
  /\ Forsakes(r, o) => HasOther(request[r].user, o)

Safe(o) ==
  /\ org[o] = "live" => HasOwner(o)
  /\ \A q \in Requests : Spares(q, o)

Guarded == \A o \in Orgs \ Excused : Safe(o)

IInv == TypeOK /\ Known /\ Apart /\ Guarded

-----------------------------------------------------------------------------
(* Types *)

LEMMA NoneIsNothing == None \notin Users /\ None \notin Orgs /\ None \notin Roles
BY NoneAssumption

LEMMA IdleTyped == Idle \in Request /\ Idle.pc = "idle"
BY BoundAssumption DEF Idle, Request

LEMMA NoRowTyped == NoRow \in Row
BY BoundAssumption DEF NoRow, Row

LEMMA RowTyped ==
  ASSUME TypeOK, NEW u \in Users, NEW o \in Orgs
  PROVE  member[u][o] \in Row
BY DEF TypeOK

LEMMA CellSet ==
  ASSUME TypeOK, NEW u \in Users, NEW o \in Orgs, NEW row \in Row,
         member' = [member EXCEPT ![u][o] = row]
  PROVE  /\ member' \in [Users -> [Orgs -> Row]] /\ member'[u][o] = row
         /\ \A v \in Users, p \in Orgs :
              v # u \/ p # o => member'[v][p] = member[v][p]
BY DEF TypeOK

LEMMA AboutTyped ==
  ASSUME TypeOK, NEW u \in Users, NEW o \in Orgs,
         NEW pc \in {"count", "remaining", "write", "move"},
         NEW op \in {"role", "admin", "remove", "leave", "switch"}
  PROVE  /\ About(op, u, o, pc) \in Request
         /\ About(op, u, o, pc).user = u /\ About(op, u, o, pc).org = o
         /\ About(op, u, o, pc).pc = pc /\ About(op, u, o, pc).op = op
         /\ About(op, u, o, pc).was = RoleIn(u, o)
         /\ About(op, u, o, pc).lost = {}
<1>1. member[u][o] \in Row
  BY RowTyped
<1>2. active[u] \in Orgs \cup {None}
  BY DEF TypeOK
<1>3. member[u][o].at \in 0..MaxRows /\ RoleIn(u, o) \in Roles \cup {None}
  BY <1>1 DEF Row, RoleIn
<1> DEFINE x == About(op, u, o, pc)
           y == [pc |-> pc, op |-> op, user |-> u, org |-> o, at |-> member[u][o].at,
                 was |-> RoleIn(u, o), home |-> active[u], role |-> None, next |-> None, lost |-> {}]
<1>4. x = y
  <2> DEFINE z == Idle
  <2>1. z = [pc |-> "idle", op |-> "none", user |-> None, org |-> None, at |-> 0,
             was |-> None, home |-> None, role |-> None, next |-> None, lost |-> {}]
    BY DEF Idle
  <2>2. x = [z EXCEPT !.pc = pc, !.op = op, !.user = u, !.org = o, !.at = member[u][o].at,
                      !.was = RoleIn(u, o), !.home = active[u]]
    BY DEF About
  <2> HIDE DEF x, z
  <2> QED
    BY <2>1, <2>2
<1>5. y \in Request
  <2>1. /\ pc \in {"idle", "count", "remaining", "write", "home", "fallback", "move", "erase"}
        /\ op \in {"none", "role", "admin", "remove", "leave", "switch", "delete"}
        /\ {} \in SUBSET Orgs
    OBVIOUS
  <2> QED
    BY <1>2, <1>3, <2>1 DEF Request
<1>6. /\ y.user = u /\ y.org = o /\ y.pc = pc /\ y.op = op
      /\ y.was = RoleIn(u, o) /\ y.lost = {}
  OBVIOUS
<1> HIDE DEF x, y
<1>7. /\ x \in Request /\ x.user = u /\ x.org = o /\ x.pc = pc /\ x.op = op
      /\ x.was = RoleIn(u, o) /\ x.lost = {}
  BY <1>4, <1>5, <1>6
<1> QED
  BY <1>7 DEF x

LEMMA CheckedPcIs ==
  ASSUME NEW u, NEW o, NEW pc
  PROVE  CheckedPc(u, o, pc) \in {"count", pc}
BY DEF CheckedPc

(* What every action but the histories of Watch keeps typed *)
Core ==
  /\ org \in [Orgs -> {"new", "live", "gone"}]
  /\ account \in [Users -> {"new", "live", "gone"}]
  /\ member \in [Users -> [Orgs -> Row]]
  /\ active \in [Users -> Orgs \cup {None}]
  /\ request \in [Requests -> Request]
  /\ \A r \in Requests : request[r].pc # "idle" => request[r].user \in Users
  /\ rows \in 0..MaxRows /\ commands \in 0..MaxCommands /\ faults \in 0..MaxFaults
  /\ demoted \in SUBSET Orgs /\ invited \in SUBSET Orgs
  /\ evicted \in SUBSET Users /\ broken \in SUBSET Users

LEMMA CoreWatch ==
  ASSUME TypeOK, Core', Watch
  PROVE  TypeOK'
<1>1. overlapped' \in SUBSET Orgs
  BY DEF TypeOK, Watch
<1>2. crossed' \in SUBSET Users
  BY DEF TypeOK, Watch
<1> QED
  BY <1>1, <1>2 DEF TypeOK, Core

LEMMA StepTyped ==
  ASSUME TypeOK, NEW r \in Requests, NEW x \in Request, Step(r, x),
         x.pc # "idle" => x.user \in Users
  PROVE  /\ request' \in [Requests -> Request]
         /\ \A q \in Requests : request'[q].pc # "idle" => request'[q].user \in Users
         /\ request'[r] = x /\ \A q \in Requests : q # r => request'[q] = request[q]
BY DEF TypeOK, Step

LEMMA DoneTyped ==
  ASSUME TypeOK, NEW r \in Requests, Done(r)
  PROVE  /\ request' \in [Requests -> Request]
         /\ \A q \in Requests : request'[q].pc # "idle" => request'[q].user \in Users
         /\ request'[r] = Idle /\ \A q \in Requests : q # r => request'[q] = request[q]
BY IdleTyped, StepTyped DEF Done

LEMMA BeginTyped ==
  ASSUME TypeOK, NEW r \in Requests, NEW x \in Request, Begin(r, x), x.user \in Users
  PROVE  Core'
<1>1. /\ commands' \in 0..MaxCommands
      /\ UNCHANGED <<org, account, member, active, invited, rows, faults, demoted, evicted, broken>>
  BY BoundAssumption DEF Begin, TypeOK, history
<1>2. Step(r, x)
  BY DEF Begin
<1> QED
  BY <1>1, <1>2, StepTyped DEF Core, TypeOK

LEMMA InsertTyped ==
  ASSUME TypeOK, NEW u \in Users, NEW o \in Orgs, NEW role \in Roles, Insert(u, o, role)
  PROVE  /\ member' \in [Users -> [Orgs -> Row]] /\ rows' \in 0..MaxRows
         /\ invited' \in SUBSET Orgs
         /\ RoleIn(u, o)' = role
         /\ \A v \in Users, p \in Orgs :
              v # u \/ p # o => member'[v][p] = member[v][p]
<1>1. rows' \in 0..MaxRows
  BY BoundAssumption DEF TypeOK, Insert
<1>2. [role |-> role, at |-> rows'] \in Row
  BY <1>1 DEF Row
<1>3. member' = [member EXCEPT ![u][o] = [role |-> role, at |-> rows']]
  BY DEF Insert
<1>4. PICK row \in Row : row = [role |-> role, at |-> rows'] /\ row.role = role
  BY <1>2
<1>5. member' = [member EXCEPT ![u][o] = row]
  BY <1>3, <1>4
<1>6. invited' \in SUBSET Orgs
  BY DEF Insert, TypeOK
<1> QED
  BY <1>1, <1>4, <1>5, <1>6 DEF TypeOK, RoleIn

LEMMA CoreJoin ==
  ASSUME TypeOK, NEW u \in Users, Signup(u) \/ CreateOrganization(u) \/ Join(u)
  PROVE  Core'
<1>1. CASE Signup(u)
  <2>1. PICK o \in Orgs :
          /\ Insert(u, o, "Owner") /\ org' = [org EXCEPT ![o] = "live"]
          /\ active' = [active EXCEPT ![u] = o]
    BY <1>1 DEF Signup
  <2>2. /\ member' \in [Users -> [Orgs -> Row]] /\ rows' \in 0..MaxRows
        /\ invited' \in SUBSET Orgs
    BY <2>1, InsertTyped DEF Roles
  <2>3. /\ org' \in [Orgs -> {"new", "live", "gone"}]
        /\ active' \in [Users -> Orgs \cup {None}]
    BY <2>1 DEF TypeOK
  <2>4. account' \in [Users -> {"new", "live", "gone"}]
    BY <1>1 DEF Signup, TypeOK
  <2>5. UNCHANGED <<request, commands, faults, demoted, evicted, broken>>
    BY <1>1 DEF Signup, history
  <2> QED
    BY <2>2, <2>3, <2>4, <2>5 DEF TypeOK, Core
<1>2. CASE CreateOrganization(u)
  <2>1. PICK o \in Orgs : Insert(u, o, "Owner") /\ org' = [org EXCEPT ![o] = "live"]
    BY <1>2 DEF CreateOrganization
  <2>2. /\ member' \in [Users -> [Orgs -> Row]] /\ rows' \in 0..MaxRows
        /\ invited' \in SUBSET Orgs
    BY <2>1, InsertTyped DEF Roles
  <2>3. org' \in [Orgs -> {"new", "live", "gone"}]
    BY <2>1 DEF TypeOK
  <2>4. UNCHANGED <<account, active, request, commands, faults, demoted, evicted, broken>>
    BY <1>2 DEF CreateOrganization, history
  <2> QED
    BY <2>2, <2>3, <2>4 DEF TypeOK, Core
<1>3. CASE Join(u)
  <2>1. PICK o \in Orgs, role \in Roles : Insert(u, o, role)
    BY <1>3 DEF Join
  <2>2. /\ member' \in [Users -> [Orgs -> Row]] /\ rows' \in 0..MaxRows
        /\ invited' \in SUBSET Orgs
    BY <2>1, InsertTyped
  <2>3. UNCHANGED <<org, account, active, request, commands, faults, demoted, evicted, broken>>
    BY <1>3 DEF Join, history
  <2> QED
    BY <2>2, <2>3 DEF TypeOK, Core
<1> QED
  BY <1>1, <1>2, <1>3

(* The actions that start a request *)
Starts(r) ==
  \/ UpdateMemberRole(r) \/ UpdateUserRole(r) \/ RemoveMember(r)
  \/ LeaveOrganization(r) \/ SwitchOrganization(r) \/ DeleteAccount(r)

LEMMA CoreStart ==
  ASSUME TypeOK, NEW r \in Requests, Starts(r)
  PROVE  Core'
<1>1. CASE UpdateMemberRole(r)
  <2>1. PICK t \in Users, o \in Orgs, to \in Roles :
          Begin(r, [About("role", t, o, CheckedPc(t, o, "write")) EXCEPT !.role = to])
    BY <1>1 DEF UpdateMemberRole
  <2>2. CheckedPc(t, o, "write") \in {"count", "remaining", "write", "move"}
    BY CheckedPcIs
  <2>3. LET x == About("role", t, o, CheckedPc(t, o, "write")) IN
        x \in Request /\ x.user = t
    BY <2>2, AboutTyped
  <2> DEFINE y == [About("role", t, o, CheckedPc(t, o, "write")) EXCEPT !.role = to]
  <2>4. y \in Request /\ y.user = t
    BY <2>3 DEF Request
  <2> QED
    BY <2>1, <2>4, BeginTyped
<1>2. CASE UpdateUserRole(r)
  <2>1. PICK t \in Users, o \in Orgs, to \in Roles :
          Begin(r, [About("admin", t, o, "write") EXCEPT !.role = to])
    BY <1>2 DEF UpdateUserRole
  <2>2. LET x == About("admin", t, o, "write") IN x \in Request /\ x.user = t
    BY AboutTyped
  <2> DEFINE y == [About("admin", t, o, "write") EXCEPT !.role = to]
  <2>3. y \in Request /\ y.user = t
    BY <2>2 DEF Request
  <2> QED
    BY <2>1, <2>3, BeginTyped
<1>3. CASE RemoveMember(r)
  <2>1. PICK t \in Users, o \in Orgs :
          Begin(r, About("remove", t, o, CheckedPc(t, o, "write")))
    BY <1>3 DEF RemoveMember
  <2>2. CheckedPc(t, o, "write") \in {"count", "remaining", "write", "move"}
    BY CheckedPcIs
  <2> QED
    BY <2>1, <2>2, AboutTyped, BeginTyped
<1>4. CASE LeaveOrganization(r)
  <2>1. PICK t \in Users, o \in Orgs :
          Begin(r, About("leave", t, o, CheckedPc(t, o, "remaining")))
    BY <1>4 DEF LeaveOrganization
  <2>2. CheckedPc(t, o, "remaining") \in {"count", "remaining", "write", "move"}
    BY CheckedPcIs
  <2> QED
    BY <2>1, <2>2, AboutTyped, BeginTyped
<1>5. CASE SwitchOrganization(r)
  <2>1. PICK t \in Users, o \in Orgs :
          Begin(r, [About("switch", t, o, "move") EXCEPT !.next = o])
    BY <1>5 DEF SwitchOrganization
  <2>2. LET x == About("switch", t, o, "move") IN x \in Request /\ x.user = t
    BY AboutTyped
  <2> DEFINE y == [About("switch", t, o, "move") EXCEPT !.next = o]
  <2>3. y \in Request /\ y.user = t
    BY <2>2 DEF Request
  <2> QED
    BY <2>1, <2>3, BeginTyped
<1>6. CASE DeleteAccount(r)
  <2>1. PICK u \in Users :
          Begin(r, [Idle EXCEPT !.pc = "erase", !.op = "delete", !.user = u,
                                !.lost = SoleOwned(u)])
    BY <1>6 DEF DeleteAccount
  <2>2. SoleOwned(u) \in SUBSET Orgs
    BY DEF SoleOwned, OrgsOf
  <2> DEFINE y == [Idle EXCEPT !.pc = "erase", !.op = "delete", !.user = u,
                               !.lost = SoleOwned(u)]
  <2>3. y \in Request /\ y.user = u
    BY <2>2, IdleTyped DEF Request
  <2> QED
    BY <2>1, <2>3, BeginTyped
<1> QED
  BY <1>1, <1>2, <1>3, <1>4, <1>5, <1>6 DEF Starts

(* A request that only moves on *)
LEMMA RequestMoved ==
  ASSUME TypeOK, NEW r \in Requests,
         NEW pc \in {"remaining", "write", "home", "fallback", "move"},
         request[r].pc # "idle",
         Step(r, [request[r] EXCEPT !.pc = pc])
  PROVE  /\ request' \in [Requests -> Request]
         /\ \A q \in Requests : request'[q].pc # "idle" => request'[q].user \in Users
         /\ \A q \in Requests : q # r => request'[q] = request[q]
         /\ request'[r] = [request[r] EXCEPT !.pc = pc]
<1>1. request[r] \in Request /\ request[r].user \in Users
  BY DEF TypeOK
<1> DEFINE y == [request[r] EXCEPT !.pc = pc]
<1>2. y \in Request /\ y.user = request[r].user
  BY <1>1 DEF Request
<1>3. Step(r, y)
  OBVIOUS
<1> HIDE DEF y
<1>4. /\ request' \in [Requests -> Request]
      /\ \A q \in Requests : request'[q].pc # "idle" => request'[q].user \in Users
      /\ request'[r] = y /\ \A q \in Requests : q # r => request'[q] = request[q]
  BY <1>1, <1>2, <1>3, StepTyped
<1> QED
  BY <1>4 DEF y

(* The actions that take a request on *)
Follows(r) ==
  \/ CountOwners(r) \/ CountOrgs(r) \/ WriteRole(r) \/ DeleteMember(r) \/ CheckHome(r)
  \/ Fallback(r) \/ MoveUser(r) \/ EraseAccount(r) \/ Crash(r)

(* The request of r stays about the same, and is bound for nothing it was  *)
(* not about to count                                                      *)
Onward(r) ==
  /\ \A f \in {"op", "user", "org", "at", "was", "home", "role", "lost"} : request'[r][f] = request[r][f]
  /\ \/ request'[r].pc \in {"home", "fallback", "move"}
     \/ /\ request'[r].pc \in {"remaining", "write"}
        /\ request[r].pc \in {"count", "remaining"}

(* Whatever they do, other requests stay and this one is well formed. *)
LEMMA FollowRequests ==
  ASSUME TypeOK, NEW r \in Requests, Follows(r)
  PROVE  /\ request' \in [Requests -> Request]
         /\ \A q \in Requests : request'[q].pc # "idle" => request'[q].user \in Users
         /\ \A q \in Requests : q # r => request'[q] = request[q]
         /\ request'[r] = Idle \/ Onward(r)
<1> DEFINE P ==
         /\ request' \in [Requests -> Request]
         /\ \A q \in Requests : request'[q].pc # "idle" => request'[q].user \in Users
         /\ \A q \in Requests : q # r => request'[q] = request[q]
<1>1. ASSUME Done(r) PROVE P /\ request'[r] = Idle
  BY <1>1, DoneTyped
<1>2. ASSUME NEW pc \in {"remaining", "write", "home", "fallback", "move"},
             request[r].pc # "idle", Step(r, [request[r] EXCEPT !.pc = pc]),
             \/ pc \in {"home", "fallback", "move"}
             \/ request[r].pc \in {"count", "remaining"}
      PROVE  P /\ Onward(r)
  <2>1. P /\ request'[r] = [request[r] EXCEPT !.pc = pc]
    BY <1>2, RequestMoved
  <2>2. request[r] \in Request
    BY DEF TypeOK
  <2> QED
    BY <1>2, <2>1, <2>2 DEF Request, Onward
<1> HIDE DEF P
<1>3. CASE CountOwners(r)
  <2>1. /\ request[r].pc = "count"
        /\ \/ Done(r)
           \/ \E pc \in {"remaining", "write"} : Step(r, [request[r] EXCEPT !.pc = pc])
    BY <1>3 DEF CountOwners
  <2> QED
    BY <2>1, <1>1, <1>2 DEF P
<1>4. CASE CountOrgs(r)
  <2>1. /\ request[r].pc = "remaining"
        /\ Done(r) \/ Step(r, [request[r] EXCEPT !.pc = "write"])
    BY <1>4 DEF CountOrgs
  <2> QED
    BY <2>1, <1>1, <1>2 DEF P
<1>5. CASE \/ WriteRole(r) \/ MoveUser(r) \/ EraseAccount(r) \/ Crash(r)
  <2>1. Done(r)
    BY <1>5 DEF WriteRole, MoveUser, EraseAccount, Crash
  <2> QED
    BY <2>1, <1>1 DEF P
<1>6. CASE DeleteMember(r) \/ CheckHome(r)
  <2>1. /\ request[r].pc \in {"write", "home"}
        /\ \/ Done(r)
           \/ Step(r, [request[r] EXCEPT !.pc = "home"])
           \/ Step(r, [request[r] EXCEPT !.pc = "fallback"])
    BY <1>6 DEF DeleteMember, CheckHome
  <2> QED
    BY <2>1, <1>1, <1>2 DEF P
<1>7. CASE Fallback(r)
  <2>1. /\ request[r].pc = "fallback"
        /\ \/ Done(r)
           \/ \E o \in OrgsOf(request[r].user) \ {request[r].org} :
                Step(r, [request[r] EXCEPT !.pc = "move", !.next = o])
    BY <1>7 DEF Fallback
  <2>3. request[r] \in Request /\ request[r].user \in Users
    BY <2>1 DEF TypeOK
  <2>4. ASSUME NEW o \in Orgs, Step(r, [request[r] EXCEPT !.pc = "move", !.next = o])
        PROVE  P /\ Onward(r)
    <3> DEFINE y == [request[r] EXCEPT !.pc = "move", !.next = o]
    <3>1. /\ y \in Request /\ y.pc = "move"
          /\ \A f \in {"op", "user", "org", "at", "was", "home", "role", "lost"} : y[f] = request[r][f]
      BY <2>3 DEF Request
    <3>2. Step(r, y)
      BY <2>4
    <3> HIDE DEF y
    <3> QED
      BY <2>3, <3>1, <3>2, StepTyped DEF P, Onward
  <2> QED
    BY <2>1, <2>4, <1>1 DEF P, OrgsOf
<1> QED
  BY <1>3, <1>4, <1>5, <1>6, <1>7 DEF Follows, P

LEMMA CoreFollow ==
  ASSUME TypeOK, NEW r \in Requests, Follows(r)
  PROVE  Core'
<1>0. /\ request' \in [Requests -> Request]
      /\ \A q \in Requests : request'[q].pc # "idle" => request'[q].user \in Users
  BY FollowRequests
<1>1. CASE CountOwners(r) \/ CountOrgs(r) \/ CheckHome(r) \/ Fallback(r)
  BY <1>0, <1>1 DEF CountOwners, CountOrgs, CheckHome, Fallback, extra, history, Core, TypeOK
<1>2. CASE WriteRole(r)
  <2>1. \A u \in Users, o \in Orgs, to \in Roles \cup {None} :
          [member[u][o] EXCEPT !.role = to] \in Row
    BY RowTyped DEF Row
  <2>2. member' \in [Users -> [Orgs -> Row]]
    <3>1. CASE RowStands(r)
      <4>1. /\ member' = [member EXCEPT ![request[r].user][request[r].org].role = request[r].role]
            /\ request[r].user \in Users /\ request[r].org \in Orgs
        BY <1>2, <3>1 DEF WriteRole, RowStands
      <4>2. request[r].role \in Roles \cup {None}
        BY DEF TypeOK, Request
      <4> QED
        BY <2>1, <4>1, <4>2 DEF TypeOK
    <3>2. CASE ~RowStands(r)
      BY <1>2, <3>2 DEF WriteRole, TypeOK
    <3> QED
      BY <3>1, <3>2
  <2>3. demoted' \in SUBSET Orgs
    <3>1. \/ demoted' = demoted
          \/ demoted' = demoted \cup {request[r].org} /\ RowStands(r)
      BY <1>2 DEF WriteRole
    <3> QED
      BY <3>1 DEF RowStands, TypeOK
  <2> QED
    BY <1>0, <1>2, <2>2, <2>3 DEF WriteRole, extra, Core, TypeOK
<1>3. CASE DeleteMember(r)
  <2>1. member' \in [Users -> [Orgs -> Row]]
    <3>1. \/ UNCHANGED member
          \/ /\ request[r].user \in Users /\ request[r].org \in Orgs
             /\ member' = [member EXCEPT ![request[r].user][request[r].org] = NoRow]
      BY <1>3 DEF DeleteMember, RowStands
    <3>2. CASE UNCHANGED member
      BY <3>2 DEF TypeOK
    <3>3. CASE ~UNCHANGED member
      BY <3>1, <3>3, NoRowTyped, CellSet
    <3> QED
      BY <3>2, <3>3
  <2>2. evicted' \in SUBSET Users
    <3>1. \/ evicted' = evicted
          \/ evicted' = evicted \cup {request[r].user} /\ RowStands(r)
      <4>1. CASE RowStands(r)
        <5>1. evicted' = IF request[r].op = "remove"
                           THEN evicted \cup {request[r].user} ELSE evicted
          BY <1>3, <4>1 DEF DeleteMember
        <5> QED
          BY <4>1, <5>1
      <4>2. CASE ~RowStands(r)
        BY <1>3, <4>2 DEF DeleteMember
      <4> QED
        BY <4>1, <4>2
    <3> QED
      BY <3>1 DEF RowStands, TypeOK
  <2> QED
    BY <1>0, <1>3, <2>1, <2>2 DEF DeleteMember, extra, Core, TypeOK
<1>4. CASE MoveUser(r)
  <2>1. active' \in [Users -> Orgs \cup {None}]
    <3>1. \/ UNCHANGED active
          \/ active' = [active EXCEPT ![request[r].user] = request[r].next]
      BY <1>4 DEF MoveUser
    <3>2. request[r].next \in Orgs \cup {None}
      BY DEF TypeOK, Request
    <3> QED
      BY <3>1, <3>2 DEF TypeOK
  <2> QED
    BY <1>0, <1>4, <2>1 DEF MoveUser, extra, history, Core, TypeOK
<1>5. CASE EraseAccount(r)
  <2>1. \/ UNCHANGED <<account, active, org, member, broken>>
        \/ /\ account' = [account EXCEPT ![request[r].user] = "gone"]
           /\ active' = [active EXCEPT ![request[r].user] = None]
           /\ org' = [o \in Orgs |-> IF o \in request[r].lost THEN "gone" ELSE org[o]]
           /\ member' = [v \in Users |-> [o \in Orgs |->
                 IF v = request[r].user \/ o \in request[r].lost THEN NoRow ELSE member[v][o]]]
           /\ broken' = broken \cup {v \in Users \ {request[r].user} :
                                       OrgsOf(v) \cap request[r].lost # {}}
    BY <1>5 DEF EraseAccount
  <2>2. /\ org' \in [Orgs -> {"new", "live", "gone"}]
        /\ account' \in [Users -> {"new", "live", "gone"}]
        /\ active' \in [Users -> Orgs \cup {None}]
        /\ broken' \in SUBSET Users
    BY <2>1 DEF TypeOK
  <2>3. member' \in [Users -> [Orgs -> Row]]
    BY <2>1, RowTyped, NoRowTyped DEF TypeOK
  <2> QED
    BY <1>0, <1>5, <2>2, <2>3 DEF EraseAccount, extra, Core, TypeOK
<1>6. CASE Crash(r)
  <2>1. broken' \in SUBSET Users
    <3>1. broken' = broken \cup {request[r].user} /\ request[r].pc # "idle"
      BY <1>6 DEF Crash
    <3> QED
      BY <3>1 DEF TypeOK
  <2>2. faults' \in 0..MaxFaults
    BY <1>6, BoundAssumption DEF Crash, TypeOK
  <2> QED
    BY <1>0, <1>6, <2>1, <2>2 DEF Crash, Core, TypeOK
<1> QED
  BY <1>1, <1>2, <1>3, <1>4, <1>5, <1>6 DEF Follows

LEMMA TypeStep ==
  ASSUME TypeOK, [Next]_vars
  PROVE  TypeOK'
<1>1. CASE UNCHANGED vars
  BY <1>1 DEF vars, extra, history, TypeOK
<1>2. CASE Act /\ Watch
  <2>1. Core'
    BY <1>2, CoreJoin, CoreStart, CoreFollow DEF Act, Proceed, Starts, Follows
  <2> QED
    BY <1>2, <2>1, CoreWatch
<1> QED
  BY <1>1, <1>2 DEF Next

-----------------------------------------------------------------------------
(* Known and Apart *)

LEMMA ApartStep ==
  ASSUME Watch
  PROVE  Apart'
BY DEF Watch, Apart

(* What a started request is about *)
LEMMA StartAbout ==
  ASSUME TypeOK, NEW r \in Requests, Starts(r)
  PROVE  /\ UNCHANGED <<org, member, demoted>>
         /\ \A q \in Requests : q # r => request'[q] = request[q]
         /\ \A o \in Orgs : o = request'[r].org \/ o \in request'[r].lost =>
              \E u \in Users : IsMember(u, o)
<1>1. /\ UNCHANGED <<org, member, demoted>>
      /\ \A q \in Requests : q # r => request'[q] = request[q]
  BY DEF Starts, UpdateMemberRole, UpdateUserRole, RemoveMember, LeaveOrganization,
         SwitchOrganization, DeleteAccount, Begin, Step, history, TypeOK
<1>2. ASSUME NEW u \in Users, NEW p \in Orgs, IsMember(u, p), NEW x \in Request,
             x.org = p, x.lost = {}, Begin(r, x)
      PROVE  \A o \in Orgs : o = request'[r].org \/ o \in request'[r].lost =>
               \E v \in Users : IsMember(v, o)
  BY <1>2 DEF Begin, Step, TypeOK
<1>3. ASSUME NEW u \in Users, NEW p \in Orgs, IsMember(u, p),
             NEW op \in {"role", "admin", "remove", "leave", "switch"},
             NEW pc \in {"count", "remaining", "write", "move"}
      PROVE  /\ About(op, u, p, pc) \in Request
             /\ About(op, u, p, pc).org = p /\ About(op, u, p, pc).lost = {}
  BY AboutTyped
<1>4. CASE UpdateMemberRole(r)
  <2>1. PICK t \in Users, p \in Orgs, to \in Roles :
          /\ IsMember(t, p)
          /\ Begin(r, [About("role", t, p, CheckedPc(t, p, "write")) EXCEPT !.role = to])
    BY <1>4 DEF UpdateMemberRole, MayChangeRole
  <2>2. LET x == About("role", t, p, CheckedPc(t, p, "write")) IN
        x \in Request /\ x.org = p /\ x.lost = {}
    BY <1>3, <2>1, CheckedPcIs
  <2> DEFINE y == [About("role", t, p, CheckedPc(t, p, "write")) EXCEPT !.role = to]
  <2>3. y \in Request /\ y.org = p /\ y.lost = {}
    BY <2>2 DEF Request
  <2> HIDE DEF y
  <2>4. Begin(r, y)
    BY <2>1 DEF y
  <2> QED
    BY <1>1, <1>2, <2>1, <2>3, <2>4
<1>5. CASE UpdateUserRole(r)
  <2>1. PICK t \in Users, p \in Orgs, to \in Roles :
          IsMember(t, p) /\ Begin(r, [About("admin", t, p, "write") EXCEPT !.role = to])
    BY <1>5 DEF UpdateUserRole
  <2>2. LET x == About("admin", t, p, "write") IN
        x \in Request /\ x.org = p /\ x.lost = {}
    BY <1>3, <2>1
  <2> DEFINE y == [About("admin", t, p, "write") EXCEPT !.role = to]
  <2>3. y \in Request /\ y.org = p /\ y.lost = {}
    BY <2>2 DEF Request
  <2> HIDE DEF y
  <2>4. Begin(r, y)
    BY <2>1 DEF y
  <2> QED
    BY <1>1, <1>2, <2>1, <2>3, <2>4
<1>6. CASE RemoveMember(r)
  <2>1. PICK t \in Users, p \in Orgs :
          IsMember(t, p) /\ Begin(r, About("remove", t, p, CheckedPc(t, p, "write")))
    BY <1>6 DEF RemoveMember
  <2> QED
    BY <1>1, <1>2, <1>3, <2>1, CheckedPcIs
<1>7. CASE LeaveOrganization(r)
  <2>1. PICK t \in Users, p \in Orgs :
          IsMember(t, p) /\ Begin(r, About("leave", t, p, CheckedPc(t, p, "remaining")))
    BY <1>7 DEF LeaveOrganization
  <2> QED
    BY <1>1, <1>2, <1>3, <2>1, CheckedPcIs
<1>8. CASE SwitchOrganization(r)
  <2>1. PICK t \in Users, p \in Orgs :
          IsMember(t, p) /\ Begin(r, [About("switch", t, p, "move") EXCEPT !.next = p])
    BY <1>8 DEF SwitchOrganization
  <2>2. LET x == About("switch", t, p, "move") IN
        x \in Request /\ x.org = p /\ x.lost = {}
    BY <1>3, <2>1
  <2> DEFINE y == [About("switch", t, p, "move") EXCEPT !.next = p]
  <2>3. y \in Request /\ y.org = p /\ y.lost = {}
    BY <2>2 DEF Request
  <2> HIDE DEF y
  <2>4. Begin(r, y)
    BY <2>1 DEF y
  <2> QED
    BY <1>1, <1>2, <2>1, <2>3, <2>4
<1>9. CASE DeleteAccount(r)
  <2>1. PICK u \in Users :
          Begin(r, [Idle EXCEPT !.pc = "erase", !.op = "delete", !.user = u,
                                !.lost = SoleOwned(u)])
    BY <1>9 DEF DeleteAccount
  <2>2. request'[r].org = None /\ request'[r].lost = SoleOwned(u)
    BY <2>1 DEF Begin, Step, Idle, TypeOK
  <2> QED
    BY <1>1, <2>2, NoneIsNothing DEF SoleOwned, OrgsOf
<1> QED
  BY <1>1, <1>4, <1>5, <1>6, <1>7, <1>8, <1>9 DEF Starts

(* A request that goes on adds no membership, and an organization it       *)
(* deletes has none left.                                                  *)
LEMMA FollowShrinks ==
  ASSUME TypeOK, NEW r \in Requests, Follows(r), NEW o \in Orgs
  PROVE  /\ org'[o] = org[o] \/ org'[o] = "gone"
         /\ \A v \in Users : IsMember(v, o)' => IsMember(v, o) /\ org'[o] = org[o]
<1>1. CASE CountOwners(r) \/ CountOrgs(r) \/ CheckHome(r) \/ Fallback(r) \/ MoveUser(r)
           \/ Crash(r)
  BY <1>1 DEF CountOwners, CountOrgs, CheckHome, Fallback, MoveUser, Crash, IsMember, RoleIn
<1>2. CASE WriteRole(r)
  <2>1. org' = org
    BY <1>2 DEF WriteRole
  <2>2. CASE ~RowStands(r)
    BY <1>2, <2>1, <2>2 DEF WriteRole, IsMember, RoleIn
  <2>3. CASE RowStands(r)
    <3> DEFINE u == request[r].user
               p == request[r].org
               row == [member[u][p] EXCEPT !.role = request[r].role]
    <3>1. u \in Users /\ p \in Orgs /\ IsMember(u, p)
      BY <2>3 DEF RowStands
    <3>2. row \in Row
      <4>1. member[u][p] \in Row /\ request[r].role \in Roles \cup {None}
        BY <3>1, RowTyped DEF TypeOK, Request
      <4> QED
        BY <4>1 DEF Row
    <3>3. member' = [member EXCEPT ![u][p] = row]
      BY <1>2, <2>3 DEF WriteRole
    <3> HIDE DEF u, p, row
    <3>4. \A v \in Users : v # u \/ o # p => member'[v][o] = member[v][o]
      BY <3>1, <3>2, <3>3, CellSet
    <3> QED
      BY <2>1, <3>1, <3>4 DEF IsMember, RoleIn
  <2> QED
    BY <2>2, <2>3
<1>3. CASE DeleteMember(r)
  <2>1. org' = org
    BY <1>3 DEF DeleteMember
  <2>2. CASE ~RowStands(r)
    BY <1>3, <2>1, <2>2 DEF DeleteMember, IsMember, RoleIn
  <2>3. CASE RowStands(r)
    <3>1. /\ request[r].user \in Users /\ request[r].org \in Orgs
          /\ IsMember(request[r].user, request[r].org)
      BY <2>3 DEF RowStands
    <3>2. member' = [member EXCEPT ![request[r].user][request[r].org] = NoRow]
      BY <1>3, <2>3 DEF DeleteMember
    <3>3. \A v \in Users : v # request[r].user \/ o # request[r].org =>
                             member'[v][o] = member[v][o]
      BY <3>1, <3>2, NoRowTyped, CellSet
    <3> QED
      BY <2>1, <3>1, <3>3 DEF IsMember, RoleIn
  <2> QED
    BY <2>2, <2>3
<1>4. CASE EraseAccount(r)
  <2>1. CASE UNCHANGED <<org, member>>
    BY <2>1 DEF IsMember, RoleIn
  <2>2. CASE ~UNCHANGED <<org, member>>
    <3>1. /\ org' = [p \in Orgs |-> IF p \in request[r].lost THEN "gone" ELSE org[p]]
          /\ member' = [v \in Users |-> [p \in Orgs |->
               IF v = request[r].user \/ p \in request[r].lost THEN NoRow ELSE member[v][p]]]
      BY <1>4, <2>2 DEF EraseAccount
    <3>2. \A v \in Users : member'[v][o] # NoRow =>
                             o \notin request[r].lost /\ member'[v][o] = member[v][o]
      BY <3>1
    <3>3. \A v \in Users : IsMember(v, o)' => member'[v][o] # NoRow
      BY DEF IsMember, RoleIn, NoRow
    <3> QED
      BY <3>1, <3>2, <3>3 DEF IsMember, RoleIn
  <2> QED
    BY <2>1, <2>2
<1> QED
  BY <1>1, <1>2, <1>3, <1>4 DEF Follows

(* What is joined: an organization just created, or one that exists *)
LEMMA JoinGrows ==
  ASSUME TypeOK, NEW u \in Users, Signup(u) \/ CreateOrganization(u) \/ Join(u)
  PROVE  /\ UNCHANGED <<request, demoted>>
         /\ \E p \in Orgs, role \in Roles :
              /\ RoleIn(u, p)' = role /\ org'[p] = "live" /\ org[p] # "gone"
              /\ \/ org[p] = "new" /\ role = "Owner"
                 \/ org[p] = "live" /\ role # "Owner" /\ ~IsMember(u, p)
              /\ \A o \in Orgs : o # p => org'[o] = org[o]
              /\ \A v \in Users, o \in Orgs :
                   v # u \/ o # p => member'[v][o] = member[v][o]
<1>1. CASE Signup(u) \/ CreateOrganization(u)
  <2>1. PICK p \in Orgs : /\ org[p] = "new" /\ org' = [org EXCEPT ![p] = "live"]
                          /\ Insert(u, p, "Owner")
    BY <1>1 DEF Signup, CreateOrganization
  <2>2. RoleIn(u, p)' = "Owner" /\ "Owner" \in Roles
    BY <2>1, InsertTyped DEF Roles
  <2>3. \A v \in Users, o \in Orgs : v # u \/ o # p => member'[v][o] = member[v][o]
    BY <2>1, InsertTyped DEF Roles
  <2>4. org'[p] = "live" /\ \A o \in Orgs : o # p => org'[o] = org[o]
    BY <2>1 DEF TypeOK
  <2> QED
    BY <1>1, <2>1, <2>2, <2>3, <2>4 DEF Signup, CreateOrganization, history
<1>2. CASE Join(u)
  <2>1. PICK p \in Orgs, role \in Roles \ {"Owner"} :
          org[p] = "live" /\ ~IsMember(u, p) /\ Insert(u, p, role)
    BY <1>2 DEF Join
  <2>2. /\ RoleIn(u, p)' = role
        /\ \A v \in Users, o \in Orgs : v # u \/ o # p => member'[v][o] = member[v][o]
    BY <2>1, InsertTyped
  <2>3. org' = org /\ UNCHANGED <<request, demoted>>
    BY <1>2 DEF Join, history
  <2> QED
    BY <2>1, <2>2, <2>3
<1> QED
  BY <1>1, <1>2

LEMMA KnownStep ==
  ASSUME TypeOK, Known, Act
  PROVE  Known'
<1>1. ASSUME NEW u \in Users, Signup(u) \/ CreateOrganization(u) \/ Join(u)
      PROVE  Known'
  <2>1. request' = request
    BY <1>1, JoinGrows
  <2>2. PICK p \in Orgs : /\ org'[p] = "live"
                          /\ \A o \in Orgs : o # p => org'[o] = org[o]
                          /\ \A v \in Users, o \in Orgs :
                               v # u \/ o # p => member'[v][o] = member[v][o]
    BY <1>1, JoinGrows
  <2> QED
    BY <2>1, <2>2 DEF Known, IsMember, RoleIn
<1>2. ASSUME NEW r \in Requests, Starts(r)
      PROVE  Known'
  <2>1. /\ UNCHANGED <<org, member>>
        /\ \A q \in Requests : q # r => request'[q] = request[q]
        /\ \A o \in Orgs : o = request'[r].org \/ o \in request'[r].lost =>
             \E u \in Users : IsMember(u, o)
    BY <1>2, StartAbout
  <2> QED
    BY <2>1 DEF Known, IsMember, RoleIn
<1>3. ASSUME NEW r \in Requests, Follows(r)
      PROVE  Known'
  <2>1. /\ \A q \in Requests : q # r => request'[q] = request[q]
        /\ request'[r] = Idle \/ Onward(r)
    BY <1>3, FollowRequests
  <2>2. \A o \in Orgs : o = request'[r].org \/ o \in request'[r].lost =>
                          o = request[r].org \/ o \in request[r].lost
    BY <2>1, NoneIsNothing DEF Idle, Onward
  <2>3. \A o \in Orgs :
          /\ org'[o] = org[o] \/ org'[o] = "gone"
          /\ \A v \in Users : IsMember(v, o)' => IsMember(v, o) /\ org'[o] = org[o]
    BY <1>3, FollowShrinks
  <2> QED
    BY <2>1, <2>2, <2>3 DEF Known
<1> QED
  BY <1>1, <1>2, <1>3 DEF Act, Proceed, Starts, Follows

-----------------------------------------------------------------------------
(* Owners *)

(* Nobody becomes or ceases to be an Owner of o *)
OwnersSame(o) ==
  \A v \in Users : RoleIn(v, o) = "Owner" \/ RoleIn(v, o)' = "Owner" =>
                     member'[v][o] = member[v][o]

LEMMA SparesKept ==
  ASSUME TypeOK, NEW q \in Requests, NEW o \in Orgs, request'[q] = request[q],
         OwnersSame(o), Spares(q, o)
  PROVE  Spares(q, o)'
<1>1. \A v \in Users : RoleIn(v, o)' = "Owner" <=> RoleIn(v, o) = "Owner"
  BY DEF OwnersSame, RoleIn
<1>2. \A v \in Users : HasOther(v, o) => HasOther(v, o)'
  BY <1>1 DEF HasOther
<1>3. Takes(q, o)' => Takes(q, o)
  <2>1. SUFFICES ASSUME Takes(q, o)' PROVE Takes(q, o)
    OBVIOUS
  <2>2. /\ request[q].pc \in {"remaining", "write"} /\ request[q].org = o
        /\ request[q].user \in Users
        /\ RoleIn(request[q].user, o)' = "Owner"
        /\ member'[request[q].user][o].at = request[q].at
    BY <2>1 DEF Takes, RowStands, RoleIn
  <2>3. member'[request[q].user][o] = member[request[q].user][o]
    BY <2>2 DEF OwnersSame
  <2> QED
    BY <2>2, <2>3, <1>1, NoneIsNothing DEF Takes, RowStands, IsMember, RoleIn, Roles
<1>4. Takes(q, o) => request[q].user \in Users
  BY DEF Takes, RowStands
<1>5. Forsakes(q, o)' => Forsakes(q, o) /\ request[q].user \in Users
  BY <1>1 DEF Forsakes, TypeOK
<1> QED
  BY <1>2, <1>3, <1>4, <1>5 DEF Spares

(* A request spares what it is not bound for. *)
LEMMA UnboundSpares ==
  ASSUME NEW q \in Requests, NEW o \in Orgs, o \notin Bound(q)'
  PROVE  Spares(q, o)'
<1>1. ~Takes(q, o)'
  BY DEF Bound, Takes
<1>2. ~Forsakes(q, o)'
  BY NoneIsNothing DEF Bound, Forsakes, OrgsOf, IsMember, Roles
<1> QED
  BY <1>1, <1>2 DEF Spares

LEMMA OwnersSafe ==
  ASSUME TypeOK, NEW o \in Orgs, Safe(o), OwnersSame(o),
         org'[o] = "live" => org[o] = "live",
         \A q \in Requests : request'[q] = request[q] \/ Spares(q, o)'
  PROVE  Safe(o)'
<1>1. \A q \in Requests : Spares(q, o)'
  BY SparesKept DEF Safe
<1>2. HasOwner(o) => HasOwner(o)'
  BY DEF OwnersSame, HasOwner, Owners, RoleIn
<1> QED
  BY <1>1, <1>2 DEF Safe

(* The only request bound for o writes its members: no other is bound for  *)
(* it afterwards.                                                          *)
LEMMA AloneSpares ==
  ASSUME Apart, NEW r \in Requests, NEW o \in Orgs, o \in Bound(r), o \notin overlapped,
         NEW q \in Requests, q # r, request'[q] = request[q],
         \A v \in Users : IsMember(v, o)' => IsMember(v, o),
         request[q].pc # "idle" => request[q].user \in Users
  PROVE  Spares(q, o)'
<1>1. o \notin Bound(q)
  BY DEF Apart
<1>2. o \notin Bound(q)'
  BY <1>1 DEF Bound, OrgsOf
<1> QED
  BY <1>2, UnboundSpares

LEMMA SafeJoin ==
  ASSUME TypeOK, Known, NEW o \in Orgs, o \notin overlapped', Safe(o), Watch,
         NEW u \in Users, Signup(u) \/ CreateOrganization(u) \/ Join(u)
  PROVE  Safe(o)'
<1>1. request' = request
  BY JoinGrows
<1>2. PICK p \in Orgs, role \in Roles :
        /\ RoleIn(u, p)' = role /\ org'[p] = "live"
        /\ \/ org[p] = "new" /\ role = "Owner"
           \/ org[p] = "live" /\ role # "Owner" /\ ~IsMember(u, p)
        /\ \A x \in Orgs : x # p => org'[x] = org[x]
        /\ \A v \in Users, x \in Orgs : v # u \/ x # p => member'[v][x] = member[v][x]
  BY JoinGrows
<1>3. CASE o # p
  BY <1>1, <1>2, <1>3, OwnersSafe DEF OwnersSame
<1>4. CASE o = p /\ org[p] = "live"
  <2>1. role # "Owner" /\ ~IsMember(u, p)
    BY <1>2, <1>4
  <2>2. OwnersSame(o)
    BY <1>2, <1>4, <2>1, NoneIsNothing DEF OwnersSame, IsMember, Roles
  <2> QED
    BY <1>1, <1>4, <2>2, OwnersSafe
<1>5. CASE o = p /\ org[p] = "new"
  <2>1. HasOwner(o)'
    BY <1>2, <1>5 DEF HasOwner, Owners
  <2>2. ASSUME NEW q \in Requests PROVE Spares(q, o)'
    <3>1. o # request[q].org /\ o \notin request[q].lost
      BY <1>5 DEF Known
    <3>2. \A v \in Users : ~IsMember(v, o)
      BY <1>5 DEF Known
    <3>3. o \notin Bound(q)
      <4>1. request[q].pc = "erase" => request[q].user \in Users
        BY DEF TypeOK
      <4> QED
        BY <3>1, <3>2, <4>1 DEF Bound, OrgsOf
    <3>4. o \in Bound(q)' => request[q].pc = "erase"
      BY <1>1, <3>1 DEF Bound
    <3>5. o \notin Bound(q)'
      BY <3>3, <3>4 DEF Watch
    <3> QED
      BY <3>5, UnboundSpares
  <2> QED
    BY <2>1, <2>2 DEF Safe
<1> QED
  BY <1>2, <1>3, <1>4, <1>5

(* The reads a request starts with leave every Owner another one, or find  *)
(* none to take, or ask for a count.                                       *)
LEMMA StartSpares ==
  ASSUME TypeOK, NEW r \in Requests, Starts(r), NEW o \in Orgs
  PROVE  Spares(r, o)'
<1>1. UNCHANGED <<org, member>>
  BY StartAbout
<1>2. ASSUME NEW u \in Users, NEW p \in Orgs, NEW x \in Request, x.user = u, x.org = p,
             x.pc \in {"count", "remaining", "write", "move"},
             \/ x.pc \in {"count", "move"}
             \/ x.op = "admin" /\ x.was = RoleIn(u, p)
             \/ RoleIn(u, p) # "Owner",
             Begin(r, x)
      PROVE  Spares(r, o)'
  <2>1. request'[r] = x
    BY <1>2 DEF Begin, Step, TypeOK
  <2>2. ~Forsakes(r, o)'
    BY <1>2, <2>1 DEF Forsakes
  <2>3. Takes(r, o)' => x.op = "admin" /\ x.was = "Owner"
    BY <1>1, <1>2, <2>1 DEF Takes, RoleIn
  <2> QED
    BY <2>1, <2>2, <2>3 DEF Spares
<1>3. CASE UpdateMemberRole(r)
  <2>1. PICK t \in Users, p \in Orgs, to \in Roles :
          Begin(r, [About("role", t, p, CheckedPc(t, p, "write")) EXCEPT !.role = to])
    BY <1>3 DEF UpdateMemberRole
  <2>2. LET x == About("role", t, p, CheckedPc(t, p, "write")) IN
        /\ x \in Request /\ x.org = p /\ x.user = t /\ x.pc \in {"count", "write"}
        /\ x.pc = "count" \/ RoleIn(t, p) # "Owner"
    <3>1. CheckedPc(t, p, "write") \in {"count", "remaining", "write", "move"}
      BY CheckedPcIs
    <3>2. /\ CheckedPc(t, p, "write") \in {"count", "write"}
          /\ CheckedPc(t, p, "write") = "count" \/ RoleIn(t, p) # "Owner"
      BY DEF CheckedPc
    <3> QED
      BY <3>1, <3>2, AboutTyped
  <2> DEFINE y == [About("role", t, p, CheckedPc(t, p, "write")) EXCEPT !.role = to]
  <2>3. /\ y \in Request /\ y.org = p /\ y.user = t /\ y.pc \in {"count", "write"}
        /\ y.pc = "count" \/ RoleIn(t, p) # "Owner"
    BY <2>2 DEF Request
  <2> HIDE DEF y
  <2>4. Begin(r, y)
    BY <2>1 DEF y
  <2> QED
    BY <1>2, <2>3, <2>4
<1>4. CASE UpdateUserRole(r)
  <2>1. PICK t \in Users, p \in Orgs, to \in Roles :
          Begin(r, [About("admin", t, p, "write") EXCEPT !.role = to])
    BY <1>4 DEF UpdateUserRole
  <2>2. LET x == About("admin", t, p, "write") IN
        /\ x \in Request /\ x.org = p /\ x.user = t /\ x.pc = "write"
        /\ x.op = "admin" /\ x.was = RoleIn(t, p)
    BY AboutTyped
  <2> DEFINE y == [About("admin", t, p, "write") EXCEPT !.role = to]
  <2>3. /\ y \in Request /\ y.org = p /\ y.user = t /\ y.pc = "write"
        /\ y.op = "admin" /\ y.was = RoleIn(t, p)
    BY <2>2 DEF Request
  <2> HIDE DEF y
  <2>4. Begin(r, y)
    BY <2>1 DEF y
  <2> QED
    BY <1>2, <2>3, <2>4
<1>5. CASE RemoveMember(r) \/ LeaveOrganization(r)
  <2>1. PICK t \in Users, p \in Orgs, op \in {"remove", "leave"},
             pc \in {"write", "remaining"} : Begin(r, About(op, t, p, CheckedPc(t, p, pc)))
    BY <1>5 DEF RemoveMember, LeaveOrganization
  <2>2. CheckedPc(t, p, pc) \in {"count", "remaining", "write", "move"}
    BY CheckedPcIs
  <2>3. CheckedPc(t, p, pc) = "count" \/ RoleIn(t, p) # "Owner"
    BY DEF CheckedPc
  <2> QED
    BY <1>2, <2>1, <2>2, <2>3, AboutTyped
<1>6. CASE SwitchOrganization(r)
  <2>1. PICK t \in Users, p \in Orgs :
          Begin(r, [About("switch", t, p, "move") EXCEPT !.next = p])
    BY <1>6 DEF SwitchOrganization
  <2>2. LET x == About("switch", t, p, "move") IN
        x \in Request /\ x.org = p /\ x.user = t /\ x.pc = "move"
    BY AboutTyped
  <2> DEFINE y == [About("switch", t, p, "move") EXCEPT !.next = p]
  <2>3. y \in Request /\ y.org = p /\ y.user = t /\ y.pc = "move"
    BY <2>2 DEF Request
  <2> HIDE DEF y
  <2>4. Begin(r, y)
    BY <2>1 DEF y
  <2> QED
    BY <1>2, <2>3, <2>4
<1>7. CASE DeleteAccount(r)
  <2>1. PICK u \in Users :
          Begin(r, [Idle EXCEPT !.pc = "erase", !.op = "delete", !.user = u,
                                !.lost = SoleOwned(u)])
    BY <1>7 DEF DeleteAccount
  <2>2. request'[r].pc = "erase" /\ request'[r].user = u /\ request'[r].lost = SoleOwned(u)
    BY <2>1 DEF Begin, Step, Idle, TypeOK
  <2>3. o \notin SoleOwned(u) /\ RoleIn(u, o) = "Owner" => HasOther(u, o)
    <3>1. RoleIn(u, o) = "Owner" => o \in OrgsOf(u)
      BY NoneIsNothing DEF OrgsOf, IsMember, Roles
    <3> QED
      BY <3>1 DEF SoleOwned, Owners, HasOther
  <2>4. Forsakes(r, o)' => HasOther(u, o)'
    BY <1>1, <2>2, <2>3 DEF Forsakes, RoleIn, HasOther
  <2> QED
    BY <2>2, <2>4 DEF Spares, Takes
<1> QED
  BY <1>3, <1>4, <1>5, <1>6, <1>7 DEF Starts

LEMMA SafeStart ==
  ASSUME TypeOK, NEW o \in Orgs, Safe(o), NEW r \in Requests, Starts(r)
  PROVE  Safe(o)'
<1>1. /\ UNCHANGED <<org, member>>
      /\ \A q \in Requests : q # r => request'[q] = request[q]
  BY StartAbout
<1> QED
  BY <1>1, StartSpares, OwnersSafe DEF OwnersSame

(* More than one Owner: another one than u *)
LEMMA CountedOther ==
  ASSUME NEW u \in Users, NEW o \in Orgs, Cardinality(Owners(o)) > 1
  PROVE  HasOther(u, o)
<1>1. SUFFICES ASSUME ~HasOther(u, o) PROVE FALSE
  OBVIOUS
<1>2. Owners(o) = {} \/ Owners(o) = {u}
  BY <1>1 DEF Owners, HasOther
<1>3. Cardinality({}) = 0 /\ Cardinality({u}) = 1
  BY FS_EmptySet, FS_Singleton
<1> QED
  BY <1>2, <1>3

(* A request that goes on without writing memberships *)
LEMMA SafeCalm ==
  ASSUME TypeOK, NEW o \in Orgs, Safe(o), NEW r \in Requests, Follows(r),
         UNCHANGED <<org, member>>, ~CountOwners(r) \/ request'[r] = Idle
  PROVE  Safe(o)'
<1>1. /\ \A q \in Requests : q # r => request'[q] = request[q]
      /\ request'[r] = Idle \/ Onward(r)
  BY FollowRequests
<1>2. Spares(r, o)'
  <2>1. CASE request'[r] = Idle
    BY <2>1 DEF Idle, Spares, Takes, Forsakes
  <2>2. CASE Onward(r) /\ request'[r].pc \in {"home", "fallback", "move"}
    BY <2>2 DEF Spares, Takes, Forsakes
  <2>3. CASE CountOrgs(r) /\ Onward(r) /\ request'[r].pc \in {"remaining", "write"}
    <3>1. request[r].pc = "remaining"
      BY <2>3 DEF CountOrgs
    <3>2. Takes(r, o)' => Takes(r, o)
      BY <2>3, <3>1 DEF Takes, Onward, RowStands, IsMember, RoleIn
    <3>3. /\ request'[r].op = request[r].op /\ request'[r].was = request[r].was
          /\ request'[r].user = request[r].user
      BY <2>3 DEF Onward
    <3>4. ~Forsakes(r, o)'
      BY <2>3 DEF Forsakes
    <3> QED
      BY <3>2, <3>3, <3>4 DEF Safe, Spares, HasOther, RoleIn
  <2>4. CASE Onward(r) /\ request'[r].pc \in {"remaining", "write"} /\ ~CountOrgs(r)
    <3>1. request[r].pc \in {"count", "remaining"}
      BY <2>4 DEF Onward
    <3> QED
      BY <2>1, <2>4, <3>1 DEF Follows, WriteRole, DeleteMember, CheckHome, Fallback, MoveUser,
                              EraseAccount, Crash, Done, Step, TypeOK
  <2> QED
    BY <1>1, <2>1, <2>2, <2>3, <2>4 DEF Onward
<1> QED
  BY <1>1, <1>2, OwnersSafe DEF OwnersSame

LEMMA SafeCount ==
  ASSUME TypeOK, NEW o \in Orgs, Safe(o), NEW r \in Requests, CountOwners(r)
  PROVE  Safe(o)'
<1>1. UNCHANGED <<org, member>> /\ request[r].pc = "count"
  BY DEF CountOwners
<1>2. /\ \A q \in Requests : q # r => request'[q] = request[q]
      /\ request'[r] = Idle \/ Onward(r)
  BY FollowRequests DEF Follows
<1>3. request[r].user \in Users
  BY <1>1 DEF TypeOK
<1>4. Spares(r, o)'
  <2>1. CASE request'[r] = Idle
    BY <2>1 DEF Idle, Spares, Takes, Forsakes
  <2>2. CASE Onward(r) /\ request'[r] # Idle
    <3>1. Cardinality(Owners(request[r].org)) > 1
      <4>1. Done(r) => request'[r] = Idle
        BY DoneTyped
      <4> QED
        BY <2>2, <4>1 DEF CountOwners
    <3>2. /\ request'[r].user = request[r].user /\ request'[r].org = request[r].org
          /\ request'[r].pc # "erase"
      BY <2>2 DEF Onward
    <3>3. o = request[r].org => HasOther(request[r].user, o)
      BY <1>3, <3>1, CountedOther
    <3> QED
      BY <1>1, <3>2, <3>3 DEF Spares, Takes, Forsakes, HasOther, RoleIn
  <2> QED
    BY <1>2, <2>1, <2>2
<1> QED
  BY <1>1, <1>2, <1>4, OwnersSafe DEF OwnersSame

LEMMA SafeWriteRole ==
  ASSUME TypeOK, Apart, NEW o \in Orgs, o \notin Excused', o \notin Excused, Safe(o),
         NEW r \in Requests, WriteRole(r)
  PROVE  Safe(o)'
<1>1. /\ \A q \in Requests : q # r => request'[q] = request[q]
      /\ request'[r] = Idle
  BY DoneTyped DEF WriteRole
<1>2. Spares(r, o)'
  BY <1>1 DEF Idle, Spares, Takes, Forsakes
<1>3. org' = org
  BY DEF WriteRole
<1>4. CASE ~RowStands(r)
  BY <1>1, <1>2, <1>3, <1>4, OwnersSafe DEF WriteRole, OwnersSame
<1>5. CASE RowStands(r)
  <2>1. PICK u \in Users, p \in Orgs :
          u = request[r].user /\ p = request[r].org /\ IsMember(u, p)
    BY <1>5 DEF RowStands
  <2>2. [member[u][p] EXCEPT !.role = request[r].role] \in Row
    <3>1. member[u][p] \in Row /\ request[r].role \in Roles \cup {None}
      BY <2>1, RowTyped DEF TypeOK, Request
    <3> QED
      BY <3>1 DEF Row
  <2>3. PICK row \in Row : /\ row = [member[u][p] EXCEPT !.role = request[r].role]
                           /\ row.role = request[r].role
    <3>1. member[u][p] \in Row
      BY RowTyped
    <3> QED
      BY <2>2, <3>1 DEF Row
  <2>3a. member' = [member EXCEPT ![u][p] = row]
    BY <1>5, <2>1, <2>3 DEF WriteRole
  <2>4. /\ member'[u][p] = row
        /\ \A v \in Users, x \in Orgs : v # u \/ x # p => member'[v][x] = member[v][x]
    BY <2>1, <2>3a DEF TypeOK
  <2>5. CASE o # p
    BY <1>1, <1>2, <1>3, <2>4, <2>5, OwnersSafe DEF OwnersSame
  <2>6. CASE o = p
    <3>1. o \in Bound(r)
      BY <2>1, <2>6 DEF Bound, WriteRole
    <3>2. \A v \in Users : IsMember(v, o)' => IsMember(v, o)
      BY <2>1, <2>4, <2>6 DEF IsMember, RoleIn
    <3>3. ASSUME NEW q \in Requests PROVE Spares(q, o)'
      <4>1. request[q].pc # "idle" => request[q].user \in Users
        BY DEF TypeOK
      <4> QED
        BY <1>1, <1>2, <3>1, <3>2, <4>1, AloneSpares DEF Excused
    <3>4. org[o] = "live" => HasOwner(o)'
      <4>1. SUFFICES ASSUME org[o] = "live" PROVE HasOwner(o)'
        OBVIOUS
      <4>2. PICK v \in Users : RoleIn(v, o) = "Owner"
        BY <4>1 DEF Safe, HasOwner, Owners
      <4>3. CASE v # u \/ request[r].role = "Owner"
        <5>1. RoleIn(v, o)' = "Owner"
          BY <2>3, <2>4, <2>6, <4>2, <4>3 DEF RoleIn
        <5> QED
          BY <5>1 DEF HasOwner, Owners
      <4>4. CASE v = u /\ request[r].role # "Owner"
        <5>1. Takes(r, o)
          BY <1>5, <2>1, <2>6, <4>2, <4>4 DEF Takes, WriteRole
        <5>2. ~(request[r].op = "admin" /\ request[r].was = "Owner")
          <6>1. SUFFICES ASSUME request[r].op = "admin", request[r].was = "Owner" PROVE FALSE
            OBVIOUS
          <6>2. demoted' = demoted \cup {p}
            BY <1>5, <2>1, <4>4, <6>1 DEF WriteRole
          <6> QED
            BY <2>6, <6>2 DEF Excused
        <5>3. PICK w \in Users \ {u} : RoleIn(w, o) = "Owner"
          BY <2>1, <5>1, <5>2 DEF Safe, Spares, HasOther
        <5>4. RoleIn(w, o)' = "Owner"
          BY <2>4, <5>3, <2>6 DEF RoleIn
        <5> QED
          BY <5>4 DEF HasOwner, Owners
      <4> QED
        BY <4>3, <4>4
    <3> QED
      BY <1>3, <3>3, <3>4 DEF Safe
  <2> QED
    BY <2>5, <2>6
<1> QED
  BY <1>4, <1>5

LEMMA SafeDeleteMember ==
  ASSUME TypeOK, Apart, NEW o \in Orgs, o \notin Excused, Safe(o),
         NEW r \in Requests, DeleteMember(r)
  PROVE  Safe(o)'
<1>1. /\ \A q \in Requests : q # r => request'[q] = request[q]
      /\ request'[r] = Idle \/ Onward(r)
  BY FollowRequests DEF Follows
<1>2. Spares(r, o)'
  <2>1. request[r].pc = "write"
    BY DEF DeleteMember
  <2> QED
    BY <1>1, <2>1 DEF Idle, Onward, Spares, Takes, Forsakes
<1>3. org' = org
  BY DEF DeleteMember
<1>4. CASE ~RowStands(r)
  BY <1>1, <1>2, <1>3, <1>4, OwnersSafe DEF DeleteMember, OwnersSame
<1>5. CASE RowStands(r)
  <2>1. PICK u \in Users, p \in Orgs : u = request[r].user /\ p = request[r].org
    BY <1>5 DEF RowStands
  <2>2. PICK row \in Row : /\ row = NoRow /\ row.role = None
                           /\ member' = [member EXCEPT ![u][p] = row]
    BY <1>5, <2>1, NoRowTyped DEF DeleteMember, NoRow
  <2>3. /\ member'[u][p] = row
        /\ \A v \in Users, x \in Orgs : v # u \/ x # p => member'[v][x] = member[v][x]
    BY <2>1, <2>2 DEF TypeOK
  <2>4. CASE o # p
    BY <1>1, <1>2, <1>3, <2>3, <2>4, OwnersSafe DEF OwnersSame
  <2>5. CASE o = p
    <3>1. o \in Bound(r)
      BY <2>1, <2>5 DEF Bound, DeleteMember
    <3>2. \A v \in Users : IsMember(v, o)' => IsMember(v, o)
      BY <2>2, <2>3, <2>5 DEF IsMember, RoleIn
    <3>3. ASSUME NEW q \in Requests PROVE Spares(q, o)'
      <4>1. request[q].pc # "idle" => request[q].user \in Users
        BY DEF TypeOK
      <4> QED
        BY <1>1, <1>2, <3>1, <3>2, <4>1, AloneSpares DEF Excused
    <3>4. org[o] = "live" => HasOwner(o)'
      <4>1. SUFFICES ASSUME org[o] = "live" PROVE HasOwner(o)'
        OBVIOUS
      <4>2. PICK v \in Users : RoleIn(v, o) = "Owner"
        BY <4>1 DEF Safe, HasOwner, Owners
      <4>3. \E w \in Users \ {u} : RoleIn(w, o) = "Owner"
        <5>1. CASE v = u
          <6>1. Takes(r, o) /\ request[r].op # "admin"
            BY <1>5, <2>1, <2>5, <4>2, <5>1 DEF Takes, DeleteMember
          <6> QED
            BY <2>1, <6>1 DEF Safe, Spares, HasOther
        <5> QED
          BY <4>2, <5>1
      <4>4. PICK w \in Users \ {u} : RoleIn(w, o)' = "Owner"
        BY <2>3, <4>3, <2>5 DEF RoleIn
      <4> QED
        BY <4>4 DEF HasOwner, Owners
    <3> QED
      BY <1>3, <3>3, <3>4 DEF Safe
  <2> QED
    BY <2>4, <2>5
<1> QED
  BY <1>4, <1>5

LEMMA SafeErase ==
  ASSUME TypeOK, Apart, NEW o \in Orgs, o \notin Excused, Safe(o),
         NEW r \in Requests, EraseAccount(r)
  PROVE  Safe(o)'
<1>1. /\ \A q \in Requests : q # r => request'[q] = request[q]
      /\ request'[r] = Idle
  BY DoneTyped DEF EraseAccount
<1>2. Spares(r, o)'
  BY <1>1 DEF Idle, Spares, Takes, Forsakes
<1>3. CASE UNCHANGED <<org, member>>
  BY <1>1, <1>2, <1>3, OwnersSafe DEF OwnersSame
<1>4. CASE ~UNCHANGED <<org, member>>
  <2>0. PICK u \in Users : u = request[r].user
    BY DEF EraseAccount, TypeOK
  <2>1. /\ org' = [p \in Orgs |-> IF p \in request[r].lost THEN "gone" ELSE org[p]]
        /\ member' = [v \in Users |-> [p \in Orgs |->
             IF v = u \/ p \in request[r].lost THEN NoRow ELSE member[v][p]]]
    BY <1>4, <2>0 DEF EraseAccount
  <2>2. request[r].pc = "erase"
    BY DEF EraseAccount
  <2>3. NoRow.role = None /\ None # "Owner"
    BY NoneIsNothing DEF NoRow, Roles
  <2>4. CASE o \in request[r].lost
    <3>1. org'[o] = "gone" /\ \A v \in Users : RoleIn(v, o)' = None
      BY <2>1, <2>3, <2>4 DEF RoleIn
    <3>2. \A q \in Requests : ~Takes(q, o)'
      BY <2>3, <3>1 DEF Takes, RowStands
    <3>3. ASSUME NEW q \in Requests PROVE ~Forsakes(q, o)'
      <4>1. request'[q].pc # "idle" => request'[q].user \in Users
        BY <1>1 DEF TypeOK, Idle
      <4> QED
        BY <2>3, <3>1, <4>1 DEF Forsakes
    <3> QED
      BY <3>1, <3>2, <3>3 DEF Safe, Spares
  <2>5. CASE o \notin request[r].lost
    <3>1. /\ org'[o] = org[o] /\ RoleIn(u, o)' = None
          /\ \A v \in Users \ {u} : member'[v][o] = member[v][o]
      BY <2>1, <2>2, <2>3, <2>5 DEF RoleIn
    <3>2. CASE RoleIn(u, o) # "Owner"
      <4>1. OwnersSame(o)
        BY <2>3, <3>1, <3>2 DEF OwnersSame
      <4> QED
        BY <1>1, <1>2, <3>1, <4>1, OwnersSafe
    <3>3. CASE RoleIn(u, o) = "Owner"
      <4>1. o \in Bound(r)
        BY <2>0, <2>2, <2>3, <3>3 DEF Bound, OrgsOf, IsMember
      <4>2. \A v \in Users : IsMember(v, o)' => IsMember(v, o)
        BY <3>1, <3>3 DEF IsMember, RoleIn
      <4>3. ASSUME NEW q \in Requests PROVE Spares(q, o)'
        <5>1. request[q].pc # "idle" => request[q].user \in Users
          BY DEF TypeOK
        <5> QED
          BY <1>1, <1>2, <4>1, <4>2, <5>1, AloneSpares DEF Excused
      <4>4. PICK w \in Users \ {u} : RoleIn(w, o) = "Owner"
        <5>1. Forsakes(r, o)
          BY <2>0, <2>2, <2>5, <3>3 DEF Forsakes
        <5> QED
          BY <2>0, <5>1 DEF Safe, Spares, HasOther
      <4>5. HasOwner(o)'
        BY <3>1, <4>4 DEF HasOwner, Owners, RoleIn
      <4> QED
        BY <4>3, <4>5 DEF Safe
    <3> QED
      BY <3>2, <3>3
  <2> QED
    BY <2>4, <2>5
<1> QED
  BY <1>3, <1>4

(* The histories only grow. *)
LEMMA ExcusedGrows ==
  ASSUME TypeOK, Next
  PROVE  Excused \subseteq Excused'
<1>1. overlapped \subseteq overlapped'
  BY DEF Next, Watch
<1>2. demoted \subseteq demoted'
  <2>1. ASSUME NEW u \in Users, Signup(u) \/ CreateOrganization(u) \/ Join(u)
        PROVE  demoted \subseteq demoted'
    BY <2>1, JoinGrows
  <2>2. ASSUME NEW r \in Requests, Starts(r)
        PROVE  demoted \subseteq demoted'
    BY <2>2, StartAbout
  <2>3. ASSUME NEW r \in Requests, WriteRole(r)
        PROVE  demoted \subseteq demoted'
    BY <2>3 DEF WriteRole
  <2>4. ASSUME NEW r \in Requests, Follows(r), ~WriteRole(r)
        PROVE  demoted \subseteq demoted'
    BY <2>4 DEF Follows, CountOwners, CountOrgs, DeleteMember, CheckHome, Fallback,
                MoveUser, EraseAccount, Crash, history
  <2> QED
    BY <2>1, <2>2, <2>3, <2>4 DEF Next, Act, Proceed, Starts, Follows
<1> QED
  BY <1>1, <1>2 DEF Excused

LEMMA GuardedStep ==
  ASSUME TypeOK, Known, Apart, Guarded, Next
  PROVE  Guarded'
<1> SUFFICES ASSUME NEW o \in Orgs, o \notin Excused'
             PROVE  Safe(o)'
  BY DEF Guarded
<1>1. o \notin Excused /\ Safe(o)
  BY ExcusedGrows DEF Guarded
<1>2. o \notin overlapped' /\ Watch
  BY DEF Excused, Next
<1>3. ASSUME NEW u \in Users, Signup(u) \/ CreateOrganization(u) \/ Join(u)
      PROVE  Safe(o)'
  BY <1>1, <1>2, <1>3, SafeJoin
<1>4. ASSUME NEW r \in Requests, Starts(r)
      PROVE  Safe(o)'
  BY <1>1, <1>4, SafeStart
<1>5. ASSUME NEW r \in Requests, Follows(r)
      PROVE  Safe(o)'
  <2>1. CASE CountOwners(r)
    BY <1>1, <2>1, SafeCount
  <2>2. CASE WriteRole(r)
    BY <1>1, <2>2, SafeWriteRole
  <2>3. CASE DeleteMember(r)
    BY <1>1, <2>3, SafeDeleteMember
  <2>4. CASE EraseAccount(r)
    BY <1>1, <2>4, SafeErase
  <2>5. CASE /\ CountOrgs(r) \/ CheckHome(r) \/ Fallback(r) \/ MoveUser(r) \/ Crash(r)
             /\ ~CountOwners(r)
    <3>1. UNCHANGED <<org, member>>
      BY <2>5 DEF CountOrgs, CheckHome, Fallback, MoveUser, Crash
    <3> QED
      BY <1>1, <1>5, <2>5, <3>1, SafeCalm
  <2> QED
    BY <1>5, <2>1, <2>2, <2>3, <2>4, <2>5 DEF Follows
<1> QED
  BY <1>3, <1>4, <1>5 DEF Next, Act, Proceed, Starts, Follows

-----------------------------------------------------------------------------
(* The invariant *)

LEMMA InitIInv ==
  ASSUME Init
  PROVE  IInv
<1>1. \A r \in Requests : request[r] = Idle
  BY DEF Init
<1>2. \A u \in Users, o \in Orgs : ~IsMember(u, o)
  BY DEF Init, IsMember, RoleIn, NoRow
<1>3. TypeOK
  BY BoundAssumption, IdleTyped, NoRowTyped DEF Init, TypeOK
<1>4. Known
  BY <1>1, <1>2, NoneIsNothing DEF Known, Idle
<1>5. Apart
  BY <1>1 DEF Apart, Bound, Idle
<1>6. Guarded
  BY <1>1 DEF Init, Guarded, Safe, Spares, Takes, Forsakes, Idle
<1> QED
  BY <1>3, <1>4, <1>5, <1>6 DEF IInv

LEMMA NextIInv ==
  ASSUME IInv, [Next]_vars
  PROVE  IInv'
<1>1. CASE Next
  BY <1>1, TypeStep, KnownStep, ApartStep, GuardedStep DEF IInv, Next
<1>2. CASE UNCHANGED vars
  <2>1. TypeOK'
    BY TypeStep DEF IInv
  <2> QED
    BY <1>2, <2>1 DEF IInv, vars, history, Known, Apart, Guarded, Excused, Safe, Spares, Takes,
       Forsakes, HasOther, HasOwner, Owners, RowStands, IsMember, RoleIn, Bound, OrgsOf
<1> QED
  BY <1>1, <1>2

THEOREM Invariance == Spec => []IInv
<1>1. Init => IInv
  BY InitIInv
<1>2. IInv /\ [Next]_vars => IInv'
  BY NextIInv
<1> QED
  BY <1>1, <1>2, PTL DEF Spec

(* The tables and the requests in flight keep their types. *)
THEOREM TypeCorrect == Spec => []TypeOK
<1>1. IInv => TypeOK
  BY DEF IInv
<1> QED
  BY <1>1, Invariance, PTL

(* Every live organization keeps an Owner, whatever members, administrators *)
(* and departing accounts do, unless the admin route downgraded one or two  *)
(* requests overlapped in the organization.                                 *)
THEOREM OwnersRemain == Spec => []OwnerKept
<1>1. IInv => OwnerKept
  BY DEF IInv, Guarded, Safe, Excused, OwnerKept
<1> QED
  BY <1>1, Invariance, PTL

-----------------------------------------------------------------------------
(* Logging in: whoever has an organization can log in, and nobody leaves   *)
(* the last one.                                                           *)

(* Two requests on one user have been noticed. *)
Noticed ==
  \A r, q \in Requests :
    r # q /\ request[r].user = request[q].user /\ request[r].user \in Users =>
      request[r].user \in crossed

(* Members and users that requests are about have signed up; a request that *)
(* is to write a role has one.                                              *)
Working(r) == request[r].pc # "idle"
People ==
  /\ \A u \in Users, o \in Orgs : IsMember(u, o) => account[u] = "live"
  /\ \A r \in Requests :
       /\ Working(r) => account[request[r].user] # "new"
       /\ Working(r) /\ request[r].op \in {"role", "admin"} => request[r].role \in Roles

(* The active organization is one of the user's *)
Settled(u) == OrgsOf(u) # {} => active[u] \in OrgsOf(u)

(* Nothing overlapped in u's account *)
Serial(u) == u \notin crossed \cup broken /\ account[u] = "live"

(* What is true of the user while a request on the user is at each step *)
Duty(r) ==
  LET q == request[r]
      u == q.user IN
  /\ q.pc \in {"count", "remaining", "write", "erase"} => Settled(u)
  /\ q.pc \in {"count", "remaining", "write"} => q.home = active[u]
  /\ q.pc = "home" => Settled(u) \/ active[u] = q.org
  /\ q.pc = "fallback" => active[u] = q.org
  /\ q.pc = "move" => q.next \in OrgsOf(u)
  /\ q.pc = "write" /\ q.op = "leave" /\ u \notin evicted => OrgsOf(u) \ {q.org} # {}

Homed(u) ==
  Serial(u) => /\ Busy(u) \/ Settled(u)
               /\ u \notin evicted => OrgsOf(u) # {}
               /\ \A r \in Requests : request[r].user = u /\ Working(r) => Duty(r)

HInv == IInv /\ Noticed /\ People /\ \A u \in Users : Homed(u)

-----------------------------------------------------------------------------
(* What happens to the others *)

(* Nothing happens to u but memberships and requests of others *)
Untouched(u) ==
  /\ account'[u] = account[u] /\ active'[u] = active[u]
  /\ \A o \in Orgs : IsMember(u, o)' <=> IsMember(u, o)

LEMMA UntouchedSame ==
  ASSUME NEW u, Untouched(u)
  PROVE  OrgsOf(u)' = OrgsOf(u) /\ (Settled(u)' <=> Settled(u))
BY DEF Untouched, OrgsOf, Settled

(* The histories grow. *)
LEMMA HistoriesGrow ==
  ASSUME TypeOK, Next
  PROVE  crossed \subseteq crossed' /\ broken \subseteq broken' /\ evicted \subseteq evicted'
<1>1. crossed \subseteq crossed'
  BY DEF Next, Watch
<1>2. ASSUME NEW u \in Users, Signup(u) \/ CreateOrganization(u) \/ Join(u)
      PROVE  broken \subseteq broken' /\ evicted \subseteq evicted'
  BY <1>2 DEF Signup, CreateOrganization, Join, history
<1>3. ASSUME NEW r \in Requests, Starts(r)
      PROVE  broken \subseteq broken' /\ evicted \subseteq evicted'
  BY <1>3 DEF Starts, UpdateMemberRole, UpdateUserRole, RemoveMember, LeaveOrganization,
              SwitchOrganization, DeleteAccount, Begin, history
<1>4. ASSUME NEW r \in Requests, Follows(r)
      PROVE  broken \subseteq broken' /\ evicted \subseteq evicted'
  BY <1>4 DEF Follows, CountOwners, CountOrgs, WriteRole, DeleteMember, CheckHome, Fallback,
              MoveUser, EraseAccount, Crash, history
<1> QED
  BY <1>1, <1>2, <1>3, <1>4 DEF Next, Act, Proceed, Starts, Follows

LEMMA NoticedStep == ASSUME TypeOK', Watch PROVE Noticed'
BY DEF Watch, Noticed

(* Untouched users keep what they have, if their requests stay. *)
LEMMA UntouchedHomed ==
  ASSUME TypeOK, Next, NEW u \in Users, Homed(u), Untouched(u),
         \A r \in Requests : request[r].user = u \/ request'[r].user = u => request'[r] = request[r]
  PROVE  Homed(u)'
<1> SUFFICES ASSUME Serial(u)'
             PROVE  /\ Busy(u)' \/ Settled(u)'
                    /\ u \notin evicted' => OrgsOf(u)' # {}
                    /\ \A r \in Requests : request'[r].user = u /\ Working(r)' => Duty(r)'
  BY DEF Homed
<1>1. Serial(u) /\ (u \notin evicted' => u \notin evicted)
  BY HistoriesGrow DEF Serial, Untouched
<1>2. OrgsOf(u)' = OrgsOf(u) /\ (Settled(u)' <=> Settled(u)) /\ active'[u] = active[u]
  BY UntouchedSame DEF Untouched
<1>3. Busy(u)' <=> Busy(u)
  BY DEF Busy
<1>4. ASSUME NEW r \in Requests, request'[r].user = u, Working(r)' PROVE Duty(r)'
  <2>1. request'[r] = request[r] /\ request[r].user = u /\ Working(r)
    BY <1>4 DEF Working
  <2>2. Duty(r)
    BY <1>1, <2>1 DEF Homed
  <2> QED
    BY <1>1, <1>2, <2>1, <2>2 DEF Duty
<1> QED
  BY <1>1, <1>2, <1>3, <1>4 DEF Homed

(* A request that goes on touches its user only, and those whose organization *)
(* is erased.                                                               *)
LEMMA OthersUntouched ==
  ASSUME TypeOK, NEW r \in Requests, Follows(r), NEW v \in Users, v # request[r].user,
         v \notin broken'
  PROVE  Untouched(v)
<1>1. CASE CountOwners(r) \/ CountOrgs(r) \/ CheckHome(r) \/ Fallback(r) \/ Crash(r)
  BY <1>1 DEF CountOwners, CountOrgs, CheckHome, Fallback, Crash, Untouched, IsMember, RoleIn
<1>2. CASE MoveUser(r)
  BY <1>2 DEF MoveUser, Untouched, IsMember, RoleIn, TypeOK
<1>3. CASE WriteRole(r) \/ DeleteMember(r)
  <2>1. UNCHANGED <<account, active>>
    BY <1>3 DEF WriteRole, DeleteMember
  <2>2. CASE ~RowStands(r)
    BY <1>3, <2>1, <2>2 DEF WriteRole, DeleteMember, Untouched, IsMember, RoleIn
  <2>3. CASE RowStands(r)
    <3>1. \A o \in Orgs : member'[v][o] = member[v][o]
      BY <1>3, <2>3 DEF WriteRole, DeleteMember, RowStands, TypeOK
    <3> QED
      BY <2>1, <3>1 DEF Untouched, IsMember, RoleIn
  <2> QED
    BY <2>2, <2>3
<1>4. CASE EraseAccount(r)
  <2>1. CASE UNCHANGED <<account, active, org, member, broken>>
    BY <2>1 DEF Untouched, IsMember, RoleIn
  <2>2. CASE ~UNCHANGED <<account, active, org, member, broken>>
    <3> DEFINE u == request[r].user
               lost == request[r].lost
    <3>1. /\ account' = [account EXCEPT ![u] = "gone"]
          /\ active' = [active EXCEPT ![u] = None]
          /\ member' = [x \in Users |-> [o \in Orgs |->
               IF x = u \/ o \in lost THEN NoRow ELSE member[x][o]]]
          /\ broken' = broken \cup {x \in Users \ {u} : OrgsOf(x) \cap lost # {}}
      BY <1>4, <2>2 DEF EraseAccount
    <3>2. account'[v] = account[v] /\ active'[v] = active[v]
      BY <3>1 DEF TypeOK
    <3>3. OrgsOf(v) \cap lost = {}
      BY <3>1
    <3>4. \A o \in Orgs : member'[v][o] = IF o \in lost THEN NoRow ELSE member[v][o]
      BY <3>1
    <3>5. ASSUME NEW o \in Orgs PROVE IsMember(v, o)' <=> IsMember(v, o)
      <4>1. CASE o \in lost
        <5>1. ~IsMember(v, o)
          BY <3>3, <4>1 DEF OrgsOf
        <5>2. ~IsMember(v, o)'
          BY <3>4, <4>1 DEF IsMember, RoleIn, NoRow
        <5> QED
          BY <5>1, <5>2
      <4>2. CASE o \notin lost
        BY <3>4, <4>2 DEF IsMember, RoleIn
      <4> QED
        BY <4>1, <4>2
    <3> QED
      BY <3>2, <3>5 DEF Untouched
  <2> QED
    BY <2>1, <2>2
<1> QED
  BY <1>1, <1>2, <1>3, <1>4 DEF Follows

-----------------------------------------------------------------------------
(* What happens to the user of the request *)

(* The user's side of a step that ends the request, or takes it on *)
Kept(r, u) ==
  /\ request'[r] = Idle => Settled(u)'
  /\ request'[r] # Idle => Duty(r)'
  /\ u \notin evicted' => OrgsOf(u)' # {}

LEMMA WorksFor ==
  ASSUME TypeOK, NEW r \in Requests, Follows(r)
  PROVE  Working(r) /\ request[r].user \in Users /\ request[r] \in Request
BY DEF TypeOK, Working, Follows, CountOwners, CountOrgs, WriteRole, DeleteMember, CheckHome,
       Fallback, MoveUser, EraseAccount, Crash

(* A request that moves on keeps what it read. *)
LEMMA Moves ==
  ASSUME TypeOK, NEW r \in Requests, Working(r),
         NEW pc \in {"remaining", "write", "home", "fallback", "move"},
         Step(r, [request[r] EXCEPT !.pc = pc])
  PROVE  /\ request'[r].pc = pc
         /\ \A f \in {"user", "org", "op", "home", "next"} : request'[r][f] = request[r][f]
<1>1. request[r] \in Request /\ request'[r] = [request[r] EXCEPT !.pc = pc]
  BY RequestMoved DEF TypeOK, Working
<1> QED
  BY <1>1 DEF Request

LEMMA SeveralOrgs ==
  ASSUME NEW u, NEW o, Cardinality(OrgsOf(u)) > 1
  PROVE  OrgsOf(u) \ {o} # {}
<1>1. SUFFICES ASSUME OrgsOf(u) \subseteq {o} PROVE FALSE
  OBVIOUS
<1>2. OrgsOf(u) = {} \/ OrgsOf(u) = {o}
  BY <1>1
<1>3. Cardinality({}) = 0 /\ Cardinality({o}) = 1
  BY FS_EmptySet, FS_Singleton
<1> QED
  BY <1>2, <1>3

LEMMA KeptCalm ==
  ASSUME TypeOK, NEW r \in Requests, NEW u \in Users, u = request[r].user, Duty(r),
         u \notin evicted => OrgsOf(u) # {},
         CountOwners(r) \/ CountOrgs(r) \/ CheckHome(r)
  PROVE  Kept(r, u)
<1>0. UNCHANGED <<account, active, evicted>> /\ \A o \in Orgs : IsMember(u, o)' <=> IsMember(u, o)
  BY DEF CountOwners, CountOrgs, CheckHome, history, IsMember, RoleIn
<1>1. OrgsOf(u)' = OrgsOf(u) /\ (Settled(u)' <=> Settled(u)) /\ active'[u] = active[u]
  BY <1>0 DEF OrgsOf, Settled
<1>2. Working(r)
  BY DEF Working, CountOwners, CountOrgs, CheckHome
<1>3. Done(r) => request'[r] = Idle
  BY DoneTyped
<1>4. CASE CountOwners(r)
  <2>1. Settled(u) /\ request[r].home = active[u]
    BY <1>4 DEF CountOwners, Duty
  <2>2. CASE Done(r)
    BY <1>0, <1>1, <1>3, <2>1, <2>2 DEF Kept
  <2>3. CASE ~Done(r)
    <3>1. PICK pc \in {"remaining", "write"} :
            /\ Step(r, [request[r] EXCEPT !.pc = pc])
            /\ request[r].op = "leave" => pc = "remaining"
      BY <1>4, <2>3 DEF CountOwners
    <3>2. /\ request'[r].pc = pc /\ request'[r].user = u /\ request'[r].op = request[r].op
          /\ request'[r].home = request[r].home
      BY <1>2, <3>1, Moves
    <3>3. Duty(r)'
      BY <1>1, <2>1, <3>1, <3>2 DEF Duty
    <3> QED
      BY <1>0, <1>1, <3>2, <3>3 DEF Kept, Idle
  <2> QED
    BY <2>2, <2>3
<1>5. CASE CountOrgs(r)
  <2>1. Settled(u) /\ request[r].home = active[u]
    BY <1>5 DEF CountOrgs, Duty
  <2>2. CASE Done(r)
    BY <1>0, <1>1, <1>3, <2>1, <2>2 DEF Kept
  <2>3. CASE ~Done(r)
    <3>1. Step(r, [request[r] EXCEPT !.pc = "write"]) /\ OrgsOf(u) \ {request[r].org} # {}
      BY <1>5, <2>3, SeveralOrgs DEF CountOrgs
    <3>2. /\ request'[r].pc = "write" /\ request'[r].user = u
          /\ request'[r].home = request[r].home /\ request'[r].org = request[r].org
      BY <1>2, <3>1, Moves
    <3>3. Duty(r)'
      BY <1>1, <2>1, <3>1, <3>2 DEF Duty
    <3> QED
      BY <1>0, <1>1, <3>2, <3>3 DEF Kept, Idle
  <2> QED
    BY <2>2, <2>3
<1>6. CASE CheckHome(r)
  <2>1. Settled(u) \/ active[u] = request[r].org
    BY <1>6 DEF CheckHome, Duty
  <2>2. CASE active[u] # request[r].org
    <3>1. Done(r)
      BY <1>6, <2>2 DEF CheckHome
    <3> QED
      BY <1>0, <1>1, <1>3, <2>1, <2>2, <3>1 DEF Kept
  <2>3. CASE active[u] = request[r].org
    <3>1. Step(r, [request[r] EXCEPT !.pc = "fallback"])
      BY <1>6, <2>3 DEF CheckHome
    <3>2. /\ request'[r].pc = "fallback" /\ request'[r].user = u
          /\ request'[r].org = request[r].org
      BY <1>2, <3>1, Moves
    <3>3. Duty(r)'
      BY <1>1, <2>3, <3>2 DEF Duty
    <3> QED
      BY <1>0, <1>1, <3>2, <3>3 DEF Kept, Idle
  <2> QED
    BY <2>2, <2>3
<1> QED
  BY <1>4, <1>5, <1>6

LEMMA KeptFallback ==
  ASSUME TypeOK, NEW r \in Requests, NEW u \in Users, u = request[r].user, Duty(r),
         u \notin evicted => OrgsOf(u) # {},
         Fallback(r)
  PROVE  Kept(r, u)
<1> DEFINE others == OrgsOf(u) \ {request[r].org}
<1>0. UNCHANGED <<account, active, evicted>> /\ \A o \in Orgs : IsMember(u, o)' <=> IsMember(u, o)
  BY DEF Fallback, history, IsMember, RoleIn
<1>1. OrgsOf(u)' = OrgsOf(u) /\ (Settled(u)' <=> Settled(u)) /\ active'[u] = active[u]
  BY <1>0 DEF OrgsOf, Settled
<1>2. active[u] = request[r].org
  BY DEF Fallback, Duty
<1>3. CASE others = {}
  <2>1. Done(r)
    BY <1>3 DEF Fallback
  <2>2. Settled(u)
    BY <1>2, <1>3 DEF Settled
  <2> QED
    BY <1>0, <1>1, <2>1, <2>2, DoneTyped DEF Kept
<1>4. CASE others # {}
  <2>1. PICK o \in others : Step(r, [request[r] EXCEPT !.pc = "move", !.next = o])
    BY <1>4 DEF Fallback
  <2>2. request[r] \in Request
    BY DEF TypeOK
  <2>3. request'[r] = [request[r] EXCEPT !.pc = "move", !.next = o]
    BY <2>1 DEF Step, TypeOK
  <2>4. request'[r].pc = "move" /\ request'[r].next = o /\ request'[r].user = u
    BY <2>2, <2>3 DEF Request
  <2>5. Duty(r)'
    BY <1>1, <2>4 DEF Duty
  <2> QED
    BY <1>0, <1>1, <2>4, <2>5 DEF Kept, Idle
<1> QED
  BY <1>3, <1>4

LEMMA KeptMove ==
  ASSUME TypeOK, Known, NEW r \in Requests, NEW u \in Users, u = request[r].user, Duty(r), MoveUser(r),
         account[u] = "live"
  PROVE  Kept(r, u)
<1> DEFINE o == request[r].next
<1>1. o \in OrgsOf(u)
  BY DEF MoveUser, Duty
<1>2. org[o] = "live"
  BY <1>1 DEF Known, OrgsOf
<1>3. active' = [active EXCEPT ![u] = o] /\ member' = member
  BY <1>2 DEF MoveUser
<1>4. active'[u] = o
  BY <1>3 DEF TypeOK
<1>5. OrgsOf(u)' = OrgsOf(u)
  BY <1>3 DEF OrgsOf, IsMember, RoleIn
<1>6. request'[r] = Idle
  BY DoneTyped DEF MoveUser
<1> QED
  BY <1>1, <1>4, <1>5, <1>6 DEF Kept, Settled

LEMMA KeptWrite ==
  ASSUME TypeOK, People, NEW r \in Requests, NEW u \in Users, u = request[r].user, Duty(r), WriteRole(r),
         u \notin evicted => OrgsOf(u) # {}
  PROVE  Kept(r, u)
<1> DEFINE p == request[r].org
<1>1. request'[r] = Idle /\ Settled(u)
  BY DoneTyped DEF WriteRole, Duty
<1>2. UNCHANGED <<account, active, evicted>>
  BY DEF WriteRole
<1>3. \A o \in Orgs : IsMember(u, o)' <=> IsMember(u, o)
  <2>1. CASE ~RowStands(r)
    BY <2>1 DEF WriteRole, IsMember, RoleIn
  <2>2. CASE RowStands(r)
    <3>1. request[r].role \in Roles /\ request[r].role # None
      BY NoneIsNothing DEF People, Working, WriteRole
    <3>2. u \in Users /\ p \in Orgs /\ IsMember(u, p)
      BY <2>2 DEF RowStands
    <3> DEFINE row == [member[u][p] EXCEPT !.role = request[r].role]
    <3>3. row \in Row /\ row.role = request[r].role
      BY <3>1, <3>2, RowTyped DEF Row
    <3>4. member' = [member EXCEPT ![u][p] = row]
      BY <2>2 DEF WriteRole
    <3> HIDE DEF p, row
    <3>5. member'[u][p] = row /\ \A o \in Orgs : o # p => member'[u][o] = member[u][o]
      BY <3>2, <3>4 DEF TypeOK
    <3> QED
      BY <3>1, <3>2, <3>3, <3>5 DEF IsMember, RoleIn
  <2> QED
    BY <2>1, <2>2
<1>4. OrgsOf(u)' = OrgsOf(u) /\ (Settled(u)' <=> Settled(u))
  BY <1>2, <1>3 DEF OrgsOf, Settled
<1> QED
  BY <1>1, <1>2, <1>4 DEF Kept

LEMMA KeptDelete ==
  ASSUME TypeOK, NEW r \in Requests, NEW u \in Users, u = request[r].user, Duty(r), DeleteMember(r),
         u \notin evicted => OrgsOf(u) # {}
  PROVE  Kept(r, u)
<1> DEFINE p == request[r].org
<1>1. Settled(u) /\ request[r].home = active[u] /\ active' = active /\ Working(r)
  BY DEF DeleteMember, Duty, Working
<1>2. CASE ~RowStands(r)
  <2>1. request'[r] = Idle /\ UNCHANGED <<member, evicted>>
    BY <1>2, DoneTyped DEF DeleteMember
  <2>2. OrgsOf(u)' = OrgsOf(u)
    BY <2>1 DEF OrgsOf, IsMember, RoleIn
  <2> QED
    BY <1>1, <2>1, <2>2 DEF Kept, Settled
<1>3. CASE RowStands(r)
  <2>1. u \in Users /\ p \in Orgs /\ IsMember(u, p)
    BY <1>3 DEF RowStands
  <2>2. member' = [member EXCEPT ![u][p] = NoRow]
    BY <1>3 DEF DeleteMember
  <2>3. member'[u][p] = NoRow /\ \A o \in Orgs : o # p => member'[u][o] = member[u][o]
    BY <2>1, <2>2 DEF TypeOK
  <2>4. OrgsOf(u)' = OrgsOf(u) \ {p}
    BY <2>3 DEF OrgsOf, IsMember, RoleIn, NoRow
  <2>5. active[u] \in OrgsOf(u)
    BY <1>1, <2>1 DEF Settled, OrgsOf
  <2>6. active[u] # p => Settled(u)'
    BY <1>1, <2>4, <2>5 DEF Settled
  <2>7. u \notin evicted' => OrgsOf(u)' # {}
    <3>1. CASE request[r].op = "leave"
      <4>1. evicted' = evicted
        BY <1>3, <3>1 DEF DeleteMember
      <4> QED
        BY <2>4, <3>1, <4>1 DEF Duty, DeleteMember
    <3>2. CASE request[r].op = "remove"
      BY <1>3, <3>2 DEF DeleteMember
    <3> QED
      BY <3>1, <3>2 DEF DeleteMember
  <2>8. CASE request[r].op = "leave"
    <3>1. Step(r, [request[r] EXCEPT !.pc = "home"])
      BY <1>3, <2>8 DEF DeleteMember
    <3>2. request'[r].pc = "home" /\ request'[r].user = u /\ request'[r].org = p
      BY <1>1, <3>1, Moves
    <3>3. Duty(r)'
      BY <1>1, <2>6, <3>2 DEF Duty
    <3> QED
      BY <2>7, <3>2, <3>3 DEF Kept, Idle
  <2>9. CASE request[r].op = "remove" /\ active[u] = p
    <3>1. Step(r, [request[r] EXCEPT !.pc = "fallback"])
      BY <1>1, <1>3, <2>9 DEF DeleteMember
    <3>2. request'[r].pc = "fallback" /\ request'[r].user = u /\ request'[r].org = p
      BY <1>1, <3>1, Moves
    <3>3. Duty(r)'
      BY <1>1, <2>9, <3>2 DEF Duty
    <3> QED
      BY <2>7, <3>2, <3>3 DEF Kept, Idle
  <2>10. CASE request[r].op = "remove" /\ active[u] # p
    <3>1. request'[r] = Idle
      BY <1>1, <1>3, <2>10, DoneTyped DEF DeleteMember
    <3> QED
      BY <2>6, <2>7, <2>10, <3>1 DEF Kept
  <2> QED
    BY <2>8, <2>9, <2>10 DEF DeleteMember
<1> QED
  BY <1>2, <1>3

(* Erasing leaves the account, or nobody. *)
LEMMA KeptErase ==
  ASSUME TypeOK, NEW r \in Requests, NEW u \in Users, u = request[r].user, Duty(r), EraseAccount(r),
         u \notin evicted => OrgsOf(u) # {},
         account'[u] = "live"
  PROVE  Kept(r, u)
<1>1. request'[r] = Idle /\ evicted' = evicted /\ Settled(u)
  BY DoneTyped DEF EraseAccount, Duty
<1>2. UNCHANGED <<account, active, member>>
  BY DEF EraseAccount, TypeOK
<1>3. OrgsOf(u)' = OrgsOf(u)
  BY <1>2 DEF OrgsOf, IsMember, RoleIn
<1> QED
  BY <1>1, <1>2, <1>3 DEF Kept, Settled

-----------------------------------------------------------------------------
(* The invariant *)

LEMMA PeopleStep ==
  ASSUME TypeOK, People, Act, TypeOK'
  PROVE  People'
<1>1. ASSUME NEW u \in Users, Signup(u) \/ CreateOrganization(u) \/ Join(u)
      PROVE  People'
  <2>1. request' = request
    BY <1>1, JoinGrows
  <2>2. account'[u] = "live" /\ \A v \in Users \ {u} : account'[v] = account[v]
    BY <1>1 DEF Signup, CreateOrganization, Join, TypeOK
  <2>3. \A v \in Users \ {u}, o \in Orgs : member'[v][o] = member[v][o]
    BY <1>1, JoinGrows
  <2>4. \A r \in Requests : Working(r) => request[r].user \in Users
    BY DEF TypeOK, Working
  <2> QED
    BY <2>1, <2>2, <2>3, <2>4 DEF People, IsMember, RoleIn, Working
<1>2. ASSUME NEW r \in Requests, Starts(r)
      PROVE  People'
  <2>1. /\ UNCHANGED <<account, member>>
        /\ \A q \in Requests : q # r => request'[q] = request[q]
    BY <1>2, StartAbout DEF Starts, UpdateMemberRole, UpdateUserRole, RemoveMember,
       LeaveOrganization, SwitchOrganization, DeleteAccount, Begin
  <2>2. /\ account[request'[r].user] # "new"
        /\ request'[r].op \in {"role", "admin"} => request'[r].role \in Roles
    <3>1. ASSUME NEW t \in Users, NEW p \in Orgs, IsMember(t, p),
                 NEW pc \in {"count", "remaining", "write", "move"},
                 NEW op \in {"role", "admin"}, NEW to \in Roles,
                 Begin(r, [About(op, t, p, pc) EXCEPT !.role = to])
          PROVE  <2>2
      <4>1. request'[r] = [About(op, t, p, pc) EXCEPT !.role = to]
        BY <3>1 DEF Begin, Step, TypeOK
      <4>2. About(op, t, p, pc) \in Request /\ About(op, t, p, pc).user = t
        BY AboutTyped
      <4>3. request'[r].user = t /\ request'[r].role = to
        BY <4>1, <4>2 DEF Request
      <4> QED
        BY <3>1, <4>3 DEF People
    <3>2. CASE UpdateMemberRole(r)
      <4>1. PICK t \in Users, p \in Orgs, to \in Roles :
              /\ IsMember(t, p)
              /\ Begin(r, [About("role", t, p, CheckedPc(t, p, "write")) EXCEPT !.role = to])
        BY <3>2 DEF UpdateMemberRole, MayChangeRole
      <4>2. CheckedPc(t, p, "write") \in {"count", "remaining", "write", "move"}
        BY CheckedPcIs
      <4> QED
        BY <3>1, <4>1, <4>2
    <3>3. CASE UpdateUserRole(r)
      <4>1. PICK t \in Users, p \in Orgs, to \in Roles :
              /\ IsMember(t, p)
              /\ Begin(r, [About("admin", t, p, "write") EXCEPT !.role = to])
        BY <3>3 DEF UpdateUserRole
      <4> QED
        BY <3>1, <4>1
    <3>4. CASE RemoveMember(r) \/ LeaveOrganization(r)
      <4>1. PICK t \in Users, p \in Orgs, op \in {"remove", "leave"}, pc \in {"write", "remaining"} :
              IsMember(t, p) /\ Begin(r, About(op, t, p, CheckedPc(t, p, pc)))
        BY <3>4 DEF RemoveMember, LeaveOrganization
      <4>2. request'[r] = About(op, t, p, CheckedPc(t, p, pc))
        BY <4>1 DEF Begin, Step, TypeOK
      <4>3. request'[r].user = t /\ request'[r].op = op
        BY <4>2, AboutTyped, CheckedPcIs
      <4> QED
        BY <4>1, <4>3 DEF People
    <3>5. CASE SwitchOrganization(r)
      <4>1. PICK t \in Users, p \in Orgs :
              IsMember(t, p) /\ Begin(r, [About("switch", t, p, "move") EXCEPT !.next = p])
        BY <3>5 DEF SwitchOrganization
      <4>2. request'[r] = [About("switch", t, p, "move") EXCEPT !.next = p]
        BY <4>1 DEF Begin, Step, TypeOK
      <4>3. /\ About("switch", t, p, "move") \in Request /\ About("switch", t, p, "move").user = t
            /\ About("switch", t, p, "move").op = "switch"
        BY AboutTyped
      <4>4. request'[r].user = t /\ request'[r].op = "switch"
        BY <4>2, <4>3 DEF Request
      <4> QED
        BY <4>1, <4>4 DEF People
    <3>6. CASE DeleteAccount(r)
      <4>1. PICK u \in Users :
              /\ account[u] = "live"
              /\ Begin(r, [Idle EXCEPT !.pc = "erase", !.op = "delete", !.user = u,
                                       !.lost = SoleOwned(u)])
        BY <3>6 DEF DeleteAccount
      <4>2. request'[r].user = u /\ request'[r].op = "delete"
        BY <4>1 DEF Begin, Step, Idle, TypeOK
      <4> QED
        BY <4>1, <4>2
    <3> QED
      BY <1>2, <3>2, <3>3, <3>4, <3>5, <3>6 DEF Starts
  <2> QED
    BY <2>1, <2>2 DEF People, IsMember, RoleIn, Working
<1>3. ASSUME NEW r \in Requests, Follows(r)
      PROVE  People'
  <2>1. /\ \A q \in Requests : q # r => request'[q] = request[q]
        /\ request'[r] = Idle \/ Onward(r)
    BY <1>3, FollowRequests
  <2>2. \A q \in Requests : Working(q)' =>
          /\ Working(q) /\ request'[q].user = request[q].user /\ request[q].user \in Users
          /\ request'[q].op = request[q].op /\ request'[q].role = request[q].role
    BY <1>3, <2>1, IdleTyped, WorksFor DEF Working, Onward, TypeOK
  <2>3. \A v \in Users : account'[v] = account[v] \/ account'[v] = "gone"
    BY <1>3 DEF Follows, CountOwners, CountOrgs, WriteRole, DeleteMember, CheckHome, Fallback,
                MoveUser, EraseAccount, Crash, TypeOK
  <2>4. ASSUME NEW v \in Users, NEW o \in Orgs, IsMember(v, o)' PROVE account'[v] = "live"
    <3>1. account[v] = "live"
      BY <1>3, <2>4, FollowShrinks DEF People
    <3>2. CASE account' = account
      BY <3>1, <3>2
    <3>3. CASE EraseAccount(r) /\ account' # account
      <4>1. /\ account' = [account EXCEPT ![request[r].user] = "gone"]
            /\ member' = [x \in Users |-> [p \in Orgs |->
                 IF x = request[r].user \/ p \in request[r].lost THEN NoRow ELSE member[x][p]]]
        BY <3>3 DEF EraseAccount
      <4>2. v # request[r].user
        BY <2>4, <4>1 DEF IsMember, RoleIn, NoRow
      <4> QED
        BY <3>1, <4>1, <4>2 DEF TypeOK
    <3> QED
      BY <1>3, <3>2, <3>3 DEF Follows, CountOwners, CountOrgs, WriteRole, DeleteMember, CheckHome,
                              Fallback, MoveUser, Crash
  <2> QED
    BY <2>2, <2>3, <2>4 DEF People
<1> QED
  BY <1>1, <1>2, <1>3 DEF Act, Proceed, Starts, Follows

LEMMA HomedJoin ==
  ASSUME HInv, Next, NEW v \in Users, Signup(v) \/ CreateOrganization(v) \/ Join(v), NEW u \in Users
  PROVE  Homed(u)'
<1>0. TypeOK /\ People /\ Homed(u)
  BY DEF HInv, IInv
<1>1. request' = request
  BY <1>0, JoinGrows
<1>2. PICK p \in Orgs, role \in Roles :
        /\ RoleIn(v, p)' = role
        /\ \A x \in Users, o \in Orgs : x # v \/ o # p => member'[x][o] = member[x][o]
  BY <1>0, JoinGrows
<1>3. CASE u # v
  <2>1. account'[u] = account[u] /\ active'[u] = active[u]
    BY <1>0, <1>3 DEF Signup, CreateOrganization, Join, TypeOK
  <2>2. Untouched(u)
    BY <1>2, <1>3, <2>1 DEF Untouched, IsMember, RoleIn
  <2> QED
    BY <1>0, <1>1, <2>2, UntouchedHomed
<1>4. CASE u = v
  <2> SUFFICES ASSUME Serial(u)'
               PROVE  /\ Busy(u)' \/ Settled(u)'
                      /\ u \notin evicted' => OrgsOf(u)' # {}
                      /\ \A r \in Requests : request'[r].user = u /\ Working(r)' => Duty(r)'
    BY DEF Homed
  <2>1. OrgsOf(u)' = OrgsOf(u) \cup {p}
    BY <1>2, <1>4, NoneIsNothing DEF OrgsOf, IsMember, RoleIn
  <2>2. u \notin crossed \cup broken
    BY <1>0, HistoriesGrow DEF Serial
  <2>3. CASE Signup(v)
    <3>1. account[u] = "new"
      BY <1>4, <2>3 DEF Signup
    <3>2. OrgsOf(u) = {}
      BY <1>0, <3>1 DEF People, OrgsOf
    <3>3. active'[u] = p
      <4>1. PICK o \in Orgs : Insert(u, o, "Owner") /\ active' = [active EXCEPT ![u] = o]
        BY <1>4, <2>3 DEF Signup
      <4>2. RoleIn(u, o)' = "Owner" /\ "Owner" \in Roles
        BY <1>0, <4>1, InsertTyped DEF Roles
      <4>3. o \in OrgsOf(u)'
        BY <4>2, NoneIsNothing DEF OrgsOf, IsMember
      <4> QED
        BY <1>0, <2>1, <3>2, <4>1, <4>3 DEF TypeOK
    <3>4. Settled(u)'
      BY <2>1, <3>3 DEF Settled
    <3>5. \A r \in Requests : request[r].user = u => ~Working(r)
      BY <1>0, <3>1 DEF People
    <3> QED
      BY <1>1, <2>1, <3>4, <3>5 DEF Working
  <2>4. CASE CreateOrganization(v) \/ Join(v)
    <3>1. OrgsOf(u) # {} /\ account[u] = "live" /\ active' = active /\ evicted' = evicted
      BY <1>4, <2>4 DEF CreateOrganization, Join, history
    <3>2. Settled(u) => Settled(u)'
      BY <2>1, <3>1 DEF Settled
    <3>3. Serial(u)
      BY <2>2, <3>1 DEF Serial
    <3>4. Busy(u)' \/ Settled(u)'
      BY <1>0, <1>1, <3>2, <3>3 DEF Homed, Busy
    <3>5. ASSUME NEW r \in Requests, request[r].user = u, Working(r) PROVE Duty(r)'
      <4>1. Duty(r)
        BY <1>0, <3>3, <3>5 DEF Homed
      <4> QED
        BY <1>1, <2>1, <3>1, <3>2, <3>5, <4>1 DEF Duty
    <3> QED
      BY <1>1, <2>1, <3>4, <3>5 DEF Working
  <2> QED
    BY <1>4, <2>3, <2>4
<1> QED
  BY <1>3, <1>4

(* A request starts when its user is settled, and has read what it says. *)
Fit(r) ==
  LET q == request'[r] IN
  /\ q.pc \in {"count", "remaining", "write", "erase", "move"}
  /\ q.pc \in {"count", "remaining", "write"} => q.home = active[q.user]
  /\ q.pc = "move" => q.next \in OrgsOf(q.user)
  /\ q.op = "leave" => q.pc # "write"

LEMMA StartFit ==
  ASSUME TypeOK, NEW r \in Requests, Starts(r)
  PROVE  Fit(r)
<1>1. ASSUME NEW t \in Users, NEW p \in Orgs, IsMember(t, p),
             NEW pc \in {"count", "remaining", "write"},
             NEW op \in {"role", "admin", "remove", "leave"},
             op = "leave" => pc # "write",
             \/ Begin(r, About(op, t, p, pc))
             \/ \E to \in Roles : Begin(r, [About(op, t, p, pc) EXCEPT !.role = to])
      PROVE  Fit(r)
  <2>1. /\ About(op, t, p, pc) \in Request /\ About(op, t, p, pc).user = t
        /\ About(op, t, p, pc).pc = pc /\ About(op, t, p, pc).op = op
    BY AboutTyped
  <2>2. About(op, t, p, pc).home = active[t]
    BY DEF About, Idle
  <2>3. \/ request'[r] = About(op, t, p, pc)
        \/ \E to \in Roles : request'[r] = [About(op, t, p, pc) EXCEPT !.role = to]
    BY <1>1 DEF Begin, Step, TypeOK
  <2>4. /\ request'[r].user = t /\ request'[r].pc = pc /\ request'[r].op = op
        /\ request'[r].home = active[t]
    BY <2>1, <2>2, <2>3 DEF Request
  <2> QED
    BY <1>1, <2>4 DEF Fit
<1>2. CASE UpdateMemberRole(r)
  <2>1. PICK t \in Users, p \in Orgs, to \in Roles :
          /\ IsMember(t, p)
          /\ Begin(r, [About("role", t, p, CheckedPc(t, p, "write")) EXCEPT !.role = to])
    BY <1>2 DEF UpdateMemberRole, MayChangeRole
  <2>2. CheckedPc(t, p, "write") \in {"count", "remaining", "write"}
    BY CheckedPcIs
  <2> QED
    BY <1>1, <2>1, <2>2
<1>3. CASE UpdateUserRole(r)
  <2>1. PICK t \in Users, p \in Orgs, to \in Roles :
          IsMember(t, p) /\ Begin(r, [About("admin", t, p, "write") EXCEPT !.role = to])
    BY <1>3 DEF UpdateUserRole
  <2> QED
    BY <1>1, <2>1
<1>4. CASE RemoveMember(r)
  <2>1. PICK t \in Users, p \in Orgs :
          IsMember(t, p) /\ Begin(r, About("remove", t, p, CheckedPc(t, p, "write")))
    BY <1>4 DEF RemoveMember
  <2>2. CheckedPc(t, p, "write") \in {"count", "remaining", "write"}
    BY CheckedPcIs
  <2> QED
    BY <1>1, <2>1, <2>2
<1>5. CASE LeaveOrganization(r)
  <2>1. PICK t \in Users, p \in Orgs :
          IsMember(t, p) /\ Begin(r, About("leave", t, p, CheckedPc(t, p, "remaining")))
    BY <1>5 DEF LeaveOrganization
  <2>2. CheckedPc(t, p, "remaining") \in {"count", "remaining"}
    BY CheckedPcIs
  <2> QED
    BY <1>1, <2>1, <2>2
<1>6. CASE SwitchOrganization(r)
  <2>1. PICK t \in Users, p \in Orgs :
          IsMember(t, p) /\ Begin(r, [About("switch", t, p, "move") EXCEPT !.next = p])
    BY <1>6 DEF SwitchOrganization
  <2>2. request'[r] = [About("switch", t, p, "move") EXCEPT !.next = p]
    BY <2>1 DEF Begin, Step, TypeOK
  <2>3. /\ About("switch", t, p, "move") \in Request /\ About("switch", t, p, "move").user = t
        /\ About("switch", t, p, "move").op = "switch" /\ About("switch", t, p, "move").pc = "move"
    BY AboutTyped
  <2>4. /\ request'[r].user = t /\ request'[r].op = "switch" /\ request'[r].pc = "move"
        /\ request'[r].next = p
    BY <2>2, <2>3 DEF Request
  <2> QED
    BY <2>1, <2>4 DEF Fit, OrgsOf
<1>7. CASE DeleteAccount(r)
  <2>1. PICK u \in Users :
          Begin(r, [Idle EXCEPT !.pc = "erase", !.op = "delete", !.user = u, !.lost = SoleOwned(u)])
    BY <1>7 DEF DeleteAccount
  <2>2. request'[r].pc = "erase" /\ request'[r].op = "delete"
    BY <2>1 DEF Begin, Step, Idle, TypeOK
  <2> QED
    BY <2>2 DEF Fit
<1> QED
  BY <1>2, <1>3, <1>4, <1>5, <1>6, <1>7 DEF Starts

LEMMA HomedStart ==
  ASSUME HInv, Next, NEW r \in Requests, Starts(r), NEW u \in Users
  PROVE  Homed(u)'
<1>0. TypeOK /\ Homed(u)
  BY DEF HInv, IInv
<1>1. /\ UNCHANGED <<org, account, member, active, evicted>> /\ request[r].pc = "idle"
      /\ \A q \in Requests : q # r => request'[q] = request[q]
  BY <1>0, StartAbout DEF Starts, UpdateMemberRole, UpdateUserRole, RemoveMember,
     LeaveOrganization, SwitchOrganization, DeleteAccount, Begin, history
<1>2. Untouched(u)
  BY <1>1 DEF Untouched, IsMember, RoleIn
<1>3. OrgsOf(u)' = OrgsOf(u) /\ (Settled(u)' <=> Settled(u)) /\ active'[u] = active[u]
  BY <1>2, UntouchedSame DEF Untouched
<1> SUFFICES ASSUME Serial(u)'
             PROVE  /\ Busy(u)' \/ Settled(u)'
                    /\ u \notin evicted' => OrgsOf(u)' # {}
                    /\ \A q \in Requests : request'[q].user = u /\ Working(q)' => Duty(q)'
  BY DEF Homed
<1>4. Serial(u)
  BY <1>0, <1>1, HistoriesGrow DEF Serial
<1>5. Busy(u) => Busy(u)'
  BY <1>1 DEF Busy
<1>6. Busy(u)' \/ Settled(u)'
  BY <1>0, <1>3, <1>4, <1>5 DEF Homed
<1>7. u \notin evicted' => OrgsOf(u)' # {}
  BY <1>0, <1>1, <1>3, <1>4 DEF Homed
<1>8. ASSUME NEW q \in Requests, request'[q].user = u, Working(q)' PROVE Duty(q)'
  <2>1. CASE q # r
    <3>1. request'[q] = request[q] /\ Duty(q)
      BY <1>0, <1>1, <1>4, <1>8, <2>1 DEF Homed, Working
    <3> QED
      BY <1>1, <1>3, <1>8, <3>1 DEF Duty
  <2>2. CASE q = r
    <3>1. \A x \in Requests : request[x].user = u => ~Working(x)
      <4> SUFFICES ASSUME NEW x \in Requests, request[x].user = u, Working(x) PROVE FALSE
        OBVIOUS
      <4>1. x # r /\ request'[x].user = u
        BY <1>1 DEF Working
      <4>2. u \in crossed'
        BY <1>8, <2>2, <4>1 DEF Next, Watch
      <4> QED
        BY <4>2 DEF Serial
    <3>2. Settled(u)
      BY <1>0, <1>4, <3>1 DEF Homed, Busy, Working
    <3>3. Fit(r)
      BY <1>0, StartFit
    <3> QED
      BY <1>1, <1>3, <1>8, <2>2, <3>2, <3>3 DEF Fit, Duty
  <2> QED
    BY <2>1, <2>2
<1> QED
  BY <1>6, <1>7, <1>8

LEMMA HomedFollow ==
  ASSUME HInv, Next, NEW r \in Requests, Follows(r), NEW u \in Users
  PROVE  Homed(u)'
<1>0. TypeOK /\ Known /\ Homed(u) /\ Noticed /\ People
  BY DEF HInv, IInv
<1>1. /\ \A q \in Requests : q # r => request'[q] = request[q]
      /\ request'[r] = Idle \/ Onward(r)
  BY <1>0, FollowRequests
<1>2. Working(r) /\ request[r].user \in Users
  BY <1>0, WorksFor
<1>3. CASE u # request[r].user
  <2>1. CASE u \in broken'
    BY <2>1 DEF Homed, Serial
  <2>2. CASE u \notin broken'
    <3>1. Untouched(u)
      BY <1>0, <1>3, <2>2, OthersUntouched
    <3>2. request'[r].user # u
      BY <1>1, <1>3, NoneIsNothing DEF Idle, Onward
    <3> QED
      BY <1>0, <1>1, <1>3, <3>1, <3>2, UntouchedHomed
  <2> QED
    BY <2>1, <2>2
<1>4. CASE u = request[r].user
  <2> SUFFICES ASSUME Serial(u)'
               PROVE  /\ Busy(u)' \/ Settled(u)'
                      /\ u \notin evicted' => OrgsOf(u)' # {}
                      /\ \A q \in Requests : request'[q].user = u /\ Working(q)' => Duty(q)'
    BY DEF Homed
  <2>1. Serial(u)
    <3>1. account[u] = "live"
      BY <1>0 DEF Serial, Follows, CountOwners, CountOrgs, WriteRole, DeleteMember, CheckHome,
                  Fallback, MoveUser, EraseAccount, Crash, TypeOK
    <3> QED
      BY <1>0, <3>1, HistoriesGrow DEF Serial
  <2>2. Duty(r) /\ (u \notin evicted => OrgsOf(u) # {})
    BY <1>0, <1>2, <1>4, <2>1 DEF Homed
  <2>3. Kept(r, u)
    <3>1. CASE CountOwners(r) \/ CountOrgs(r) \/ CheckHome(r)
      BY <1>0, <1>4, <2>2, <3>1, KeptCalm
    <3>2. CASE Fallback(r)
      BY <1>0, <1>4, <2>2, <3>2, KeptFallback
    <3>3. CASE MoveUser(r)
      <4>1. account[request[r].user] = "live"
        BY <1>4, <2>1 DEF Serial
      <4> QED
        BY <1>0, <1>2, <1>4, <2>2, <3>3, <4>1, KeptMove
    <3>4. CASE WriteRole(r)
      BY <1>0, <1>4, <2>2, <3>4, KeptWrite
    <3>5. CASE DeleteMember(r)
      BY <1>0, <1>4, <2>2, <3>5, KeptDelete
    <3>6. CASE EraseAccount(r)
      BY <1>0, <1>2, <1>4, <2>2, <3>6, KeptErase DEF Serial
    <3>7. CASE Crash(r)
      BY <1>4, <3>7 DEF Crash, Serial
    <3> QED
      BY <3>1, <3>2, <3>3, <3>4, <3>5, <3>6, <3>7 DEF Follows
  <2>4. \A q \in Requests : q # r => request'[q].user # u
    <3> SUFFICES ASSUME NEW q \in Requests, q # r, request'[q].user = u PROVE FALSE
      OBVIOUS
    <3>1. request[q].user = u
      BY <1>1
    <3> QED
      BY <1>0, <1>4, <2>1, <3>1 DEF Noticed, Serial
  <2>5. CASE request'[r] = Idle
    BY <1>4, <2>3, <2>4, <2>5 DEF Kept, Idle, Working
  <2>6. CASE request'[r] # Idle
    <3>1. Busy(u)'
      BY <1>1, <1>4, <2>6 DEF Onward, Busy
    <3> QED
      BY <1>4, <2>3, <2>4, <2>6, <3>1 DEF Kept
  <2> QED
    BY <2>5, <2>6
<1> QED
  BY <1>3, <1>4

LEMMA InitHInv == Init => HInv
<1> SUFFICES ASSUME Init PROVE HInv
  OBVIOUS
<1>1. IInv
  BY InitIInv
<1>2. Noticed /\ People /\ \A u \in Users : Homed(u)
  BY NoneIsNothing DEF Init, Idle, Noticed, People, Working, IsMember, RoleIn, NoRow, Homed, Serial
<1> QED
  BY <1>1, <1>2 DEF HInv

LEMMA StepHInv == HInv /\ [Next]_vars => HInv'
<1> SUFFICES ASSUME HInv, [Next]_vars PROVE HInv'
  OBVIOUS
<1>1. IInv' /\ TypeOK /\ TypeOK'
  BY NextIInv DEF HInv, IInv
<1>2. CASE Next
  <2>1. Noticed' /\ People'
    BY <1>1, <1>2, NoticedStep, PeopleStep DEF Next, HInv
  <2>2. \A u \in Users : Homed(u)'
    BY <1>2, HomedJoin, HomedStart, HomedFollow DEF Next, Act, Proceed, Starts, Follows
  <2> QED
    BY <1>1, <2>1, <2>2 DEF HInv
<1>3. CASE UNCHANGED vars
  BY <1>1, <1>3 DEF HInv, vars, extra, history, Noticed, People, Homed, Serial, Settled, Duty,
     Working, Busy, OrgsOf, IsMember, RoleIn
<1> QED
  BY <1>2, <1>3

(* The inductive invariant the theorems below follow from: each user has an   *)
(* active organization or a request in flight that still owes it one.         *)
THEOREM HomeInvariance == Spec => []HInv
BY InitHInv, StepHInv, PTL DEF Spec

(* Whoever still has an organization can log in: the active organization is  *)
(* one of the user's, unless requests on the user overlapped or one was cut  *)
(* short.                                                                    *)
THEOREM MembersCanLogIn == Spec => []LoginPossible
<1>1. HInv => LoginPossible
  BY DEF HInv, Homed, Serial, Settled, LoginPossible
<1> QED
  BY <1>1, HomeInvariance, PTL

(* Nobody leaves the last organization: a user without any was removed by    *)
(* others, or had two requests at once, or one cut short.                    *)
THEOREM LastOrganizationKept == Spec => []LastOrgKept
<1>1. HInv => LastOrgKept
  BY DEF HInv, Homed, Serial, LastOrgKept
<1> QED
  BY <1>1, HomeInvariance, PTL

-----------------------------------------------------------------------------
(* The second factor.  Its users, requests and histories are its own: what   *)
(* follows is about M!Spec alone, and names it shares with the module above   *)
(* are parameters of it like the others.                                      *)

CONSTANTS Codes, MaxIssued
VARIABLES issued

M == INSTANCE Mfa

(* What a request that enables MFA has verified is the secret stored, nobody *)
(* enrols while MFA is on, and nobody makes codes while it is off, unless the *)
(* histories tell of an overlap.                                             *)
EnablingProven ==
  \A r \in Requests : M!At(r, "enable") =>
    mixed \/ (user.secret = request[r].secret /\ user.secret \in proven)
EnrollingOff == user.on /\ M!Some("enroll") => mixed
GeneratingOn == \A r \in Requests : M!At(r, "generate") => user.on \/ leftover

(* CodesOfEnrolment, of the codes there are. *)
CodesRight ==
  /\ \A c \in user.codes : (user.on /\ (mixed \/ c[1] > user.secret)) \/ leftover
  /\ \A c \in M!RecoveryCodes : spent[c] <= 1

(* Secrets and sets of codes are numbered together as they are handed out,   *)
(* and what was not handed out, or is still in the set, was not accepted.    *)
Numbered ==
  /\ user.secret = None \/ user.secret \in 0..issued
  /\ proven \subseteq 0..issued
  /\ \A c \in user.codes : c[1] <= issued /\ spent[c] = 0
  /\ \A c \in M!RecoveryCodes : c[1] > issued => spent[c] = 0

(* The inductive invariant. *)
MfaInv ==
  /\ M!TypeOK /\ EnabledIsProven /\ CodesRight
  /\ EnablingProven /\ EnrollingOff /\ GeneratingOn /\ Numbered

(* The types, by variable. *)
FactorType == [on : BOOLEAN, secret : M!Secrets \cup {None}, codes : SUBSET M!RecoveryCodes]
AskingType ==
  [pc : {"idle", "enroll", "enable", "disable", "generate", "login by code", "disable by code"},
   secret : M!Secrets \cup {None}, code : M!RecoveryCodes \cup {None}]

LEMMA MfaTypes ==
  ASSUME MaxIssued \in Nat, M!TypeOK
  PROVE  /\ user \in FactorType /\ request \in [Requests -> AskingType]
         /\ issued \in 0..MaxIssued /\ issued \in Nat
         /\ proven \in SUBSET M!Secrets /\ spent \in [M!RecoveryCodes -> Nat]
<1>1. issued \in 0..MaxIssued
  BY DEF M!TypeOK
<1>2. issued \in Nat
  BY <1>1
<1> QED
  BY <1>1, <1>2 DEF M!TypeOK, FactorType, AskingType

LEMMA MfaInitially == ASSUME MaxIssued \in Nat PROVE M!Init => MfaInv
<1> SUFFICES ASSUME M!Init PROVE MfaInv
  OBVIOUS
<1>1. M!TypeOK
  <2>1. user \in FactorType /\ proven \in SUBSET M!Secrets
    BY DEF M!Init, FactorType, M!Secrets
  <2>2. request \in [Requests -> AskingType]
    BY DEF M!Init, M!Idle, AskingType
  <2>3. issued \in 0..MaxIssued /\ spent \in [M!RecoveryCodes -> Nat]
    <3>1. issued \in 0..MaxIssued
      BY DEF M!Init
    <3> QED
      BY <3>1 DEF M!Init
  <2> QED
    BY <2>1, <2>2, <2>3 DEF M!Init, M!TypeOK, FactorType, AskingType
<1>2. EnabledIsProven /\ CodesRight
  BY DEF M!Init, EnabledIsProven, CodesRight
<1>3. Numbered
  BY DEF M!Init, Numbered
<1>4. EnablingProven /\ EnrollingOff /\ GeneratingOn
  BY DEF M!Init, EnablingProven, EnrollingOff, GeneratingOn, M!At, M!Some, M!Idle
<1> QED
  BY <1>1, <1>2, <1>3, <1>4 DEF MfaInv

LEMMA CodeNumber ==
  ASSUME MaxIssued \in Nat, NEW c \in M!RecoveryCodes
  PROVE  c[1] \in Int
BY DEF M!RecoveryCodes

LEMMA HandedOut ==
  ASSUME MaxIssued \in Nat, issued \in 0..MaxIssued, NEW c \in (1..issued) \X Codes
  PROVE  c \in M!RecoveryCodes
<1>1. \A n \in 1..issued : n \in 1..MaxIssued
  OBVIOUS
<1> QED
  BY <1>1 DEF M!RecoveryCodes

LEMMA MfaStepwise == ASSUME MaxIssued \in Nat, MfaInv, [M!Next]_(M!vars) PROVE MfaInv'
<1> USE DEF MfaInv
<1>0. /\ user \in FactorType /\ request \in [Requests -> AskingType]
      /\ issued \in 0..MaxIssued /\ issued \in Nat
      /\ proven \in SUBSET M!Secrets /\ spent \in [M!RecoveryCodes -> Nat]
      /\ mixed \in BOOLEAN /\ leftover \in BOOLEAN
  BY MfaTypes DEF M!TypeOK
<1>a. M!Idle \in AskingType
  BY DEF M!Idle, AskingType
<1>b. 0 \in M!Secrets /\ \A n \in 0..issued : n \in M!Secrets
  BY <1>0 DEF M!Secrets
<1>c. ASSUME user' \in FactorType, request' \in [Requests -> AskingType], issued' \in 0..MaxIssued,
             proven' \in SUBSET M!Secrets, spent' \in [M!RecoveryCodes -> Nat],
             mixed' \in BOOLEAN, leftover' \in BOOLEAN
      PROVE  M!TypeOK'
  BY <1>c DEF M!TypeOK, FactorType, AskingType
<1>1. ASSUME NEW r \in Requests, M!BeginEnroll(r) PROVE MfaInv'
  <2>1. M!TypeOK'
    <3>1. request' \in [Requests -> AskingType]
      BY <1>0, <1>1 DEF M!BeginEnroll, M!Goto, AskingType
    <3> QED BY <3>1, <1>0, <1>c, <1>1 DEF M!BeginEnroll
  <2>2. EnabledIsProven' /\ CodesRight' /\ Numbered'
    BY <1>1 DEF M!BeginEnroll, EnabledIsProven, CodesRight, Numbered
  <2>3. EnablingProven' /\ EnrollingOff' /\ GeneratingOn'
    BY <1>0, <1>1 DEF M!BeginEnroll, M!Goto, M!At, M!Some, EnablingProven, EnrollingOff, GeneratingOn
  <2> QED BY <2>1, <2>2, <2>3
<1>2. ASSUME NEW r \in Requests, M!Enroll(r) PROVE MfaInv'
  <2>1. M!TypeOK'
    <3>1. request' \in [Requests -> AskingType]
      BY <1>0, <1>a, <1>2 DEF M!Enroll, M!Return
    <3>2. issued' \in 0..MaxIssued /\ issued + 1 \in M!Secrets
      BY <1>0, <1>2 DEF M!Enroll, M!Issue, M!Secrets
    <3>3. user' \in FactorType
      BY <1>0, <3>2, <1>2 DEF M!Enroll, FactorType
    <3> QED BY <3>1, <3>2, <3>3, <1>0, <1>c, <1>2 DEF M!Enroll, M!Some
  <2>2. EnabledIsProven' /\ CodesRight'
    BY <1>0, <1>2 DEF M!Enroll, EnabledIsProven, CodesRight, EnrollingOff, M!Some
  <2>4. Numbered'
    <3>1. issued' = issued + 1 /\ user'.secret = issued + 1 /\ user'.codes = user.codes
      BY <1>0, <1>2 DEF M!Enroll, M!Issue, FactorType
    <3>2. \A c \in M!RecoveryCodes : c[1] \in Int
      BY CodeNumber
    <3>3. user.codes \subseteq M!RecoveryCodes
      BY <1>0 DEF FactorType
    <3>4. UNCHANGED <<proven, spent>>
      BY <1>2 DEF M!Enroll
    <3> QED
      BY <1>0, <3>1, <3>2, <3>3, <3>4 DEF Numbered
  <2>3. EnablingProven' /\ EnrollingOff' /\ GeneratingOn'
    <3>1. \A q \in Requests : request'[q] = request[q] \/ request'[q].pc = "idle"
      BY <1>0, <1>2 DEF M!Enroll, M!Return, M!Idle
    <3>2. mixed' = (mixed \/ M!Some("enable"))
      BY <1>2 DEF M!Enroll
    <3>3. user'.on = user.on /\ leftover' = leftover
      BY <1>0, <1>2 DEF M!Enroll, FactorType
    <3>4. EnablingProven'
      BY <3>1, <3>2 DEF EnablingProven, M!Some, M!At
    <3>5. EnrollingOff'
      BY <3>1, <3>2, <3>3 DEF EnrollingOff, M!Some, M!At
    <3> QED BY <3>1, <3>3, <3>4, <3>5 DEF GeneratingOn, M!At
  <2> QED BY <2>1, <2>2, <2>3, <2>4
<1>3. ASSUME NEW r \in Requests, M!Verify(r) PROVE MfaInv'
  <2>1. M!TypeOK'
    <3>1. user.secret \in M!Secrets
      BY <1>0, <1>3 DEF M!Verify, FactorType
    <3>2. request' \in [Requests -> AskingType]
      BY <1>0, <3>1, <1>3 DEF M!Verify, M!Goto, AskingType
    <3>3. proven' \in SUBSET M!Secrets
      BY <1>0, <3>1, <1>3 DEF M!Verify
    <3> QED BY <3>1, <3>2, <3>3, <1>0, <1>c, <1>3 DEF M!Verify
  <2>2. EnabledIsProven' /\ CodesRight' /\ Numbered'
    BY <1>0, <1>3 DEF M!Verify, EnabledIsProven, CodesRight, Numbered
  <2>3. EnablingProven' /\ EnrollingOff' /\ GeneratingOn'
    BY <1>0, <1>3 DEF M!Verify, M!Goto, M!At, M!Some, EnablingProven, EnrollingOff, GeneratingOn
  <2> QED BY <2>1, <2>2, <2>3
<1>4. ASSUME NEW r \in Requests, M!Enable(r) PROVE MfaInv'
  <2>1. M!TypeOK'
    <3>1. request' \in [Requests -> AskingType]
      BY <1>0, <1>a, <1>4 DEF M!Enable, M!Return
    <3>2. user' \in FactorType
      BY <1>0, <1>b, <1>4 DEF M!Enable, FactorType
    <3> QED BY <3>1, <3>2, <1>0, <1>c, <1>4 DEF M!Enable, M!Some
  <2>0. /\ user' = [user EXCEPT !.on = TRUE, !.secret = IF request[r].secret = 0 THEN 0 ELSE user.secret]
        /\ UNCHANGED <<issued, proven, spent, leftover>> /\ (mixed => mixed')
        /\ user'.codes = user.codes
    BY <1>0, <1>4 DEF M!Enable, FactorType
  <2>5. mixed \/ (user'.secret = user.secret /\ user.secret \in proven)
    BY <1>0, <2>0, <1>4 DEF M!Enable, EnablingProven, FactorType
  <2>2. EnabledIsProven' /\ CodesRight'
    <3>1. \A c \in user.codes : (~mixed => c[1] > user'.secret) \/ leftover
      BY <2>5 DEF CodesRight
    <3>2. user'.on
      BY <1>0, <2>0 DEF FactorType
    <3> QED
      BY <2>0, <2>5, <3>1, <3>2 DEF EnabledIsProven, CodesRight
  <2>4. Numbered'
    <3>1. user'.secret \in {0, user.secret}
      BY <1>0, <2>0 DEF FactorType
    <3>2. 0 \in 0..issued
      BY <1>0
    <3> QED
      BY <2>0, <3>1, <3>2 DEF Numbered
  <2>3. EnablingProven' /\ EnrollingOff' /\ GeneratingOn'
    <3>1. \A q \in Requests : request'[q] = request[q] \/ request'[q].pc = "idle"
      BY <1>0, <1>4 DEF M!Enable, M!Return, M!Idle
    <3>2. mixed' = (mixed \/ M!Some("enroll"))
      BY <1>4 DEF M!Enable
    <3>3. EnrollingOff'
      BY <3>1, <3>2 DEF EnrollingOff, M!Some, M!At
    <3>4. EnablingProven'
      BY <2>0, <2>5, <3>1 DEF EnablingProven, M!At
    <3>5. user'.on
      BY <1>0, <2>0 DEF FactorType
    <3> QED BY <3>3, <3>4, <3>5 DEF GeneratingOn
  <2> QED BY <2>1, <2>2, <2>3, <2>4
<1>5. ASSUME NEW r \in Requests, NEW pc \in {"disable", "generate"}, M!Begin(r, pc) PROVE MfaInv'
  <2>1. M!TypeOK'
    <3>1. request' \in [Requests -> AskingType]
      BY <1>0, <1>5 DEF M!Begin, M!Goto, AskingType, FactorType
    <3> QED BY <3>1, <1>0, <1>c, <1>5 DEF M!Begin
  <2>2. EnabledIsProven' /\ CodesRight' /\ Numbered'
    BY <1>5 DEF M!Begin, EnabledIsProven, CodesRight, Numbered
  <2>3. EnablingProven' /\ EnrollingOff' /\ GeneratingOn'
    BY <1>0, <1>5 DEF M!Begin, M!Goto, M!At, M!Some, EnablingProven, EnrollingOff, GeneratingOn
  <2> QED BY <2>1, <2>2, <2>3
<1>6. ASSUME NEW r \in Requests, M!Disable(r) PROVE MfaInv'
  <2>1. M!TypeOK'
    <3>1. request' \in [Requests -> AskingType]
      BY <1>0, <1>a, <1>6 DEF M!Disable, M!Return
    <3>2. user' \in FactorType
      BY <1>6 DEF M!Disable, M!Cleared, FactorType
    <3> QED BY <3>1, <3>2, <1>0, <1>c, <1>6 DEF M!Disable, M!Cleared, M!Some
  <2>2. EnabledIsProven' /\ CodesRight' /\ Numbered'
    BY <1>0, <1>6 DEF M!Disable, M!Cleared, EnabledIsProven, CodesRight, Numbered
  <2>3. EnablingProven' /\ EnrollingOff' /\ GeneratingOn'
    BY <1>0, <1>6 DEF M!Disable, M!Cleared, M!Return, M!Idle, M!At, M!Some, EnablingProven,
       EnrollingOff, GeneratingOn
  <2> QED BY <2>1, <2>2, <2>3
<1>7. ASSUME NEW r \in Requests, M!Generate(r) PROVE MfaInv'
  <2>1. M!TypeOK'
    <3>1. request' \in [Requests -> AskingType]
      BY <1>0, <1>a, <1>7 DEF M!Generate, M!Return
    <3>2. issued' \in 0..MaxIssued /\ issued + 1 \in 1..MaxIssued
      BY <1>0, <1>7 DEF M!Generate, M!Issue
    <3>3. user' \in FactorType
      BY <1>0, <3>2, <1>7 DEF M!Generate, FactorType, M!RecoveryCodes
    <3> QED BY <3>1, <3>2, <3>3, <1>0, <1>c, <1>7 DEF M!Generate
  <2>0. /\ issued' = issued + 1 /\ issued + 1 \in Nat /\ issued + 1 > issued
        /\ user' = [user EXCEPT !.codes = {issued + 1} \X Codes]
        /\ user'.codes = {issued + 1} \X Codes /\ user'.on = user.on /\ user'.secret = user.secret
        /\ UNCHANGED <<proven, spent, mixed, leftover>>
    BY <1>0, <1>7 DEF M!Generate, M!Issue, FactorType
  <2>6. \A c \in user'.codes : c[1] = issued + 1 /\ c \in M!RecoveryCodes
    BY <2>0, <1>0, <1>7 DEF M!RecoveryCodes, M!Generate, M!Issue
  <2>2. EnabledIsProven' /\ CodesRight'
    <3>3. \A n \in 0..issued : issued + 1 > n
      BY <1>0
    <3>1. user.on => mixed \/ issued + 1 > user.secret
      BY <3>3 DEF EnabledIsProven, Numbered
    <3>2. user.on \/ leftover
      BY <1>7 DEF M!Generate, GeneratingOn
    <3> QED
      BY <2>0, <2>6, <3>1, <3>2 DEF EnabledIsProven, CodesRight
  <2>4. Numbered'
    <3>1. \A c \in M!RecoveryCodes : c[1] \in Int
      BY CodeNumber
    <3> QED
      BY <1>0, <2>0, <2>6, <3>1 DEF Numbered
  <2>3. EnablingProven' /\ EnrollingOff' /\ GeneratingOn'
    BY <1>0, <2>0, <1>7 DEF M!Generate, M!Return, M!Idle, M!At, M!Some, EnablingProven,
       EnrollingOff, GeneratingOn
  <2> QED BY <2>1, <2>2, <2>3, <2>4
<1>8. ASSUME NEW r \in Requests, NEW pc \in {"login by code", "disable by code"}, M!BeginByCode(r, pc) PROVE MfaInv'
  <2>0. PICK c \in (1..issued) \X Codes : M!Goto(r, pc, None, c)
    BY <1>8 DEF M!BeginByCode
  <2>5. c \in M!RecoveryCodes
    BY <1>0, HandedOut
  <2>1. M!TypeOK'
    <3>1. request' \in [Requests -> AskingType]
      BY <1>0, <2>0, <2>5 DEF M!Goto, AskingType
    <3> QED BY <3>1, <1>0, <1>c, <1>8 DEF M!BeginByCode
  <2>2. EnabledIsProven' /\ CodesRight' /\ Numbered'
    BY <1>8 DEF M!BeginByCode, EnabledIsProven, CodesRight, Numbered
  <2>3. EnablingProven' /\ EnrollingOff' /\ GeneratingOn'
    BY <1>0, <2>0, <1>8 DEF M!BeginByCode, M!Goto, M!At, M!Some, EnablingProven, EnrollingOff,
       GeneratingOn
  <2> QED BY <2>1, <2>2, <2>3
<1>9. ASSUME NEW r \in Requests, M!LoginByCode(r) PROVE MfaInv'
  <2>1. M!TypeOK'
    <3>1. request' \in [Requests -> AskingType]
      BY <1>0, <1>a, <1>9 DEF M!LoginByCode, M!Return
    <3>2. user' \in FactorType
      BY <1>0, <1>9 DEF M!LoginByCode, M!Consumed, FactorType
    <3>3. spent' \in [M!RecoveryCodes -> Nat]
      <4>0. request[r].code \in M!RecoveryCodes
        BY <1>0, <1>9 DEF M!LoginByCode, FactorType
      <4>1. spent[request[r].code] + 1 \in Nat
        BY <1>0, <4>0
      <4> QED
        BY <1>0, <1>9, <4>1 DEF M!LoginByCode, M!Spend
    <3> QED BY <3>1, <3>2, <3>3, <1>0, <1>c, <1>9 DEF M!LoginByCode
  <2>0. /\ user'.codes = user.codes \ {request[r].code} /\ user'.on = user.on /\ user'.secret = user.secret
        /\ request[r].code \in user.codes /\ user.codes \subseteq M!RecoveryCodes
        /\ spent' = [spent EXCEPT ![request[r].code] = @ + 1]
        /\ UNCHANGED <<issued, proven, mixed, leftover>>
    BY <1>0, <1>9 DEF M!LoginByCode, M!Consumed, M!Spend, FactorType
  <2>5. spent[request[r].code] = 0 /\ ~(request[r].code[1] > issued)
    BY <1>0, <2>0, CodeNumber DEF Numbered
  <2>2. EnabledIsProven' /\ CodesRight' /\ Numbered'
    BY <1>0, <2>0, <2>5 DEF EnabledIsProven, CodesRight, Numbered
  <2>3. EnablingProven' /\ EnrollingOff' /\ GeneratingOn'
    <3>1. \A q \in Requests : request'[q] = request[q] \/ request'[q].pc = "idle"
      BY <1>0, <1>9 DEF M!LoginByCode, M!Return, M!Idle
    <3> QED
      BY <2>0, <3>1 DEF M!At, M!Some, EnablingProven, EnrollingOff, GeneratingOn
  <2> QED BY <2>1, <2>2, <2>3
<1>10. ASSUME NEW r \in Requests, M!DisableByCode(r) PROVE MfaInv'
  <2>1. M!TypeOK'
    <3>1. request' \in [Requests -> AskingType]
      BY <1>0, <1>a, <1>10 DEF M!DisableByCode, M!Return
    <3>2. user' \in FactorType
      BY <1>10 DEF M!DisableByCode, M!Cleared, FactorType
    <3>3. spent' \in [M!RecoveryCodes -> Nat]
      <4>0. request[r].code \in M!RecoveryCodes
        BY <1>0, <1>10 DEF M!DisableByCode, FactorType
      <4>1. spent[request[r].code] + 1 \in Nat
        BY <1>0, <4>0
      <4> QED
        BY <1>0, <1>10, <4>1 DEF M!DisableByCode, M!Spend
    <3> QED BY <3>1, <3>2, <3>3, <1>0, <1>c, <1>10 DEF M!DisableByCode, M!Cleared, M!Some
  <2>0. /\ request[r].code \in user.codes /\ user.codes \subseteq M!RecoveryCodes
        /\ spent' = [spent EXCEPT ![request[r].code] = @ + 1]
        /\ user' = [on |-> FALSE, secret |-> None, codes |-> {}]
        /\ UNCHANGED <<issued, proven>>
    BY <1>0, <1>10 DEF M!DisableByCode, M!Cleared, M!Spend, FactorType
  <2>5. spent[request[r].code] = 0 /\ ~(request[r].code[1] > issued)
    BY <1>0, <2>0, CodeNumber DEF Numbered
  <2>2. EnabledIsProven' /\ CodesRight' /\ Numbered'
    BY <1>0, <2>0, <2>5 DEF EnabledIsProven, CodesRight, Numbered
  <2>3. EnablingProven' /\ EnrollingOff' /\ GeneratingOn'
    BY <1>0, <1>10 DEF M!DisableByCode, M!Cleared, M!Return, M!Idle, M!At, M!Some,
       EnablingProven, EnrollingOff, GeneratingOn
  <2> QED BY <2>1, <2>2, <2>3
<1>11. ASSUME NEW r \in Requests, M!Fail(r) PROVE MfaInv'
  <2>1. M!TypeOK'
    <3>1. request' \in [Requests -> AskingType]
      BY <1>0, <1>a, <1>11 DEF M!Fail, M!Return
    <3> QED BY <3>1, <1>0, <1>c, <1>11 DEF M!Fail
  <2>2. EnabledIsProven' /\ CodesRight' /\ Numbered'
    BY <1>11 DEF M!Fail, EnabledIsProven, CodesRight, Numbered
  <2>3. EnablingProven' /\ EnrollingOff' /\ GeneratingOn'
    BY <1>0, <1>11 DEF M!Fail, M!Return, M!Idle, M!At, M!Some, EnablingProven, EnrollingOff,
       GeneratingOn
  <2> QED BY <2>1, <2>2, <2>3
<1>12. CASE UNCHANGED M!vars
  BY <1>12 DEF M!vars, M!TypeOK, EnabledIsProven, CodesRight, EnablingProven, EnrollingOff,
     GeneratingOn, Numbered, M!At, M!Some
<1> QED
  BY <1>1, <1>2, <1>3, <1>4, <1>5, <1>6, <1>7, <1>8, <1>9, <1>10, <1>11, <1>12 DEF M!Next

LEMMA MfaInvariant == ASSUME MaxIssued \in Nat PROVE M!Spec => []MfaInv
BY MfaInitially, MfaStepwise, PTL DEF M!Spec

(* Types of the user, the requests and the histories, for any requests,      *)
(* codes and bound.                                                          *)
THEOREM MfaTypeCorrect == ASSUME MaxIssued \in Nat PROVE M!Spec => []M!TypeOK
<1>1. MfaInv => M!TypeOK
  BY DEF MfaInv
<1> QED
  BY <1>1, MfaInvariant, PTL

(* The secret that logins are checked against was shown to be the user's     *)
(* (mfa.service.ts:101), unless an enrolment or a disabling overlapped the   *)
(* enabling, for any number of requests.                                     *)
THEOREM EnabledSecretProven == ASSUME MaxIssued \in Nat PROVE M!Spec => []EnabledIsProven
<1>1. MfaInv => EnabledIsProven
  BY DEF MfaInv
<1> QED
  BY <1>1, MfaInvariant, PTL

(* The recovery codes are of the MFA that is enabled (mfa.service.ts:263),   *)
(* but for a set that was being made while it was disabled, and none is      *)
(* accepted twice.                                                           *)
THEOREM RecoveryCodesBound == ASSUME MaxIssued \in Nat PROVE M!Spec => []CodesOfEnrolment
<1>1. MfaInv => CodesOfEnrolment
  BY DEF MfaInv, CodesRight, CodesOfEnrolment, M!TypeOK
<1> QED
  BY <1>1, MfaInvariant, PTL

=============================================================================

--------------------------- MODULE OrgMembership ----------------------------
(***************************************************************************)
(* Memberships, roles and active organizations: organizations.service.ts,  *)
(* the role and removal routes of admin.service.ts, and                    *)
(* account-deletion.service.ts.  Each request reads rows, decides, and     *)
(* writes in statements of their own, so requests on one organization or   *)
(* one user interleave.  Consecutive reads with no decision between them   *)
(* are one step; the transaction of account deletion (READ COMMITTED) is   *)
(* its reads, then its writes.                                             *)
(*                                                                         *)
(* Abstracted: the snapshot User.role, names and slugs; refresh tokens     *)
(* (AuthSessions); an invitation is sent just before it is accepted.       *)
(***************************************************************************)
EXTENDS Integers, FiniteSets

CONSTANTS
  Users, Orgs,
  Furnished,   \* organizations with devices, alerts, audit rows, ...
  Requests,    \* requests in flight
  MaxRows, MaxCommands, MaxFaults,
               \* bounds: memberships created, requests, crashes
  None         \* null

ASSUME UsersAssumption == IsFiniteSet(Users)
ASSUME BoundAssumption == {MaxRows, MaxCommands, MaxFaults} \subseteq Nat
Roles == {"Owner", "Admin", "Technician", "Viewer"}
ASSUME NoneAssumption == None \notin Users \cup Orgs \cup Roles

VARIABLES
  org,       \* the Organization table: "new", "live" or "gone"
  account,   \* the User table: "new", "live" or "gone"
  member,    \* the OrganizationMember table
  active,    \* User.orgId, the organization a login is for
  invited,   \* organizations with an OrganizationInvitation
  request,   \* requests in flight
  rows, commands, faults,  \* counts: createdAt of memberships, bounds
  demoted,   \* history: organizations the admin route took an Owner from
  evicted,   \* history: users removed from an organization by others
  broken,    \* history: users a crash or an erased organization left behind
  overlapped, \* history: organizations two requests were about to change
  crossed    \* history: users with two requests at once

extra == <<invited, rows, commands, faults>>
history == <<demoted, evicted, broken>>
vars == <<org, account, member, active, request, extra, history, overlapped, crossed>>

(* A membership is identified by the time of its creation *)
Row == [role : Roles \cup {None}, at : 0..MaxRows]
NoRow == [role |-> None, at |-> 0]

(* A request: the user and organization it is about, the membership and    *)
(* role it read and the user's active organization then, the role and      *)
(* active organization it will write, the organizations to delete          *)
Idle == [pc |-> "idle", op |-> "none", user |-> None, org |-> None, at |-> 0,
         was |-> None, home |-> None, role |-> None, next |-> None, lost |-> {}]
Request ==
  [pc : {"idle", "count", "remaining", "write", "home", "fallback", "move", "erase"},
   op : {"none", "role", "admin", "remove", "leave", "switch", "delete"},
   user : Users \cup {None}, org : Orgs \cup {None}, at : 0..MaxRows,
   was : Roles \cup {None}, home : Orgs \cup {None}, role : Roles \cup {None},
   next : Orgs \cup {None}, lost : SUBSET Orgs]

TypeOK ==
  /\ org \in [Orgs -> {"new", "live", "gone"}]
  /\ account \in [Users -> {"new", "live", "gone"}]
  /\ member \in [Users -> [Orgs -> Row]]
  /\ active \in [Users -> Orgs \cup {None}]
  /\ request \in [Requests -> Request]
  /\ \A r \in Requests : request[r].pc # "idle" => request[r].user \in Users
  /\ rows \in 0..MaxRows /\ commands \in 0..MaxCommands /\ faults \in 0..MaxFaults
  /\ {invited, demoted, overlapped} \subseteq SUBSET Orgs
  /\ {evicted, broken, crossed} \subseteq SUBSET Users

Init ==
  /\ org = [o \in Orgs |-> "new"]
  /\ account = [u \in Users |-> "new"]
  /\ member = [u \in Users |-> [o \in Orgs |-> NoRow]]
  /\ active = [u \in Users |-> None]
  /\ invited = {}
  /\ request = [r \in Requests |-> Idle]
  /\ rows = 0 /\ commands = 0 /\ faults = 0
  /\ demoted = {} /\ evicted = {} /\ broken = {} /\ overlapped = {} /\ crossed = {}

-----------------------------------------------------------------------------
(* The tables *)

RoleIn(u, o) == member[u][o].role
IsMember(u, o) == RoleIn(u, o) # None
OrgsOf(u) == {o \in Orgs : IsMember(u, o)}
Owners(o) == {u \in Users : RoleIn(u, o) = "Owner"}

Rank == [Owner |-> 4, Admin |-> 3, Technician |-> 2, Viewer |-> 1]

(* The membership a request read, if it is still there *)
RowStands(r) ==
  /\ request[r].user \in Users /\ request[r].org \in Orgs
  /\ IsMember(request[r].user, request[r].org)
  /\ member[request[r].user][request[r].org].at = request[r].at

(* Only a founder has no invitation *)
Insert(u, o, role) ==
  /\ rows < MaxRows /\ rows' = rows + 1
  /\ invited' = IF role = "Owner" THEN invited ELSE invited \cup {o}
  /\ member' = [member EXCEPT ![u][o] = [role |-> role, at |-> rows']]

Step(r, next) == request' = [request EXCEPT ![r] = next]
Done(r) == Step(r, Idle)

-----------------------------------------------------------------------------
(* Joining *)

(* signup: organization, user and Owner membership in one transaction *)
Signup(u) ==
  /\ account[u] = "new"
  /\ \E o \in Orgs :
       /\ org[o] = "new"
       /\ Insert(u, o, "Owner")
       /\ org' = [org EXCEPT ![o] = "live"]
       /\ active' = [active EXCEPT ![u] = o]
  /\ account' = [account EXCEPT ![u] = "live"]
  /\ UNCHANGED <<request, commands, faults, history>>

CreateOrganization(u) ==
  /\ account[u] = "live" /\ OrgsOf(u) # {}
  /\ \E o \in Orgs :
       /\ org[o] = "new"
       /\ Insert(u, o, "Owner")
       /\ org' = [org EXCEPT ![o] = "live"]
  /\ UNCHANGED <<account, active, request, commands, faults, history>>

(* acceptInvitation's transaction: the active organization is left alone. *)
(* The guard lets only a member of some organization call it.             *)
Join(u) ==
  /\ account[u] = "live" /\ OrgsOf(u) # {}
  /\ \E o \in Orgs, role \in Roles \ {"Owner"} :
       /\ org[o] = "live" /\ ~IsMember(u, o)
       /\ Insert(u, o, role)
  /\ UNCHANGED <<org, account, active, request, commands, faults, history>>

-----------------------------------------------------------------------------
(* Requests: the reads they start with *)

Begin(r, next) ==
  /\ request[r].pc = "idle" /\ commands < MaxCommands
  /\ commands' = commands + 1
  /\ Step(r, next)
  /\ UNCHANGED <<org, account, member, active, invited, rows, faults, history>>

(* A request about u's membership in o *)
About(op, u, o, pc) ==
  [Idle EXCEPT !.pc = pc, !.op = op, !.user = u, !.org = o, !.at = member[u][o].at,
               !.was = RoleIn(u, o), !.home = active[u]]

(* Mutant of CheckedPc: the Owners are not counted *)
UncheckedPc(u, o, pc) == pc

(* An Owner to be downgraded, removed or to leave must not be the last one *)
CheckedPc(u, o, pc) == IF RoleIn(u, o) = "Owner" THEN "count" ELSE pc

(* updateMemberRole's rules *)
MayChangeRole(a, t, o, to) ==
  /\ RoleIn(a, o) \in {"Owner", "Admin"} /\ IsMember(t, o)
  /\ RoleIn(t, o) # to
  /\ to = "Owner" => RoleIn(a, o) = "Owner"
  /\ RoleIn(a, o) = "Admin" => Rank[RoleIn(t, o)] < Rank.Admin /\ Rank[to] < Rank.Admin
  /\ RoleIn(t, o) = "Owner" => t = a

UpdateMemberRole(r) ==
  \E a, t \in Users, o \in Orgs, to \in Roles :
    /\ MayChangeRole(a, t, o, to)
    /\ Begin(r, [About("role", t, o, CheckedPc(t, o, "write")) EXCEPT !.role = to])

(* The same from admin.service.ts: the members:manage permission, nobody   *)
(* else's Owner role, and no count of the Owners                           *)
UpdateUserRole(r) ==
  \E a, t \in Users, o \in Orgs, to \in Roles :
    /\ RoleIn(a, o) \in {"Owner", "Admin"} /\ IsMember(t, o)
    /\ RoleIn(t, o) = "Owner" => t = a
    /\ Begin(r, [About("admin", t, o, "write") EXCEPT !.role = to])

(* removeMember, and removeUser of admin.service.ts *)
RemoveMember(r) ==
  \E a, t \in Users, o \in Orgs :
    /\ RoleIn(a, o) = "Owner" /\ t # a /\ IsMember(t, o)
    /\ Begin(r, About("remove", t, o, CheckedPc(t, o, "write")))

LeaveOrganization(r) ==
  \E u \in Users, o \in Orgs :
    /\ IsMember(u, o)
    /\ Begin(r, About("leave", u, o, CheckedPc(u, o, "remaining")))

SwitchOrganization(r) ==
  \E u \in Users, o \in Orgs :
    /\ IsMember(u, o)
    /\ Begin(r, [About("switch", u, o, "move") EXCEPT !.next = o])

(* isEmptyOrganization, for its sole Owner u *)
IsEmpty(o, u) ==
  /\ o \notin Furnished \cup invited
  /\ \A v \in Users \ {u} : ~IsMember(v, o) /\ active[v] # o

SoleOwned(u) == {o \in OrgsOf(u) : Owners(o) = {u}}

(* deleteAccount's reads: organizations u alone owns go with the account   *)
(* if they are empty, and block it otherwise                               *)
DeleteAccount(r) ==
  \E u \in Users :
    /\ account[u] = "live" /\ OrgsOf(u) # {}
    /\ \A o \in SoleOwned(u) : IsEmpty(o, u)
    /\ Begin(r, [Idle EXCEPT !.pc = "erase", !.op = "delete", !.user = u,
                             !.lost = SoleOwned(u)])

-----------------------------------------------------------------------------
(* Requests: the steps that follow *)

(* assertOwnershipSafe *)
CountOwners(r) ==
  /\ request[r].pc = "count"
  /\ IF Cardinality(Owners(request[r].org)) > 1
       THEN Step(r, [request[r] EXCEPT
                       !.pc = IF request[r].op = "leave" THEN "remaining" ELSE "write"])
       ELSE Done(r)
  /\ UNCHANGED <<org, account, member, active, extra, history>>

(* Mutant of CountOrgs: off by one *)
CountOrgsOrLast(r) ==
  /\ request[r].pc = "remaining"
  /\ IF Cardinality(OrgsOf(request[r].user)) >= 1
       THEN Step(r, [request[r] EXCEPT !.pc = "write"])
       ELSE Done(r)
  /\ UNCHANGED <<org, account, member, active, extra, history>>

(* leaveOrganization: not the last organization of the user *)
CountOrgs(r) ==
  /\ request[r].pc = "remaining"
  /\ IF Cardinality(OrgsOf(request[r].user)) > 1
       THEN Step(r, [request[r] EXCEPT !.pc = "write"])
       ELSE Done(r)
  /\ UNCHANGED <<org, account, member, active, extra, history>>

(* The role is written by membership id: a row that is gone throws *)
WriteRole(r) ==
  LET q == request[r] IN
  /\ q.pc = "write" /\ q.op \in {"role", "admin"}
  /\ IF RowStands(r)
       THEN /\ member' = [member EXCEPT ![q.user][q.org].role = q.role]
            /\ demoted' = IF q.op = "admin" /\ q.was = "Owner" /\ q.role # "Owner"
                            THEN demoted \cup {q.org} ELSE demoted
       ELSE UNCHANGED <<member, demoted>>
  /\ Done(r)
  /\ UNCHANGED <<org, account, active, extra, evicted, broken>>

(* The membership is deleted by id; the active organization is seen to     *)
(* after that, in statements of their own                                  *)
DeleteMember(r) ==
  LET q == request[r] IN
  /\ q.pc = "write" /\ q.op \in {"remove", "leave"}
  /\ IF RowStands(r)
       THEN /\ member' = [member EXCEPT ![q.user][q.org] = NoRow]
            /\ evicted' = IF q.op = "remove" THEN evicted \cup {q.user} ELSE evicted
            /\ IF q.op = "leave" THEN Step(r, [q EXCEPT !.pc = "home"])
               ELSE IF q.home = q.org THEN Step(r, [q EXCEPT !.pc = "fallback"])
               ELSE Done(r)
       ELSE Done(r) /\ UNCHANGED <<member, evicted>>
  /\ UNCHANGED <<org, account, active, extra, demoted, broken>>

(* Mutant of CheckHome: the active organization is left alone *)
CheckNothing(r) ==
  /\ request[r].pc = "home"
  /\ Done(r)
  /\ UNCHANGED <<org, account, member, active, extra, history>>

(* isActiveOrg, read again by a leave *)
CheckHome(r) ==
  /\ request[r].pc = "home"
  /\ IF active[request[r].user] = request[r].org
       THEN Step(r, [request[r] EXCEPT !.pc = "fallback"])
       ELSE Done(r)
  /\ UNCHANGED <<org, account, member, active, extra, history>>

(* resolveFallbackOrganization: the oldest other membership, if any *)
Fallback(r) ==
  LET q == request[r]
      others == OrgsOf(q.user) \ {q.org} IN
  /\ q.pc = "fallback"
  /\ IF others = {} THEN Done(r)
     ELSE \E o \in others :
            /\ \A p \in others : member[q.user][o].at <= member[q.user][p].at
            /\ Step(r, [q EXCEPT !.pc = "move", !.next = o])
  /\ UNCHANGED <<org, account, member, active, extra, history>>

(* user.update of orgId, the membership not read again; a user or an       *)
(* organization that is gone throws                                        *)
MoveUser(r) ==
  LET q == request[r] IN
  /\ q.pc = "move"
  /\ active' = IF account[q.user] = "live" /\ org[q.next] = "live"
                 THEN [active EXCEPT ![q.user] = q.next] ELSE active
  /\ Done(r)
  /\ UNCHANGED <<org, account, member, extra, history>>

(* deleteAccount's writes: memberships, user and emptied organizations,    *)
(* whose memberships cascade.  A user gone already, or an organization     *)
(* somebody else's orgId refers to, rolls everything back.                 *)
EraseAccount(r) ==
  LET u == request[r].user
      lost == request[r].lost IN
  /\ request[r].pc = "erase"
  /\ IF account[u] = "live" /\ \A v \in Users \ {u} : active[v] \notin lost
       THEN /\ account' = [account EXCEPT ![u] = "gone"]
            /\ active' = [active EXCEPT ![u] = None]
            /\ org' = [o \in Orgs |-> IF o \in lost THEN "gone" ELSE org[o]]
            /\ member' = [v \in Users |-> [o \in Orgs |->
                            IF v = u \/ o \in lost THEN NoRow ELSE member[v][o]]]
            /\ broken' = broken \cup {v \in Users \ {u} : OrgsOf(v) \cap lost # {}}
       ELSE UNCHANGED <<account, active, org, member, broken>>
  /\ Done(r)
  /\ UNCHANGED <<extra, demoted, evicted>>

(* The API process dies between two statements *)
Crash(r) ==
  /\ request[r].pc # "idle" /\ faults < MaxFaults /\ faults' = faults + 1
  /\ Done(r) /\ broken' = broken \cup {request[r].user}
  /\ UNCHANGED <<org, account, member, active, invited, rows, commands, demoted, evicted>>

Proceed(r) ==
  \/ UpdateMemberRole(r) \/ UpdateUserRole(r) \/ RemoveMember(r)
  \/ LeaveOrganization(r) \/ SwitchOrganization(r) \/ DeleteAccount(r)
  \/ CountOwners(r) \/ CountOrgs(r) \/ WriteRole(r) \/ DeleteMember(r)
  \/ CheckHome(r) \/ Fallback(r) \/ MoveUser(r) \/ EraseAccount(r) \/ Crash(r)

Act ==
  \/ \E u \in Users : Signup(u) \/ CreateOrganization(u) \/ Join(u)
  \/ \E r \in Requests : Proceed(r)

(* The organizations a request has yet to write memberships of, its mind   *)
(* made up                                                                 *)
Bound(r) ==
  IF request[r].pc \in {"remaining", "write"} THEN {request[r].org}
  ELSE IF request[r].pc = "erase" THEN OrgsOf(request[r].user) \cup request[r].lost
  ELSE {}

Busy(u) == \E r \in Requests : request[r].pc # "idle" /\ request[r].user = u

(* The histories of what overlaps: requests bound for one organization, an *)
(* organization joined by an account being deleted; requests on one user   *)
Watch ==
  /\ overlapped' = overlapped \cup
       {o \in Orgs : \E r, q \in Requests :
          /\ o \in Bound(r)'
          /\ \/ r # q /\ o \in Bound(q)'
             \/ request[r].pc = "erase" /\ o \notin Bound(r)}
  /\ crossed' = crossed \cup
       {u \in Users : \E r, q \in Requests :
          r # q /\ request'[r].user = u /\ request'[q].user = u}

Next == Act /\ Watch

Spec == Init /\ [][Next]_vars

-----------------------------------------------------------------------------
(* Properties *)

HasOwner(o) == Owners(o) # {}

(* assertOwnershipSafe and deleteAccount keep an Owner in every            *)
(* organization: none is left without one unless the admin route           *)
(* downgraded its Owner or two requests overlapped in it.                  *)
OwnerKept ==
  \A o \in Orgs \ (demoted \cup overlapped) : org[o] = "live" => HasOwner(o)

(* Whoever still has an organization can log in: orgId follows every       *)
(* removal, leave and switch, unless requests on the user overlap or one   *)
(* is cut short.                                                           *)
LoginPossible ==
  \A u \in Users \ (crossed \cup broken) :
    account[u] = "live" /\ ~Busy(u) /\ OrgsOf(u) # {} => active[u] \in OrgsOf(u)

(* Nobody leaves the last organization: a user without any was removed by  *)
(* others, or left twice at once.                                          *)
LastOrgKept ==
  \A u \in Users \ (crossed \cup broken \cup evicted) :
    account[u] = "live" => OrgsOf(u) # {}

(* countOwners' comment: an organization must never end up with zero       *)
(* Owners (first by any route, then by the guarded ones alone).            *)
NeverOwnerless == \A o \in Orgs : org[o] = "live" => HasOwner(o)
OwnershipSafe == \A o \in Orgs \ demoted : org[o] = "live" => HasOwner(o)

(* deleteAccount's comment: the database refuses to delete an organization *)
(* with other rows left, so one that goes has no member but its owner.     *)
ErasedEmpty ==
  [][\A o \in Orgs, u, v \in Users :
       org'[o] # org[o] /\ IsMember(u, o) /\ IsMember(v, o) => u = v]_vars

(* The lifecycle report: the fallback keeps orgId where a login resolves.  *)
FallbackResolves ==
  \A u \in Users :
    account[u] = "live" /\ ~Busy(u) /\ OrgsOf(u) # {} => active[u] \in OrgsOf(u)

(* leaveOrganization's comment: a user cannot leave the last organization. *)
NeverHomeless ==
  \A u \in Users \ evicted : account[u] = "live" => OrgsOf(u) # {}
=============================================================================

---------------------------- MODULE AuthSessions ----------------------------
(***************************************************************************)
(* Refresh sessions and passwords of the API gateway: auth.service.ts,     *)
(* password-reset.service.ts, and what organizations.service.ts (switch,   *)
(* leave, removal) and the removal of admin.service.ts do to sessions, over *)
(* the RefreshToken, PasswordResetToken, OrganizationMember and User       *)
(* tables.  Every HTTP request is a process of its own and every await of  *)
(* a database call is a point where another request may run, so a handler  *)
(* is one action per database step.  A $transaction is one step where its  *)
(* last statement takes the row locks (change, reset) and two where a      *)
(* concurrent transaction can run between its statements (forgot).         *)
(*                                                                         *)
(* Abstracted: a password is the number of times it was changed; a token   *)
(* is the identity of its row (so its verifier or legacy plaintext form is *)
(* gone); wall-clock expiry is a step that may happen at any time; roles,  *)
(* and with them the counts of Owners, are OrgMembership's, second-factor  *)
(* codes are Mfa's; audit rows, session metadata and rate limits are left  *)
(* out.                                                                    *)
(***************************************************************************)
EXTENDS Naturals

CONSTANTS
  Users,        \* accounts
  Orgs,         \* organizations
  Requests,     \* slots for HTTP requests in flight, over all API instances
  Tokens,       \* identities of RefreshToken rows
  Sids,         \* session identities (randomUUID)
  ResetTokens,  \* identities of PasswordResetToken rows
  MaxPassword,  \* bound: how often a password changes
  None          \* null

(* What entitles a request to open a session: a check of its own (password *)
(* or refresh token), the second-factor challenge that an earlier password *)
(* comparison was answered with, or an access token.                       *)
Right == {"check", "challenge", "bearer"}

ASSUME BoundAssumption == MaxPassword \in Nat
ASSUME NoneAssumption ==
  None \notin Users \cup Orgs \cup Tokens \cup Sids \cup ResetTokens \cup Right

VARIABLES
  password,   \* User.passwordHash, as the number of changes so far
  activeOrg,  \* User.orgId
  member,     \* OrganizationMember rows, as (user, organization) pairs
  rows,       \* RefreshToken table
  access,     \* access tokens (JWT) issued and not past their 15 minutes
  resets,     \* PasswordResetToken table
  req         \* requests in flight

vars == <<password, activeOrg, member, rows, access, resets, req>>

(***************************************************************************)
(* A RefreshToken row.  parent, since and escaped are history: the token   *)
(* this one was rotated from; the password the right to open the session   *)
(* goes back to; and, if a token of the chain was minted on a right older  *)
(* than the password in force, the kind of that right.                     *)
(***************************************************************************)
Password == 0..MaxPassword

NoRow == [st |-> "absent", user |-> None, org |-> None, sid |-> None,
          expired |-> FALSE, parent |-> None, since |-> 0, escaped |-> None]

RefreshToken ==
  {NoRow} \cup
  [st : {"live", "revoked"}, user : Users, org : Orgs, sid : Sids,
   expired : BOOLEAN, parent : Tokens \cup {None}, since : Password,
   escaped : Right \cup {None}]

(* An access token: its user and organization, and (history) the password  *)
(* its session goes back to.  No database row stands behind it: it is good *)
(* until it expires, whatever is revoked.                                  *)
AccessToken == Users \X Orgs \X Password

(* A PasswordResetToken row: usable, or used/superseded/expired, with a    *)
(* history count of the passwords it has set.                              *)
NoReset == [st |-> "absent", user |-> None, resets |-> 0]

ResetRow ==
  {NoReset} \cup
  [st : {"usable", "used", "expired"}, user : Users, resets : Nat]

(* A request in flight: the next step it takes and what it has read; to is *)
(* the organization a user who leaves o falls back to.  right and won are  *)
(* history: what entitles the request to mint, and the password that goes  *)
(* back to (in force at the bcrypt comparison of login, at the compare-    *)
(* and-swap of refresh, at the commit of changePassword; of the challenge; *)
(* of the access token's session).                                         *)
SwitchSteps == {"switch_member", "switch_move", "switch_rebind"}
LeaveSteps == {"leave_member", "leave_count", "leave_delete", "leave_active",
               "leave_fallback", "leave_revoke", "leave_move"}
RemoveSteps == {"remove_delete", "remove_revoke", "remove_fallback", "remove_move"}

Step ==
  {"login_member", "login_mint",
   "refresh_member", "refresh_cas", "refresh_mint",
   "change_commit", "change_member", "change_mint",
   "forgot_commit", "reset_commit", "org_mint"}
  \cup SwitchSteps \cup LeaveSteps \cup RemoveSteps

Idle == [pc |-> "idle", user |-> None, org |-> None, to |-> None, tok |-> None,
         rtok |-> None, stale |-> {}, right |-> "check", won |-> 0]

Request ==
  {Idle} \cup
  [pc : Step, user : Users, org : Orgs \cup {None}, to : Orgs \cup {None},
   tok : Tokens \cup {None}, rtok : ResetTokens \cup {None},
   stale : SUBSET ResetTokens, right : Right, won : Password]

TypeOK ==
  /\ password  \in [Users -> Password]
  /\ activeOrg \in [Users -> Orgs]
  /\ member    \in SUBSET (Users \X Orgs)
  /\ rows      \in [Tokens -> RefreshToken]
  /\ access    \in SUBSET AccessToken
  /\ resets    \in [ResetTokens -> ResetRow]
  /\ req       \in [Requests -> Request]

Init ==
  /\ password = [u \in Users |-> 0]
  /\ activeOrg \in [Users -> Orgs]
  /\ member = {<<u, activeOrg[u]>> : u \in Users}
  /\ rows   = [t \in Tokens |-> NoRow]
  /\ access = {}
  /\ resets = [k \in ResetTokens |-> NoReset]
  /\ req    = [r \in Requests |-> Idle]

-----------------------------------------------------------------------------
(* The statements the handlers share *)

Live(t) == rows[t].st = "live"

(* updateMany over the RefreshToken rows of S with revokedAt null *)
Revoked(S) ==
  [t \in Tokens |-> IF t \in S /\ Live(t) THEN [rows[t] EXCEPT !.st = "revoked"]
                                          ELSE rows[t]]

RowsOf(u) == {t \in Tokens : rows[t].user = u}

(* randomUUID: a session identity nothing has used *)
FreshSid(s) == \A t \in Tokens : rows[t].sid # s

(* generateTokens: sign an access token, insert one live row *)
Mint(t, u, o, s, p, since, escaped) ==
  /\ rows[t].st = "absent"
  /\ rows' = [rows EXCEPT ![t] =
       [st |-> "live", user |-> u, org |-> o, sid |-> s, expired |-> FALSE,
        parent |-> p, since |-> since, escaped |-> escaped]]
  /\ access' = access \cup {<<u, o, since>>}

(* The right of q, if it is older than the password in force *)
Outdated(q) == IF q.won < password[q.user] THEN q.right ELSE None

(* generateTokens without opts.sessionId: the first token of a session *)
OpenSession(q) ==
  \E t \in Tokens, s \in Sids :
    /\ FreshSid(s)
    /\ Mint(t, q.user, q.org, s, None, q.won, Outdated(q))

IsAt(r, step) == req[r].pc = step
Goto(r, step) == req' = [req EXCEPT ![r].pc = step]
Finish(r) == req' = [req EXCEPT ![r] = Idle]

(* A lookup of the OrganizationMember row the request names *)
IsMember(r) == <<req[r].user, req[r].org>> \in member

(* CombinedAuthGuard: the (user, organization) of an access token, whose   *)
(* session goes back to p, is a current membership                         *)
Bearer(u, o, p) == <<u, o, p>> \in access /\ <<u, o>> \in member
Authorized(u, o) == \E p \in Password : Bearer(u, o, p)

-----------------------------------------------------------------------------
(* login: the password is compared with the hash read first; a user with   *)
(* MFA gets the name of a challenge for an answer and nothing is written   *)

LoginVerify(r, u) ==
  /\ IsAt(r, "idle")
  /\ req' = [req EXCEPT ![r] = [Idle EXCEPT !.pc = "login_member", !.user = u,
                                            !.org = activeOrg[u],
                                            !.won = password[u]]]
  /\ UNCHANGED <<password, activeOrg, member, rows, access, resets>>

LoginMember(r) ==
  /\ IsAt(r, "login_member")
  /\ IF IsMember(r) THEN Goto(r, "login_mint") ELSE Finish(r)
  /\ UNCHANGED <<password, activeOrg, member, rows, access, resets>>

LoginMint(r) ==
  /\ IsAt(r, "login_mint")
  /\ OpenSession(req[r])
  /\ Finish(r)
  /\ UNCHANGED <<password, activeOrg, member, resets>>

(* verifyLoginMfa: the code is right, and the two steps above follow.  No  *)
(* password is compared again and nothing ties the code to the comparison  *)
(* login made: it may be of any earlier password.                          *)
MfaVerify(r, u) ==
  /\ IsAt(r, "idle")
  /\ \E p \in 0..password[u] :
       req' = [req EXCEPT ![r] = [Idle EXCEPT !.pc = "login_member", !.user = u,
                                              !.org = activeOrg[u],
                                              !.right = "challenge", !.won = p]]
  /\ UNCHANGED <<password, activeOrg, member, rows, access, resets>>

-----------------------------------------------------------------------------
(* refresh: look up, check membership, revoke by compare-and-swap, mint *)

RefreshLookup(r, t) ==
  /\ IsAt(r, "idle")
  /\ Live(t) /\ ~rows[t].expired
  /\ req' = [req EXCEPT ![r] =
       [Idle EXCEPT !.pc = "refresh_member", !.tok = t, !.user = rows[t].user,
                    !.org = activeOrg[rows[t].user]]]
  /\ UNCHANGED <<password, activeOrg, member, rows, access, resets>>

RefreshMember(r) ==
  /\ IsAt(r, "refresh_member")
  /\ IF IsMember(r)
     THEN Goto(r, "refresh_cas") /\ UNCHANGED rows
     ELSE Finish(r) /\ rows' = [rows EXCEPT ![req[r].tok].st = "revoked"]
  /\ UNCHANGED <<password, activeOrg, member, access, resets>>

(* Variant for mutation: the revocation without its revokedAt-null guard *)
RefreshCasUnguarded(r) ==
  /\ IsAt(r, "refresh_cas")
  /\ rows' = Revoked({req[r].tok})
  /\ req' = [req EXCEPT ![r].pc = "refresh_mint", ![r].won = password[req[r].user]]
  /\ UNCHANGED <<password, activeOrg, member, access, resets>>

RefreshCas(r) ==
  /\ IsAt(r, "refresh_cas")
  /\ IF Live(req[r].tok)
     THEN /\ rows' = Revoked({req[r].tok})
          /\ req' = [req EXCEPT ![r].pc = "refresh_mint",
                                ![r].won = password[req[r].user]]
     ELSE Finish(r) /\ UNCHANGED rows
  /\ UNCHANGED <<password, activeOrg, member, access, resets>>

RefreshMint(r) ==
  /\ IsAt(r, "refresh_mint")
  /\ LET u   == req[r].user
         old == rows[req[r].tok]
     IN  \E t \in Tokens :
           Mint(t, u, req[r].org, old.sid, req[r].tok, old.since,
                IF old.escaped # None THEN old.escaped ELSE Outdated(req[r]))
  /\ Finish(r)
  /\ UNCHANGED <<password, activeOrg, member, resets>>

-----------------------------------------------------------------------------
(* logout and the session endpoints: one updateMany each.  The caller is   *)
(* known by an access token, which outlives the revocation of its session, *)
(* and may name any session identity.                                      *)

Logout(u) ==
  /\ \E o \in Orgs : Authorized(u, o)
  /\ rows' = Revoked(RowsOf(u))
  /\ UNCHANGED <<password, activeOrg, member, access, resets, req>>

(* DELETE sessions/:sessionId and sessions/current *)
RevokeSession(u, s) ==
  /\ \E o \in Orgs : Authorized(u, o)
  /\ rows' = Revoked({t \in RowsOf(u) : rows[t].sid = s})
  /\ UNCHANGED <<password, activeOrg, member, access, resets, req>>

RevokeOtherSessions(u, s) ==
  /\ \E o \in Orgs : Authorized(u, o)
  /\ \E t \in RowsOf(u) : rows[t].sid = s
  /\ rows' = Revoked({t \in RowsOf(u) : rows[t].sid # s})
  /\ UNCHANGED <<password, activeOrg, member, access, resets, req>>

-----------------------------------------------------------------------------
(* changePassword: reauthenticate, then commit hash and revocation         *)
(* together, then bind a fresh session to the organization of the JWT      *)

ChangeVerify(r, u, o) ==
  /\ IsAt(r, "idle")
  /\ Authorized(u, o)
  /\ req' = [req EXCEPT ![r] = [Idle EXCEPT !.pc = "change_commit", !.user = u,
                                            !.org = o]]
  /\ UNCHANGED <<password, activeOrg, member, rows, access, resets>>

(* Variant for mutation: the hash changes and the sessions stay *)
SetPasswordOnly(u) ==
  /\ password[u] < MaxPassword
  /\ password' = [password EXCEPT ![u] = @ + 1]
  /\ UNCHANGED rows

(* The transaction both password writers commit *)
SetPassword(u) ==
  /\ password[u] < MaxPassword
  /\ password' = [password EXCEPT ![u] = @ + 1]
  /\ rows' = Revoked(RowsOf(u))

ChangeCommit(r) ==
  /\ IsAt(r, "change_commit")
  /\ SetPassword(req[r].user)
  /\ req' = [req EXCEPT ![r].pc = "change_member",
                        ![r].won = password'[req[r].user]]
  /\ UNCHANGED <<activeOrg, member, access, resets>>

ChangeMember(r) ==
  /\ IsAt(r, "change_member")
  /\ IF IsMember(r) THEN Goto(r, "change_mint") ELSE Finish(r)
  /\ UNCHANGED <<password, activeOrg, member, rows, access, resets>>

ChangeMint(r) ==
  /\ IsAt(r, "change_mint")
  /\ OpenSession(req[r])
  /\ Finish(r)
  /\ UNCHANGED <<password, activeOrg, member, resets>>

-----------------------------------------------------------------------------
(* forgotPassword: the superseding updateMany sees the rows committed when *)
(* it starts; its effect and the new row appear when the transaction       *)
(* commits.                                                                *)

Usable(k) == resets[k].st = "usable"

ForgotSupersede(r, u) ==
  /\ IsAt(r, "idle")
  /\ req' = [req EXCEPT ![r] =
       [Idle EXCEPT !.pc = "forgot_commit", !.user = u,
                    !.stale = {k \in ResetTokens : Usable(k) /\ resets[k].user = u}]]
  /\ UNCHANGED <<password, activeOrg, member, rows, access, resets>>

ForgotCommit(r) ==
  /\ IsAt(r, "forgot_commit")
  /\ \E new \in ResetTokens :
       /\ resets[new].st = "absent"
       /\ resets' = [k \in ResetTokens |->
            CASE k = new -> [NoReset EXCEPT !.st = "usable", !.user = req[r].user]
              [] k \in req[r].stale /\ Usable(k) -> [resets[k] EXCEPT !.st = "used"]
              [] OTHER -> resets[k]]
  /\ Finish(r)
  /\ UNCHANGED <<password, activeOrg, member, rows, access>>

(* resetPassword: look up, then consume by compare-and-swap together with  *)
(* the new hash and the revocation                                         *)
ResetLookup(r, k) ==
  /\ IsAt(r, "idle")
  /\ Usable(k)
  /\ req' = [req EXCEPT ![r] = [Idle EXCEPT !.pc = "reset_commit", !.rtok = k,
                                            !.user = resets[k].user]]
  /\ UNCHANGED <<password, activeOrg, member, rows, access, resets>>

(* Variant for mutation: the token is marked used without checking usedAt *)
ResetCommitUnguarded(r) ==
  /\ IsAt(r, "reset_commit")
  /\ SetPassword(req[r].user)
  /\ resets' = [resets EXCEPT ![req[r].rtok].st = "used", ![req[r].rtok].resets = @ + 1]
  /\ Finish(r)
  /\ UNCHANGED <<activeOrg, member, access>>

ResetCommit(r) ==
  /\ IsAt(r, "reset_commit")
  /\ IF Usable(req[r].rtok)
     THEN /\ SetPassword(req[r].user)
          /\ resets' = [resets EXCEPT ![req[r].rtok].st = "used",
                                      ![req[r].rtok].resets = @ + 1]
     ELSE UNCHANGED <<password, rows, resets>>
  /\ Finish(r)
  /\ UNCHANGED <<activeOrg, member, access>>

-----------------------------------------------------------------------------
(* The organization endpoints.  The caller of a switch or a leave is the   *)
(* bearer of an access token of some organization.                         *)

BeginAsBearer(r, u, o, first) ==
  /\ IsAt(r, "idle")
  /\ \E here \in Orgs, p \in Password :
       /\ Bearer(u, here, p)
       /\ req' = [req EXCEPT ![r] = [Idle EXCEPT !.pc = first, !.user = u, !.org = o,
                                                !.right = "bearer", !.won = p]]
  /\ UNCHANGED <<password, activeOrg, member, rows, access, resets>>

(* requireMembership of organizations.service.ts *)
SwitchMember(r) ==
  /\ IsAt(r, "switch_member")
  /\ IF IsMember(r) THEN Goto(r, "switch_move") ELSE Finish(r)
  /\ UNCHANGED <<password, activeOrg, member, rows, access, resets>>

SwitchMove(r) ==
  /\ IsAt(r, "switch_move")
  /\ activeOrg' = [activeOrg EXCEPT ![req[r].user] = req[r].org]
  /\ Goto(r, "switch_rebind")
  /\ UNCHANGED <<password, member, rows, access, resets>>

(* Every live row of the user follows it to the organization *)
SwitchRebind(r) ==
  /\ IsAt(r, "switch_rebind")
  /\ rows' = [t \in Tokens |-> IF t \in RowsOf(req[r].user) /\ Live(t)
                               THEN [rows[t] EXCEPT !.org = req[r].org] ELSE rows[t]]
  /\ Goto(r, "org_mint")
  /\ UNCHANGED <<password, activeOrg, member, access, resets>>

(* issueTokensForOrg: a session of its own, the old ones left alone *)
OrgMint(r) ==
  /\ IsAt(r, "org_mint")
  /\ OpenSession(req[r])
  /\ Finish(r)
  /\ UNCHANGED <<password, activeOrg, member, resets>>

(* leaveOrganization *)
LeaveMember(r) ==
  /\ IsAt(r, "leave_member")
  /\ IF IsMember(r) THEN Goto(r, "leave_count") ELSE Finish(r)
  /\ UNCHANGED <<password, activeOrg, member, rows, access, resets>>

LeaveCount(r) ==
  /\ IsAt(r, "leave_count")
  /\ IF \E o1, o2 \in Orgs : o1 # o2 /\ {<<req[r].user, o1>>, <<req[r].user, o2>>} \subseteq member
     THEN Goto(r, "leave_delete") ELSE Finish(r)
  /\ UNCHANGED <<password, activeOrg, member, rows, access, resets>>

(* The membership is deleted by its id: one that is gone throws *)
DeleteMembership(r, next) ==
  /\ member' = member \ {<<req[r].user, req[r].org>>}
  /\ IF IsMember(r) THEN Goto(r, next) ELSE Finish(r)
  /\ UNCHANGED <<password, activeOrg, rows, access, resets>>

(* resolveFallbackOrganization: the oldest other membership, here any one *)
FallBack(r, next) ==
  /\ IF \E o \in Orgs \ {req[r].org} : <<req[r].user, o>> \in member
     THEN \E o \in Orgs \ {req[r].org} :
            /\ <<req[r].user, o>> \in member
            /\ req' = [req EXCEPT ![r].pc = next, ![r].to = o]
     ELSE Finish(r)
  /\ UNCHANGED <<password, activeOrg, member, rows, access, resets>>

RowsIn(u, o) == {t \in RowsOf(u) : rows[t].org = o}

LeaveDelete(r) == IsAt(r, "leave_delete") /\ DeleteMembership(r, "leave_active")

(* isActiveOrg *)
LeaveActive(r) ==
  /\ IsAt(r, "leave_active")
  /\ IF activeOrg[req[r].user] = req[r].org THEN Goto(r, "leave_fallback") ELSE Finish(r)
  /\ UNCHANGED <<password, activeOrg, member, rows, access, resets>>

LeaveFallback(r) == IsAt(r, "leave_fallback") /\ FallBack(r, "leave_revoke")

LeaveRevoke(r) ==
  /\ IsAt(r, "leave_revoke")
  /\ rows' = Revoked(RowsIn(req[r].user, req[r].org))
  /\ Goto(r, "leave_move")
  /\ UNCHANGED <<password, activeOrg, member, access, resets>>

LeaveMove(r) ==
  /\ IsAt(r, "leave_move")
  /\ activeOrg' = [activeOrg EXCEPT ![req[r].user] = req[r].to]
  /\ req' = [req EXCEPT ![r].pc = "org_mint", ![r].org = req[r].to]
  /\ UNCHANGED <<password, member, rows, access, resets>>

(* removeMember, and removeUser of the admin routes, by another user: the  *)
(* active organization is the one read with the membership                 *)
RemoveLookup(r, u, o) ==
  /\ IsAt(r, "idle")
  /\ <<u, o>> \in member
  /\ req' = [req EXCEPT ![r] = [Idle EXCEPT !.pc = "remove_delete", !.user = u,
                                           !.org = o, !.to = activeOrg[u]]]
  /\ UNCHANGED <<password, activeOrg, member, rows, access, resets>>

RemoveDelete(r) == IsAt(r, "remove_delete") /\ DeleteMembership(r, "remove_revoke")

RemoveRevoke(r) ==
  /\ IsAt(r, "remove_revoke")
  /\ rows' = Revoked(RowsIn(req[r].user, req[r].org))
  /\ IF req[r].to = req[r].org THEN Goto(r, "remove_fallback") ELSE Finish(r)
  /\ UNCHANGED <<password, activeOrg, member, access, resets>>

RemoveFallback(r) == IsAt(r, "remove_fallback") /\ FallBack(r, "remove_move")

RemoveMove(r) ==
  /\ IsAt(r, "remove_move")
  /\ activeOrg' = [activeOrg EXCEPT ![req[r].user] = req[r].to]
  /\ Finish(r)
  /\ UNCHANGED <<password, member, rows, access, resets>>

-----------------------------------------------------------------------------
(* The environment: time, failures, and memberships that come *)

ExpireToken(t) ==
  /\ Live(t) /\ ~rows[t].expired
  /\ rows' = [rows EXCEPT ![t].expired = TRUE]
  /\ UNCHANGED <<password, activeOrg, member, access, resets, req>>

ExpireReset(k) ==
  /\ Usable(k)
  /\ resets' = [resets EXCEPT ![k].st = "expired"]
  /\ UNCHANGED <<password, activeOrg, member, rows, access, req>>

(* The process dies or a database call throws: what is committed stays *)
Abort(r) ==
  /\ ~IsAt(r, "idle")
  /\ Finish(r)
  /\ UNCHANGED <<password, activeOrg, member, rows, access, resets>>

(* An access token is past its 15 minutes *)
ExpireAccess(j) ==
  /\ access' = access \ {j}
  /\ UNCHANGED <<password, activeOrg, member, rows, resets, req>>

(* acceptInvitation and createOrganization, by the bearer of an access     *)
(* token: a membership comes and no session is touched                     *)
Join(u, o) ==
  /\ \E here \in Orgs : Authorized(u, here)
  /\ <<u, o>> \notin member
  /\ member' = member \cup {<<u, o>>}
  /\ UNCHANGED <<password, activeOrg, rows, access, resets, req>>

-----------------------------------------------------------------------------
LoginStep(r) ==
  \/ \E u \in Users : LoginVerify(r, u) \/ MfaVerify(r, u)
  \/ LoginMember(r)
  \/ LoginMint(r)

RefreshStep(r) ==
  \/ \E t \in Tokens : RefreshLookup(r, t)
  \/ RefreshMember(r)
  \/ RefreshCas(r)
  \/ RefreshMint(r)

ChangeStep(r) ==
  \/ \E u \in Users, o \in Orgs : ChangeVerify(r, u, o)
  \/ ChangeCommit(r)
  \/ ChangeMember(r)
  \/ ChangeMint(r)

ResetStep(r) ==
  \/ \E u \in Users : ForgotSupersede(r, u)
  \/ ForgotCommit(r)
  \/ \E k \in ResetTokens : ResetLookup(r, k)
  \/ ResetCommit(r)

SwitchStep(r) ==
  \/ \E u \in Users, o \in Orgs : BeginAsBearer(r, u, o, "switch_member")
  \/ SwitchMember(r)
  \/ SwitchMove(r)
  \/ SwitchRebind(r)
  \/ OrgMint(r)

LeaveStep(r) ==
  \/ \E u \in Users, o \in Orgs : BeginAsBearer(r, u, o, "leave_member")
  \/ LeaveMember(r)
  \/ LeaveCount(r)
  \/ LeaveDelete(r)
  \/ LeaveActive(r)
  \/ LeaveFallback(r)
  \/ LeaveRevoke(r)
  \/ LeaveMove(r)

RemoveStep(r) ==
  \/ \E u \in Users, o \in Orgs : RemoveLookup(r, u, o)
  \/ RemoveDelete(r)
  \/ RemoveRevoke(r)
  \/ RemoveFallback(r)
  \/ RemoveMove(r)

SessionStep(u) ==
  \/ Logout(u)
  \/ \E s \in Sids : RevokeSession(u, s) \/ RevokeOtherSessions(u, s)

Environment ==
  \/ \E t \in Tokens : ExpireToken(t)
  \/ \E k \in ResetTokens : ExpireReset(k)
  \/ \E j \in access : ExpireAccess(j)
  \/ \E u \in Users, o \in Orgs : Join(u, o)

Next ==
  \/ \E r \in Requests :
       \/ LoginStep(r) \/ RefreshStep(r) \/ ChangeStep(r) \/ ResetStep(r)
       \/ SwitchStep(r) \/ LeaveStep(r) \/ RemoveStep(r)
       \/ Abort(r)
  \/ \E u \in Users : SessionStep(u)
  \/ Environment

Spec == Init /\ [][Next]_vars

-----------------------------------------------------------------------------
(* Properties *)

(* A refresh token is exchanged at most once: however many tabs present it  *)
(* at the same time, at most one row was rotated from it (the              *)
(* compare-and-swap in refresh).                                            *)
RotationSingleUse ==
  \A t1, t2 \in Tokens :
    rows[t1].parent # None /\ rows[t1].parent = rows[t2].parent => t1 = t2

(* A session is at any time either one live token or one refresh that has   *)
(* taken the right to mint the next one, never two: listSessions may show   *)
(* one row per session, and revoking that row ends the session.             *)
Minting(r) == req[r].pc = "refresh_mint"

OneHolderPerSession ==
  /\ \A t1, t2 \in Tokens :
       Live(t1) /\ Live(t2) /\ rows[t1].sid = rows[t2].sid => t1 = t2
  /\ \A r1, r2 \in Requests :
       Minting(r1) /\ Minting(r2) /\ rows[req[r1].tok].sid = rows[req[r2].tok].sid
         => r1 = r2
  /\ \A r \in Requests, t \in Tokens :
       Minting(r) /\ Live(t) => rows[req[r].tok].sid # rows[t].sid

(* changePassword and resetPassword end every session that goes back to an *)
(* earlier password but those, and the ones rotated from them, that a      *)
(* request minted on a right older than the change:                        *)
(*   check: the request was between its password comparison or its         *)
(*     compare-and-swap and its insert when the password changed;          *)
(*   challenge: the second factor was verified for a password comparison   *)
(*     made before the change, which verifyLoginMfa does not repeat;       *)
(*   bearer: switchOrganization or leaveOrganization was called with an    *)
(*     access token issued before the change, good for 15 minutes more.    *)
(* No refresh, login or change opens another hole.                         *)
OnlyOlderRightsSurvive ==
  \A t \in Tokens :
    Live(t) /\ rows[t].since # password[rows[t].user] => rows[t].escaped \in Right

(* One reset token sets at most one password, whatever requests race to     *)
(* consume it.                                                              *)
ResetSingleUse == \A k \in ResetTokens : resets[k].resets <= 1

(* What the documentation says and the interleavings deny: changePassword   *)
(* "revokes all existing sessions" (auth.service.ts:363).                   *)
PasswordChangeEndsSessions ==
  \A t \in Tokens : Live(t) => rows[t].since = password[rows[t].user]

(* "superseded tokens marked usedAt when new forgot-password request        *)
(* arrives" (docs/tech-lead/14_DECISION_LOG.md:56): one usable reset token  *)
(* per user.                                                                *)
OneUsableReset ==
  \A k1, k2 \in ResetTokens :
    Usable(k1) /\ Usable(k2) /\ resets[k1].user = resets[k2].user => k1 = k2
=============================================================================

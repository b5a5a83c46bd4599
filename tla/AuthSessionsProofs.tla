------------------------- MODULE AuthSessionsProofs -------------------------
(***************************************************************************)
(* Proofs about AuthSessions, for any number of users, requests, tokens    *)
(* and password changes.                                                   *)
(***************************************************************************)
EXTENDS AuthSessions, TLAPS

(* The token a request in flight refers to is the one its user presented.  *)
Refreshing(r) == req[r].pc \in {"refresh_member", "refresh_cas", "refresh_mint"}

RefreshingOwnToken ==
  \A r \in Requests :
    Refreshing(r) => /\ req[r].tok \in Tokens
                     /\ rows[req[r].tok].st # "absent"
                     /\ rows[req[r].tok].user = req[r].user
                     /\ req[r].org \in Orgs

(* A request that may mint has revoked its token, and nothing was rotated  *)
(* from that token yet.                                                    *)
MintingUnrotated ==
  \A r \in Requests :
    Minting(r) => /\ rows[req[r].tok].st = "revoked"
                  /\ \A t \in Tokens : rows[t].parent # req[r].tok

(* Only a revoked token has a successor. *)
ParentRevoked ==
  \A t \in Tokens : rows[t].parent # None => rows[rows[t].parent].st = "revoked"

(* Steps on the way to a session of its own, and steps whose organization   *)
(* to fall back to is known                                                *)
OpeningSteps ==
  {"login_member", "login_mint", "change_member", "change_mint", "org_mint",
   "switch_member", "switch_move", "switch_rebind",
   "leave_member", "leave_count", "leave_delete", "leave_active",
   "leave_fallback", "leave_revoke", "leave_move"}
FallingSteps == {"leave_revoke", "leave_move", "remove_move"}

Opening(r) == req[r].pc \in OpeningSteps

(* A right to mint goes back to the password in force or an earlier one;   *)
(* when to the one in force, the chain is not behind it either.            *)
MintRight ==
  \A r \in Requests :
    /\ Opening(r) => req[r].org \in Orgs /\ req[r].won <= password[req[r].user]
    /\ req[r].pc \in FallingSteps => req[r].to \in Orgs
    /\ req[r].pc = "change_commit" => req[r].org \in Orgs
    /\ Minting(r) => /\ req[r].won <= password[req[r].user]
                     /\ req[r].won = password[req[r].user] /\ rows[req[r].tok].escaped = None
                          => rows[req[r].tok].since = password[req[r].user]

(* Rows and access tokens go back to the password in force or an earlier   *)
(* one.                                                                    *)
IssuedPast ==
  /\ \A u \in Users, o \in Orgs, p \in Password : <<u, o, p>> \in access => p <= password[u]
  /\ \A t \in Tokens : rows[t].st # "absent" => rows[t].since <= password[rows[t].user]

(* A live row that no older right was used for is of the password in force. *)
UnescapedCurrent ==
  \A t \in Tokens :
    Live(t) /\ rows[t].escaped = None => rows[t].since = password[rows[t].user]

(* A reset token that has set a password is no longer usable. *)
ResetCount ==
  \A k \in ResetTokens :
    IF resets[k].st = "used" THEN resets[k].resets <= 1 ELSE resets[k].resets = 0

(* The row a resetPassword call looked up exists and is its user's. *)
ResettingOwnToken ==
  \A r \in Requests :
    req[r].pc = "reset_commit" => /\ req[r].rtok \in ResetTokens
                                  /\ resets[req[r].rtok].st # "absent"

IInv ==
  /\ TypeOK
  /\ RefreshingOwnToken
  /\ MintingUnrotated
  /\ ParentRevoked
  /\ MintRight
  /\ IssuedPast
  /\ ResetCount
  /\ ResettingOwnToken
  /\ RotationSingleUse
  /\ OneHolderPerSession
  /\ UnescapedCurrent

-----------------------------------------------------------------------------
(* What a request in flight and a row hold. *)
LEMMA RequestFields ==
  ASSUME TypeOK, NEW r \in Requests, req[r].pc # "idle"
  PROVE  /\ req[r].user \in Users
         /\ req[r].org \in Orgs \cup {None}
         /\ req[r].won \in Password
         /\ req[r].right \in Right
         /\ req[r].stale \in SUBSET ResetTokens
BY DEF TypeOK, Request, Idle

LEMMA RowFields ==
  ASSUME TypeOK, NEW t \in Tokens, rows[t].st # "absent"
  PROVE  /\ rows[t].user \in Users
         /\ rows[t].org \in Orgs
         /\ rows[t].sid \in Sids
         /\ rows[t].since \in Password
         /\ rows[t].escaped \in Right \cup {None}
         /\ rows[t].st \in {"live", "revoked"}
BY DEF TypeOK, RefreshToken, NoRow

LEMMA AbsentRow ==
  ASSUME TypeOK, NEW t \in Tokens, rows[t].st = "absent"
  PROVE  rows[t] = NoRow
BY DEF TypeOK, RefreshToken

LEMMA ParentType ==
  ASSUME TypeOK, NEW t \in Tokens
  PROVE  rows[t].parent \in Tokens \cup {None}
BY DEF TypeOK, RefreshToken, NoRow

(* A request that starts is Idle with some fields set. *)
AnyRequest ==
  [pc : Step \cup {"idle"}, user : Users \cup {None}, org : Orgs \cup {None},
   to : Orgs \cup {None}, tok : Tokens \cup {None}, rtok : ResetTokens \cup {None},
   stale : SUBSET ResetTokens, right : Right, won : Password]

LEMMA IdleRequest == Idle \in AnyRequest
<1>1. {} \in SUBSET ResetTokens /\ 0 \in Password /\ "check" \in Right
  BY BoundAssumption DEF Password, Right
<1> QED
  BY <1>1 DEF Idle, AnyRequest

LEMMA StartedRequest ==
  ASSUME NEW q \in AnyRequest, q.pc \in Step, q.user \in Users
  PROVE  q \in Request
BY DEF AnyRequest, Request

(* A revocation changes the status of live rows and nothing else. *)
LEMMA RevokedRows ==
  ASSUME TypeOK, NEW S
  PROVE  /\ Revoked(S) \in [Tokens -> RefreshToken]
         /\ \A t \in Tokens :
              /\ Revoked(S)[t].user = rows[t].user
              /\ Revoked(S)[t].sid = rows[t].sid
              /\ Revoked(S)[t].parent = rows[t].parent
              /\ Revoked(S)[t].since = rows[t].since
              /\ Revoked(S)[t].escaped = rows[t].escaped
              /\ Revoked(S)[t].st =
                   IF t \in S /\ Live(t) THEN "revoked" ELSE rows[t].st
<1> SUFFICES ASSUME NEW t \in Tokens
             PROVE  /\ Revoked(S)[t] \in RefreshToken
                    /\ Revoked(S)[t].user = rows[t].user
                    /\ Revoked(S)[t].sid = rows[t].sid
                    /\ Revoked(S)[t].parent = rows[t].parent
                    /\ Revoked(S)[t].since = rows[t].since
                    /\ Revoked(S)[t].escaped = rows[t].escaped
                    /\ Revoked(S)[t].st =
                         IF t \in S /\ Live(t) THEN "revoked" ELSE rows[t].st
  BY DEF Revoked
<1>1. rows[t] \in RefreshToken
  BY DEF TypeOK
<1>2. CASE t \in S /\ Live(t)
  <2>1. Revoked(S)[t] = [rows[t] EXCEPT !.st = "revoked"]
    BY <1>2 DEF Revoked
  <2>2. rows[t] # NoRow
    BY <1>2 DEF Live, NoRow
  <2> QED
    BY <1>1, <1>2, <2>1, <2>2 DEF RefreshToken
<1>3. CASE ~(t \in S /\ Live(t))
  BY <1>1, <1>3 DEF Revoked
<1> QED
  BY <1>2, <1>3

-----------------------------------------------------------------------------
(* Initially nothing has happened. *)
LEMMA InitIInv == Init => IInv
<1> SUFFICES ASSUME Init PROVE IInv
  OBVIOUS
<1>1. TypeOK
  <2>1. member \in SUBSET (Users \X Orgs)
    BY DEF Init
  <2>2. password \in [Users -> Password] /\ access \in SUBSET AccessToken
    BY BoundAssumption DEF Init, Password
  <2> QED
    BY <2>1, <2>2 DEF Init, TypeOK, RefreshToken, ResetRow, Request
<1>2. /\ \A r \in Requests : req[r].pc = "idle"
      /\ \A t \in Tokens : rows[t].st = "absent" /\ rows[t].parent = None
      /\ \A k \in ResetTokens : resets[k].st = "absent" /\ resets[k].resets = 0
      /\ access = {}
  BY DEF Init, Idle, NoRow, NoReset
<1> QED
  BY <1>1, <1>2 DEF IInv, RefreshingOwnToken, Refreshing, MintingUnrotated, Minting,
     ParentRevoked, MintRight, Opening, OpeningSteps, FallingSteps, IssuedPast, ResetCount, ResettingOwnToken,
     RotationSingleUse, OneHolderPerSession, UnescapedCurrent, Live

(* A step that only moves a request forward, short of the right to mint. *)
LEMMA RequestStep ==
  ASSUME IInv, NEW r \in Requests, NEW q \in Request,
         req' = [req EXCEPT ![r] = q],
         UNCHANGED <<password, activeOrg, member, rows, access, resets>>,
         q.pc \in {"idle", "login_member", "login_mint", "refresh_member", "refresh_cas",
                   "change_commit", "change_member", "change_mint", "forgot_commit",
                   "reset_commit"},
         q.pc \in {"refresh_member", "refresh_cas"} =>
           /\ q.tok \in Tokens
           /\ rows[q.tok].st # "absent"
           /\ rows[q.tok].user = q.user
           /\ q.org \in Orgs,
         q.pc \in {"login_member", "login_mint", "change_member", "change_mint"} =>
           q.org \in Orgs /\ q.won <= password[q.user],
         q.pc = "change_commit" => q.org \in Orgs,
         q.pc = "reset_commit" => q.rtok \in ResetTokens /\ resets[q.rtok].st # "absent"
  PROVE  IInv'
<1>1. /\ req'[r] = q
      /\ \A x \in Requests \ {r} : req'[x] = req[x]
  BY DEF IInv, TypeOK
<1>2. TypeOK'
  BY DEF IInv, TypeOK
<1>3. RefreshingOwnToken'
  BY <1>1 DEF IInv, RefreshingOwnToken, Refreshing
<1>4. MintingUnrotated'
  BY <1>1 DEF IInv, MintingUnrotated, Minting
<1>5. ParentRevoked'
  BY DEF IInv, ParentRevoked
<1>6. MintRight'
  BY <1>1 DEF IInv, MintRight, Opening, OpeningSteps, FallingSteps, Minting
<1>12. IssuedPast'
  BY DEF IInv, IssuedPast
<1>7. ResetCount'
  BY DEF IInv, ResetCount
<1>8. ResettingOwnToken'
  BY <1>1 DEF IInv, ResettingOwnToken
<1>9. RotationSingleUse'
  BY DEF IInv, RotationSingleUse
<1>10. OneHolderPerSession'
  BY <1>1 DEF IInv, OneHolderPerSession, Minting, Live
<1>11. UnescapedCurrent'
  BY DEF IInv, UnescapedCurrent, Live
<1> QED
  BY <1>2, <1>3, <1>4, <1>5, <1>6, <1>7, <1>8, <1>9, <1>10, <1>11, <1>12 DEF IInv

(* A request that is at a step of no concern to refreshes, password changes *)
(* and resets, with what its later steps need.                             *)
Quiet(q) ==
  /\ q.pc \notin {"refresh_member", "refresh_cas", "refresh_mint", "change_commit",
                 "reset_commit"}
  /\ q.pc \in OpeningSteps => q.org \in Orgs /\ q.won <= password[q.user]
  /\ q.pc \in FallingSteps => q.to \in Orgs

LEMMA IdleQuiet == Idle \in Request /\ Quiet(Idle)
BY DEF Idle, Request, Quiet, OpeningSteps, FallingSteps

(* A step that mints nothing and sets no password: rows are revoked, bound  *)
(* to another organization or left alone, memberships and active           *)
(* organizations are any, and requests stay or come to a quiet step.       *)
LEMMA QuietStep ==
  ASSUME IInv,
         UNCHANGED <<password, resets>>,
         activeOrg' \in [Users -> Orgs],
         member' \in SUBSET (Users \X Orgs),
         access' \in SUBSET access,
         rows' \in [Tokens -> RefreshToken],
         \A t \in Tokens :
           /\ rows'[t].user = rows[t].user
           /\ rows'[t].sid = rows[t].sid
           /\ rows'[t].parent = rows[t].parent
           /\ rows'[t].since = rows[t].since
           /\ rows'[t].escaped = rows[t].escaped
           /\ rows'[t].st = rows[t].st \/ (Live(t) /\ rows'[t].st = "revoked"),
         req' \in [Requests -> Request],
         \A x \in Requests : req'[x] = req[x] \/ Quiet(req'[x])
  PROVE  IInv'
<1> USE DEF IInv
<1>1. TypeOK'
  BY DEF TypeOK
<1>2. \A t \in Tokens : /\ Live(t)' => Live(t)
                        /\ rows[t].st # "absent" => rows'[t].st # "absent"
                        /\ rows[t].st = "revoked" => rows'[t].st = "revoked"
  BY DEF Live
<1>3. \A x \in Requests : Refreshing(x)' \/ req'[x].pc \in {"change_commit", "reset_commit"}
         => req'[x] = req[x]
  BY DEF Refreshing, Quiet
<1>4. RefreshingOwnToken'
  BY <1>2, <1>3 DEF RefreshingOwnToken, Refreshing
<1>5. \A x \in Requests : Minting(x)' =>
         /\ Minting(x) /\ req'[x] = req[x] /\ req[x].tok \in Tokens
         /\ rows[req[x].tok].st = "revoked"
  BY <1>3 DEF Minting, RefreshingOwnToken, Refreshing, MintingUnrotated
<1>6. MintingUnrotated'
  BY <1>2, <1>5 DEF MintingUnrotated
<1>7. ParentRevoked'
  BY <1>2, ParentType DEF ParentRevoked
<1>8. MintRight'
  <2> SUFFICES ASSUME NEW x \in Requests PROVE MintRight!(x)'
    BY DEF MintRight
  <2>1. CASE Quiet(req'[x])
    BY <2>1 DEF Quiet, Opening, Minting
  <2>2. CASE req'[x] = req[x]
    BY <1>5, <2>2 DEF MintRight, Opening, Minting
  <2> QED
    BY <2>1, <2>2
<1>9. ResetCount' /\ RotationSingleUse'
  BY DEF ResetCount, RotationSingleUse
<1>13. IssuedPast'
  <2>1. ASSUME NEW t \in Tokens, rows'[t].st # "absent"
        PROVE  rows'[t].since <= password'[rows'[t].user]
    BY <2>1 DEF IssuedPast, Live
  <2>2. ASSUME NEW u \in Users, NEW o \in Orgs, NEW p \in Password, <<u, o, p>> \in access'
        PROVE  p <= password'[u]
    BY <2>2 DEF IssuedPast
  <2> QED
    BY <2>1, <2>2 DEF IssuedPast
<1>10. ResettingOwnToken'
  BY <1>3 DEF ResettingOwnToken
<1>11. OneHolderPerSession'
  BY <1>2, <1>5 DEF OneHolderPerSession
<1>12. UnescapedCurrent'
  BY <1>2 DEF UnescapedCurrent
<1> QED
  BY <1>1, <1>4, <1>6, <1>7, <1>8, <1>9, <1>10, <1>11, <1>12, <1>13

(* A step that only revokes rows, and perhaps moves requests quietly. *)
LEMMA RevokeStep ==
  ASSUME IInv, NEW S,
         rows' = Revoked(S),
         req' \in [Requests -> Request],
         \A x \in Requests : req'[x] = req[x] \/ Quiet(req'[x]),
         UNCHANGED <<password, activeOrg, member, access, resets>>
  PROVE  IInv'
<1>1. /\ rows' \in [Tokens -> RefreshToken]
      /\ \A t \in Tokens :
           /\ rows'[t].user = rows[t].user
           /\ rows'[t].sid = rows[t].sid
           /\ rows'[t].parent = rows[t].parent
           /\ rows'[t].since = rows[t].since
           /\ rows'[t].escaped = rows[t].escaped
           /\ rows'[t].st = rows[t].st \/ (Live(t) /\ rows'[t].st = "revoked")
  BY RevokedRows DEF IInv
<1>2. activeOrg' \in [Users -> Orgs] /\ member' \in SUBSET (Users \X Orgs)
  BY DEF IInv, TypeOK
<1> QED
  BY <1>1, <1>2, QuietStep

(* login and changePassword: the first token of a session. *)
LEMMA OpenStep ==
  ASSUME IInv, NEW r \in Requests, Opening(r), OpenSession(req[r]), Finish(r),
         UNCHANGED <<password, activeOrg, member, resets>>
  PROVE  IInv'
<1> USE DEF IInv
<1>1. PICK t \in Tokens, s \in Sids :
        /\ FreshSid(s)
        /\ Mint(t, req[r].user, req[r].org, s, None, req[r].won,
                Outdated(req[r]))
  BY DEF OpenSession
<1> DEFINE row == [st |-> "live", user |-> req[r].user, org |-> req[r].org, sid |-> s,
                   expired |-> FALSE, parent |-> None, since |-> req[r].won,
                   escaped |-> Outdated(req[r])]
<1>2. /\ rows[t].st = "absent"
      /\ rows' = [rows EXCEPT ![t] = row]
      /\ access' = access \cup {<<req[r].user, req[r].org, req[r].won>>}
  BY <1>1 DEF Mint
<1>0. req[r].pc # "idle"
  BY DEF Opening, OpeningSteps
<1>3. /\ req[r].user \in Users
      /\ req[r].org \in Orgs
      /\ req[r].won \in Password
      /\ req[r].right \in Right
      /\ req[r].won <= password[req[r].user]
  BY <1>0, RequestFields DEF MintRight
<1>4. /\ req'[r] = Idle
      /\ \A x \in Requests \ {r} : req'[x] = req[x]
      /\ req' \in [Requests -> Request]
  BY DEF Finish, TypeOK, Request
<1>5. row \in RefreshToken
  BY <1>3 DEF RefreshToken, Outdated
<1>6. /\ rows'[t] = row
      /\ \A x \in Tokens \ {t} : rows'[x] = rows[x]
  BY <1>2 DEF TypeOK
<1> HIDE DEF row
<1>7. /\ row.st = "live" /\ row.parent = None /\ row.sid = s
      /\ row.user = req[r].user /\ row.since = req[r].won
      /\ row.escaped = Outdated(req[r])
  BY DEF row
<1>8. TypeOK'
  <2>1. access' \in SUBSET AccessToken
    BY <1>2, <1>3 DEF TypeOK, AccessToken
  <2> QED
    BY <1>2, <1>4, <1>5, <2>1 DEF TypeOK
<1>9. \A x \in Requests : Refreshing(x)' =>
         /\ req'[x] = req[x] /\ Refreshing(x)
         /\ req[x].tok \in Tokens \ {t}
         /\ rows'[req[x].tok] = rows[req[x].tok]
  BY <1>2, <1>4, <1>6 DEF Refreshing, RefreshingOwnToken, Idle
<1>10. RefreshingOwnToken'
  BY <1>9 DEF RefreshingOwnToken
<1>11. MintingUnrotated'
  <2> SUFFICES ASSUME NEW x \in Requests, Minting(x)'
               PROVE  /\ rows'[req'[x].tok].st = "revoked"
                      /\ \A u \in Tokens : rows'[u].parent # req'[x].tok
    BY DEF MintingUnrotated
  <2>1. /\ Minting(x) /\ req'[x] = req[x] /\ req[x].tok \in Tokens
        /\ rows'[req[x].tok] = rows[req[x].tok]
    BY <1>9 DEF Minting, Refreshing
  <2>2. \A u \in Tokens : rows[u].parent # req[x].tok
    BY <2>1 DEF MintingUnrotated
  <2> QED
    BY <1>6, <1>7, <2>1, <2>2, NoneAssumption DEF MintingUnrotated
<1>12. ParentRevoked'
  <2> SUFFICES ASSUME NEW u \in Tokens, rows'[u].parent # None
               PROVE  rows'[rows'[u].parent].st = "revoked"
    BY DEF ParentRevoked
  <2>1. u # t /\ rows'[u] = rows[u]
    BY <1>6, <1>7
  <2>2. rows[u].parent \in Tokens /\ rows[rows[u].parent].st = "revoked"
    BY <2>1, ParentType DEF ParentRevoked
  <2>3. rows[u].parent # t
    BY <1>2, <2>2
  <2> QED
    BY <1>6, <2>1, <2>2, <2>3
<1>13. MintRight'
  <2> SUFFICES ASSUME NEW x \in Requests PROVE MintRight!(x)'
    BY DEF MintRight
  <2>1. CASE x = r
    BY <1>4, <2>1 DEF Opening, OpeningSteps, FallingSteps, Minting, Idle
  <2>2. CASE x # r
    <3>1. req'[x] = req[x]
      BY <1>4, <2>2
    <3>2. Minting(x) => rows'[req[x].tok] = rows[req[x].tok]
      BY <1>9, <3>1 DEF Minting, Refreshing
    <3> QED
      BY <3>1, <3>2 DEF MintRight, Opening, Minting
  <2> QED
    BY <2>1, <2>2
<1>14. ResetCount' /\ IssuedPast'
  BY <1>2, <1>3, <1>6, <1>7 DEF ResetCount, IssuedPast
<1>15. ResettingOwnToken'
  BY <1>4 DEF ResettingOwnToken, Idle
<1>16. RotationSingleUse'
  BY <1>6, <1>7 DEF RotationSingleUse
<1>17. OneHolderPerSession'
  <2>1. \A x \in Requests : Minting(x)' =>
          /\ Minting(x) /\ req'[x].tok = req[x].tok /\ req[x].tok \in Tokens
          /\ rows'[req[x].tok] = rows[req[x].tok]
    BY <1>9 DEF Minting, Refreshing
  <2>2. \A u \in Tokens : rows[u].sid # s
    BY <1>1 DEF FreshSid
  <2> QED
    BY <1>6, <1>7, <2>1, <2>2 DEF OneHolderPerSession, Live
<1>18. UnescapedCurrent'
  <2>1. row.escaped = None => ~(req[r].won < password[req[r].user])
    BY <1>3, <1>7, NoneAssumption DEF Outdated
  <2>2. ~(req[r].won < password[req[r].user]) => req[r].won = password[req[r].user]
    BY <1>3, BoundAssumption DEF Password, TypeOK
  <2> QED
    BY <1>6, <1>7, <2>1, <2>2 DEF UnescapedCurrent, Live
<1> QED
  BY <1>8, <1>10, <1>11, <1>12, <1>13, <1>14, <1>15, <1>16, <1>17, <1>18

(* refresh wins its compare-and-swap. *)
LEMMA CasStep ==
  ASSUME IInv, NEW r \in Requests, RefreshCas(r), Live(req[r].tok)
  PROVE  IInv'
<1> USE DEF IInv
<1> DEFINE tok == req[r].tok
           q   == [req[r] EXCEPT !.pc = "refresh_mint", !.won = password[req[r].user]]
<1>1. /\ req[r].pc = "refresh_cas"
      /\ rows' = Revoked({tok})
      /\ req' = [req EXCEPT ![r].pc = "refresh_mint", ![r].won = password[req[r].user]]
      /\ UNCHANGED <<password, activeOrg, member, access, resets>>
  BY DEF RefreshCas, IsAt
<1>2. /\ tok \in Tokens
      /\ rows[tok].user = req[r].user
      /\ req[r].user \in Users
      /\ req[r].org \in Orgs
      /\ password[req[r].user] \in Password
  BY <1>1, RequestFields DEF RefreshingOwnToken, Refreshing, TypeOK
<1>3. /\ req[r] \in Request \ {Idle}
  BY <1>1 DEF TypeOK, Idle
<1>4. /\ q \in Request
      /\ q.pc = "refresh_mint" /\ q.tok = tok /\ q.user = req[r].user
      /\ q.org = req[r].org /\ q.won = password[req[r].user]
  BY <1>2, <1>3 DEF Request, Step
<1>5. /\ req'[r] = q
      /\ \A x \in Requests \ {r} : req'[x] = req[x]
      /\ req' \in [Requests -> Request]
  BY <1>1, <1>4 DEF TypeOK
<1> HIDE DEF q
<1>6. /\ rows' \in [Tokens -> RefreshToken]
      /\ \A t \in Tokens :
           /\ rows'[t].user = rows[t].user
           /\ rows'[t].sid = rows[t].sid
           /\ rows'[t].parent = rows[t].parent
           /\ rows'[t].since = rows[t].since
           /\ rows'[t].escaped = rows[t].escaped
           /\ rows'[t].st = IF t = tok THEN "revoked" ELSE rows[t].st
  BY <1>1, RevokedRows DEF Live
<1>7. TypeOK'
  BY <1>1, <1>5, <1>6 DEF TypeOK
<1>8. RefreshingOwnToken'
  <2> SUFFICES ASSUME NEW x \in Requests, Refreshing(x)'
               PROVE  RefreshingOwnToken!(x)'
    BY DEF RefreshingOwnToken
  <2>1. CASE x = r
    BY <1>2, <1>4, <1>5, <1>6, <2>1 DEF Refreshing
  <2>2. CASE x # r
    BY <1>5, <1>6, <2>2 DEF Refreshing, RefreshingOwnToken
  <2> QED
    BY <2>1, <2>2
<1>9. \A x \in Requests \ {r} : Minting(x)' =>
        /\ Minting(x) /\ req'[x] = req[x]
        /\ req[x].tok \in Tokens
        /\ rows[req[x].tok].st = "revoked"
        /\ rows[req[x].tok].sid # rows[tok].sid
  BY <1>2, <1>5 DEF Minting, RefreshingOwnToken, Refreshing, MintingUnrotated,
     OneHolderPerSession
<1>10. \A t \in Tokens : rows[t].parent # tok
  BY <1>2, NoneAssumption DEF ParentRevoked, Live
<1>11. MintingUnrotated'
  <2> SUFFICES ASSUME NEW x \in Requests, Minting(x)'
               PROVE  /\ rows'[req'[x].tok].st = "revoked"
                      /\ \A t \in Tokens : rows'[t].parent # req'[x].tok
    BY DEF MintingUnrotated
  <2>1. CASE x = r
    BY <1>2, <1>4, <1>5, <1>6, <1>10, <2>1
  <2>2. CASE x # r
    BY <1>6, <1>9, <2>2 DEF MintingUnrotated
  <2> QED
    BY <2>1, <2>2
<1>12. ParentRevoked'
  BY <1>6, ParentType DEF ParentRevoked
<1>13. MintRight'
  <2> SUFFICES ASSUME NEW x \in Requests PROVE MintRight!(x)'
    BY DEF MintRight
  <2>1. CASE x = r
    <3>1. rows[tok].escaped = None => rows[tok].since = password[req[r].user]
      BY <1>2 DEF UnescapedCurrent
    <3>2. rows'[tok].since = rows[tok].since /\ rows'[tok].escaped = rows[tok].escaped
      BY <1>2, <1>6
    <3>3. password[req[r].user] \in Nat
      BY <1>2, BoundAssumption DEF Password
    <3> QED
      BY <1>1, <1>4, <1>5, <2>1, <3>1, <3>2, <3>3
         DEF Opening, OpeningSteps, FallingSteps, Minting
  <2>2. CASE x # r
    <3>1. req'[x] = req[x]
      BY <1>5, <2>2
    <3>2. Minting(x)' => /\ rows'[req[x].tok].since = rows[req[x].tok].since
                         /\ rows'[req[x].tok].escaped = rows[req[x].tok].escaped
      BY <1>6, <1>9, <2>2
    <3> QED
      BY <1>1, <3>1, <3>2 DEF MintRight, Opening, Minting
  <2> QED
    BY <2>1, <2>2
<1>14. ResetCount' /\ IssuedPast'
  BY <1>1, <1>2, <1>6 DEF ResetCount, IssuedPast, Live
<1>15. ResettingOwnToken'
  BY <1>1, <1>4, <1>5 DEF ResettingOwnToken
<1>16. RotationSingleUse'
  BY <1>6 DEF RotationSingleUse
<1>17. OneHolderPerSession'
  <2>1. \A t \in Tokens : Live(t)' => Live(t) /\ t # tok
    BY <1>6 DEF Live
  <2>2. req'[r].tok = tok /\ rows'[tok].sid = rows[tok].sid
    BY <1>2, <1>4, <1>5, <1>6
  <2> QED
    BY <1>2, <1>6, <1>9, <2>1, <2>2 DEF OneHolderPerSession
<1>18. UnescapedCurrent'
  BY <1>1, <1>6 DEF UnescapedCurrent, Live
<1> QED
  BY <1>7, <1>8, <1>11, <1>12, <1>13, <1>14, <1>15, <1>16, <1>17, <1>18

(* refresh inserts the successor of the token it revoked. *)
LEMMA MintStep ==
  ASSUME IInv, NEW r \in Requests, RefreshMint(r)
  PROVE  IInv'
<1> USE DEF IInv
<1> DEFINE tok == req[r].tok
           old == rows[tok]
<1>1. PICK t \in Tokens :
        Mint(t, req[r].user, req[r].org, old.sid, tok, old.since,
             IF old.escaped # None THEN old.escaped ELSE Outdated(req[r]))
  BY DEF RefreshMint
<1> DEFINE row == [st |-> "live", user |-> req[r].user, org |-> req[r].org,
                   sid |-> old.sid, expired |-> FALSE, parent |-> tok,
                   since |-> old.since,
                   escaped |-> IF old.escaped # None THEN old.escaped
                                                     ELSE Outdated(req[r])]
<1>2. /\ rows[t].st = "absent"
      /\ rows' = [rows EXCEPT ![t] = row]
      /\ access' = access \cup {<<req[r].user, req[r].org, old.since>>}
  BY <1>1 DEF Mint
<1>3. Minting(r) /\ UNCHANGED <<password, activeOrg, member, resets>>
  BY DEF RefreshMint, IsAt, Minting
<1>4. /\ tok \in Tokens
      /\ old.st = "revoked"
      /\ old.user = req[r].user
      /\ req[r].org \in Orgs
      /\ \A u \in Tokens : rows[u].parent # tok
  BY <1>3 DEF Minting, Refreshing, RefreshingOwnToken, MintingUnrotated
<1>5. /\ req[r].user \in Users
      /\ old.sid \in Sids /\ old.since \in Password /\ old.escaped \in Right \cup {None}
      /\ req[r].right \in Right /\ old.since <= password[req[r].user]
      /\ req[r].won \in Password /\ req[r].won <= password[req[r].user]
      /\ req[r].won = password[req[r].user] /\ old.escaped = None
           => old.since = password[req[r].user]
  BY <1>3, <1>4, RowFields, RequestFields DEF Minting, MintRight, IssuedPast
<1>6. /\ req'[r] = Idle
      /\ \A x \in Requests \ {r} : req'[x] = req[x]
      /\ req' \in [Requests -> Request]
  BY DEF RefreshMint, Finish, TypeOK, Request
<1>7. row \in RefreshToken
  BY <1>4, <1>5 DEF RefreshToken, Outdated
<1>8. /\ rows'[t] = row
      /\ \A x \in Tokens \ {t} : rows'[x] = rows[x]
      /\ t # tok
  BY <1>2, <1>4 DEF TypeOK
<1>9. /\ row.st = "live" /\ row.parent = tok /\ row.sid = old.sid
      /\ row.user = req[r].user /\ row.since = old.since
      /\ row.escaped = IF old.escaped # None THEN old.escaped ELSE Outdated(req[r])
  OBVIOUS
<1> HIDE DEF row
<1>10. TypeOK'
  <2>1. access' \in SUBSET AccessToken
    BY <1>2, <1>4, <1>5 DEF TypeOK, AccessToken
  <2> QED
    BY <1>2, <1>3, <1>6, <1>7, <2>1 DEF TypeOK
<1>11. \A x \in Requests : Refreshing(x)' =>
         /\ x # r /\ req'[x] = req[x] /\ Refreshing(x)
         /\ req[x].tok \in Tokens \ {t}
         /\ rows'[req[x].tok] = rows[req[x].tok]
  BY <1>2, <1>6, <1>8 DEF Refreshing, RefreshingOwnToken, Idle
<1>12. \A x \in Requests : Minting(x)' =>
         /\ x # r /\ Minting(x) /\ req'[x] = req[x]
         /\ req[x].tok \in Tokens \ {t}
         /\ rows'[req[x].tok] = rows[req[x].tok]
         /\ rows[req[x].tok].sid # old.sid
  BY <1>3, <1>11 DEF Minting, Refreshing, OneHolderPerSession
<1>13. RefreshingOwnToken'
  BY <1>11 DEF RefreshingOwnToken
<1>14. MintingUnrotated'
  <2> SUFFICES ASSUME NEW x \in Requests, Minting(x)'
               PROVE  /\ rows'[req[x].tok].st = "revoked"
                      /\ \A u \in Tokens : rows'[u].parent # req[x].tok
    BY <1>12 DEF MintingUnrotated
  <2>1. /\ rows[req[x].tok].st = "revoked" /\ req[x].tok # tok
        /\ \A u \in Tokens : rows[u].parent # req[x].tok
    BY <1>12 DEF MintingUnrotated
  <2> QED
    BY <1>8, <1>9, <1>12, <2>1
<1>15. ParentRevoked'
  <2> SUFFICES ASSUME NEW u \in Tokens, rows'[u].parent # None
               PROVE  rows'[rows'[u].parent].st = "revoked"
    BY DEF ParentRevoked
  <2>1. CASE u = t
    BY <1>4, <1>8, <1>9, <2>1
  <2>2. CASE u # t
    <3>1. /\ rows'[u] = rows[u] /\ rows[u].parent \in Tokens
          /\ rows[rows[u].parent].st = "revoked"
      BY <1>8, <2>2, ParentType DEF ParentRevoked
    <3> QED
      BY <1>2, <1>8, <3>1
  <2> QED
    BY <2>1, <2>2
<1>16. MintRight'
  <2> SUFFICES ASSUME NEW x \in Requests PROVE MintRight!(x)'
    BY DEF MintRight
  <2>1. CASE x = r
    BY <1>6, <2>1 DEF Opening, OpeningSteps, FallingSteps, Minting, Idle
  <2>2. CASE x # r
    <3>1. req'[x] = req[x] /\ (Minting(x)' => rows'[req[x].tok] = rows[req[x].tok])
      BY <1>6, <1>12, <2>2
    <3> QED
      BY <1>3, <3>1 DEF MintRight, Opening, Minting
  <2> QED
    BY <2>1, <2>2
<1>17. ResetCount' /\ IssuedPast'
  BY <1>2, <1>3, <1>4, <1>5, <1>8, <1>9 DEF ResetCount, IssuedPast
<1>18. ResettingOwnToken'
  BY <1>3, <1>6 DEF ResettingOwnToken, Idle
<1>19. RotationSingleUse'
  BY <1>4, <1>8, <1>9 DEF RotationSingleUse
<1>20. OneHolderPerSession'
  <2>1. \A u \in Tokens : Live(u) => rows[u].sid # old.sid
    BY <1>3 DEF OneHolderPerSession
  <2> QED
    BY <1>8, <1>9, <1>12, <2>1 DEF OneHolderPerSession, Live
<1>21. UnescapedCurrent'
  <2>1. row.escaped = None => old.escaped = None /\ ~(req[r].won < password[req[r].user])
    BY <1>5, <1>9, NoneAssumption DEF Outdated
  <2>2. ~(req[r].won < password[req[r].user]) => req[r].won = password[req[r].user]
    BY <1>5, BoundAssumption DEF Password, TypeOK
  <2>3. row.escaped = None => row.since = password[row.user]
    BY <1>5, <1>9, <2>1, <2>2
  <2> QED
    BY <1>3, <1>8, <2>3 DEF UnescapedCurrent, Live
<1> QED
  BY <1>10, <1>13, <1>14, <1>15, <1>16, <1>17, <1>18, <1>19, <1>20, <1>21

(* changePassword and resetPassword: the hash changes, the user's sessions  *)
(* go, and the request r that did it moves on to q.                        *)
LEMMA PasswordStep ==
  ASSUME IInv, NEW r \in Requests, NEW q \in Request, NEW u \in Users,
         SetPassword(u),
         req' = [req EXCEPT ![r] = q],
         UNCHANGED <<activeOrg, member, access>>,
         \/ q = Idle
         \/ /\ q.pc = "change_member" /\ q.org \in Orgs
            /\ q.user = u /\ q.won = password'[u],
         resets' \in [ResetTokens -> ResetRow], ResetCount',
         \A k \in ResetTokens : resets[k].st # "absent" => resets'[k].st # "absent"
  PROVE  IInv'
<1> USE DEF IInv
<1>1. /\ req'[r] = q
      /\ \A x \in Requests \ {r} : req'[x] = req[x]
      /\ req' \in [Requests -> Request]
      /\ q.pc \in {"idle", "change_member"}
  BY DEF TypeOK, Idle
<1>2. /\ password' \in [Users -> Password]
      /\ \A v \in Users : password[v] \in Nat /\ password'[v] \in Nat
      /\ password'[u] = password[u] + 1
      /\ \A v \in Users \ {u} : password'[v] = password[v]
  BY BoundAssumption DEF SetPassword, TypeOK, Password
<1>3. /\ rows' \in [Tokens -> RefreshToken]
      /\ \A t \in Tokens :
           /\ rows'[t].user = rows[t].user
           /\ rows'[t].sid = rows[t].sid
           /\ rows'[t].parent = rows[t].parent
           /\ rows'[t].since = rows[t].since
           /\ rows'[t].escaped = rows[t].escaped
           /\ rows'[t].st = IF t \in RowsOf(u) /\ Live(t) THEN "revoked" ELSE rows[t].st
  BY RevokedRows DEF SetPassword
<1>4. \A t \in Tokens :
        /\ Live(t)' => Live(t) /\ rows[t].user # u
        /\ rows[t].st # "absent" => rows'[t].st # "absent"
        /\ rows[t].st = "revoked" => rows'[t].st = "revoked"
  BY <1>3 DEF Live, RowsOf
<1>5. TypeOK'
  BY <1>1, <1>2, <1>3 DEF TypeOK
<1>6. \A x \in Requests : Refreshing(x)' => req'[x] = req[x] /\ Refreshing(x)
  BY <1>1 DEF Refreshing
<1>7. RefreshingOwnToken'
  BY <1>3, <1>4, <1>6 DEF RefreshingOwnToken
<1>8. \A x \in Requests : Minting(x)' =>
        /\ Minting(x) /\ req'[x] = req[x] /\ req[x].tok \in Tokens
        /\ rows[req[x].tok].st = "revoked"
        /\ req[x].user \in Users /\ rows[req[x].tok].user = req[x].user
  BY <1>1, RequestFields DEF Minting, RefreshingOwnToken, Refreshing, MintingUnrotated
<1>9. MintingUnrotated'
  BY <1>3, <1>4, <1>8 DEF MintingUnrotated
<1>10. ParentRevoked'
  BY <1>3, <1>4, ParentType DEF ParentRevoked
<1>11. MintRight'
  <2> SUFFICES ASSUME NEW x \in Requests PROVE MintRight!(x)'
    BY DEF MintRight
  <2>1. CASE req'[x] = q
    <3>1. q.pc = "change_member" => q.org \in Orgs /\ q.won <= password'[q.user]
      BY <1>2 DEF Idle
    <3> QED
      BY <1>1, <2>1, <3>1 DEF Opening, OpeningSteps, FallingSteps, Minting
  <2>2. CASE req'[x] = req[x]
    <3>1. CASE req[x].pc = "idle"
      BY <2>2, <3>1 DEF Opening, OpeningSteps, FallingSteps, Minting
    <3>2. CASE req[x].pc # "idle"
      <4>1. req[x].user \in Users /\ req[x].won \in Nat
        BY <3>2, RequestFields, BoundAssumption DEF Password
      <4>2. Opening(x)' => req'[x].org \in Orgs /\ req'[x].won <= password'[req'[x].user]
        BY <1>2, <2>2, <4>1 DEF Opening, MintRight
      <4>3. Minting(x)' => req'[x].won <= password'[req'[x].user]
        BY <1>2, <2>2, <4>1 DEF Minting, MintRight
      <4>4. Minting(x)' /\ req'[x].won = password'[req'[x].user]
              /\ rows'[req'[x].tok].escaped = None
                => rows'[req'[x].tok].since = password'[req'[x].user]
        <5> SUFFICES ASSUME Minting(x)', req[x].won = password'[req[x].user],
                            rows'[req[x].tok].escaped = None
                     PROVE  rows'[req[x].tok].since = password'[req[x].user]
          BY <2>2
        <5>1. req[x].user # u
          BY <1>2, <1>8, <4>1 DEF MintRight
        <5> QED
          BY <1>2, <1>3, <1>8, <4>1, <5>1 DEF MintRight
      <4> QED
        BY <2>2, <4>2, <4>3, <4>4 DEF MintRight
    <3> QED
      BY <3>1, <3>2
  <2> QED
    BY <1>1, <2>1, <2>2
<1>16. IssuedPast'
  <2>1. ASSUME NEW v \in Users, NEW p \in Password, p <= password[v]
        PROVE  p <= password'[v]
    <3>1. p \in Nat
      BY BoundAssumption DEF Password
    <3> QED
      BY <1>2, <2>1, <3>1
  <2>2. ASSUME NEW t \in Tokens, rows'[t].st # "absent"
        PROVE  rows'[t].since <= password'[rows'[t].user]
    <3>1. rows[t].st # "absent"
      BY <1>3, <2>2 DEF Live
    <3>2. rows[t].user \in Users /\ rows[t].since \in Password
          /\ rows[t].since <= password[rows[t].user]
      BY <3>1, RowFields DEF IssuedPast
    <3> QED
      BY <1>3, <2>1, <3>2
  <2> QED
    BY <2>1, <2>2 DEF IssuedPast
<1>12. ResettingOwnToken'
  BY <1>1 DEF ResettingOwnToken
<1>13. RotationSingleUse'
  BY <1>3 DEF RotationSingleUse
<1>14. OneHolderPerSession'
  BY <1>3, <1>4, <1>8 DEF OneHolderPerSession
<1>15. UnescapedCurrent'
  <2> SUFFICES ASSUME NEW t \in Tokens, Live(t)', rows'[t].escaped = None
               PROVE  rows'[t].since = password'[rows'[t].user]
    BY DEF UnescapedCurrent
  <2>1. Live(t) /\ rows[t].user \in Users \ {u}
    BY <1>4, RowFields DEF Live
  <2> QED
    BY <1>2, <1>3, <2>1 DEF UnescapedCurrent
<1> QED
  BY <1>5, <1>7, <1>9, <1>10, <1>11, <1>12, <1>13, <1>14, <1>15, <1>16

(* A step on the reset tokens alone, which may end a request. *)
LEMMA ResetRowStep ==
  ASSUME IInv,
         UNCHANGED <<password, activeOrg, member, rows, access>>,
         req' \in [Requests -> Request],
         \A x \in Requests : req'[x] = req[x] \/ req'[x] = Idle,
         resets' \in [ResetTokens -> ResetRow], ResetCount',
         \A k \in ResetTokens : resets[k].st # "absent" => resets'[k].st # "absent"
  PROVE  IInv'
<1> USE DEF IInv
<1>1. TypeOK'
  BY DEF TypeOK
<1>2. \A x \in Requests : req'[x].pc # "idle" => req'[x] = req[x]
  BY DEF Idle
<1>3. RefreshingOwnToken'
  BY <1>2 DEF RefreshingOwnToken, Refreshing
<1>4. MintingUnrotated'
  BY <1>2 DEF MintingUnrotated, Minting
<1>5. ParentRevoked' /\ RotationSingleUse' /\ IssuedPast' /\ UnescapedCurrent'
  BY DEF ParentRevoked, RotationSingleUse, IssuedPast, UnescapedCurrent, Live
<1>6. MintRight'
  BY <1>2 DEF MintRight, Opening, OpeningSteps, FallingSteps, Minting
<1>7. ResettingOwnToken'
  BY <1>2 DEF ResettingOwnToken
<1>8. OneHolderPerSession'
  BY <1>2 DEF OneHolderPerSession, Minting, Live
<1> QED
  BY <1>1, <1>3, <1>4, <1>5, <1>6, <1>7, <1>8

-----------------------------------------------------------------------------
(* Every step preserves the invariant. *)
LEMMA LoginSteps ==
  ASSUME IInv, NEW r \in Requests, LoginStep(r)
  PROVE  IInv'
<1> USE DEF IInv
<1>1. ASSUME NEW u \in Users, LoginVerify(r, u) PROVE IInv'
  <2> DEFINE q == [Idle EXCEPT !.pc = "login_member", !.user = u,
                               !.org = activeOrg[u], !.won = password[u]]
  <2>1. activeOrg[u] \in Orgs /\ password[u] \in Password /\ password[u] <= password[u]
    BY BoundAssumption DEF TypeOK, Password
  <2>2. /\ q \in AnyRequest /\ q.pc = "login_member" /\ q.user = u
        /\ q.org = activeOrg[u] /\ q.won = password[u]
    BY <2>1, IdleRequest DEF AnyRequest, Step
  <2>3. q \in Request
    BY <2>2, StartedRequest DEF Step
  <2>4. req' = [req EXCEPT ![r] = q] /\ UNCHANGED <<password, activeOrg, member, rows, access, resets>>
    BY <1>1 DEF LoginVerify
  <2>5. /\ q.pc = "login_member" /\ q.org \in Orgs /\ q.won <= password[q.user]
    BY <2>1, <2>2
  <2> HIDE DEF q
  <2> QED
    BY <2>3, <2>4, <2>5, RequestStep
<1>4. ASSUME NEW u \in Users, MfaVerify(r, u) PROVE IInv'
  <2>1. PICK p \in 0..password[u] :
          req' = [req EXCEPT ![r] = [Idle EXCEPT !.pc = "login_member", !.user = u,
                                                 !.org = activeOrg[u],
                                                 !.right = "challenge", !.won = p]]
    BY <1>4 DEF MfaVerify
  <2> DEFINE q == [Idle EXCEPT !.pc = "login_member", !.user = u, !.org = activeOrg[u],
                               !.right = "challenge", !.won = p]
  <2>2. activeOrg[u] \in Orgs /\ password[u] \in Password
    BY DEF TypeOK
  <2>3. p \in Password /\ p <= password[u]
    BY <2>2, BoundAssumption DEF Password
  <2>4. /\ q \in AnyRequest /\ q.pc = "login_member" /\ q.user = u
        /\ q.org = activeOrg[u] /\ q.won = p
    BY <2>2, <2>3, IdleRequest DEF AnyRequest, Step, Right
  <2>5. q \in Request
    BY <2>4, StartedRequest DEF Step
  <2>6. req' = [req EXCEPT ![r] = q]
        /\ UNCHANGED <<password, activeOrg, member, rows, access, resets>>
    BY <1>4, <2>1 DEF MfaVerify
  <2>7. q.pc = "login_member" /\ q.org \in Orgs /\ q.won <= password[q.user]
    BY <2>2, <2>3, <2>4
  <2> HIDE DEF q
  <2> QED
    BY <2>5, <2>6, <2>7, RequestStep
<1>2. CASE LoginMember(r)
  <2> DEFINE q == IF IsMember(r) THEN [req[r] EXCEPT !.pc = "login_mint"] ELSE Idle
  <2>1. req[r].pc = "login_member" /\ req[r] \in Request \ {Idle}
    BY <1>2 DEF LoginMember, IsAt, TypeOK, Idle
  <2>2. q \in Request /\ (q = Idle \/ q = [req[r] EXCEPT !.pc = "login_mint"])
    BY <2>1 DEF Request, Step
  <2>3. req[r].org \in Orgs /\ req[r].won <= password[req[r].user]
    BY <2>1 DEF MintRight, Opening, OpeningSteps
  <2>4. req' = [req EXCEPT ![r] = q] /\ UNCHANGED <<password, activeOrg, member, rows, access, resets>>
    BY <1>2 DEF LoginMember, Goto, Finish, TypeOK
  <2>5. q.pc \in {"idle", "login_mint"} /\
        (q.pc # "idle" => q.org \in Orgs /\ q.won <= password[q.user])
    BY <2>1, <2>2, <2>3 DEF Idle, Request
  <2> HIDE DEF q
  <2> QED
    BY <2>2, <2>4, <2>5, RequestStep
<1>3. CASE LoginMint(r)
  BY <1>3, OpenStep DEF LoginMint, IsAt, Opening, OpeningSteps
<1> QED
  BY <1>1, <1>2, <1>3, <1>4 DEF LoginStep

LEMMA RefreshSteps ==
  ASSUME IInv, NEW r \in Requests, RefreshStep(r)
  PROVE  IInv'
<1> USE DEF IInv
<1>1. ASSUME NEW t \in Tokens, RefreshLookup(r, t) PROVE IInv'
  <2> DEFINE q == [Idle EXCEPT !.pc = "refresh_member", !.tok = t,
                               !.user = rows[t].user, !.org = activeOrg[rows[t].user]]
  <2>1. rows[t].user \in Users /\ rows[t].st # "absent"
    BY <1>1, RowFields DEF RefreshLookup, Live
  <2>2. activeOrg[rows[t].user] \in Orgs
    BY <2>1 DEF TypeOK
  <2>3. /\ q \in AnyRequest /\ q.pc = "refresh_member" /\ q.tok = t
        /\ q.user = rows[t].user /\ q.org = activeOrg[rows[t].user]
    BY <2>1, <2>2, IdleRequest DEF AnyRequest, Step
  <2>4. q \in Request
    BY <2>1, <2>3, StartedRequest DEF Step
  <2>5. req' = [req EXCEPT ![r] = q] /\ UNCHANGED <<password, activeOrg, member, rows, access, resets>>
    BY <1>1 DEF RefreshLookup
  <2>6. /\ q.pc = "refresh_member" /\ q.tok = t /\ q.user = rows[t].user
        /\ q.org \in Orgs
    BY <2>2, <2>3
  <2> HIDE DEF q
  <2> QED
    BY <2>1, <2>4, <2>5, <2>6, RequestStep
<1>2. CASE RefreshMember(r)
  <2> DEFINE q == [req[r] EXCEPT !.pc = "refresh_cas"]
  <2>1. /\ req[r].pc = "refresh_member" /\ req[r] \in Request \ {Idle}
        /\ UNCHANGED <<password, activeOrg, member, access, resets>>
    BY <1>2 DEF RefreshMember, IsAt, TypeOK, Idle
  <2>2. /\ req[r].tok \in Tokens /\ rows[req[r].tok].st # "absent"
        /\ rows[req[r].tok].user = req[r].user /\ req[r].org \in Orgs
    BY <2>1 DEF RefreshingOwnToken, Refreshing
  <2>3. CASE IsMember(r)
    <3>1. q \in Request /\ q.pc = "refresh_cas" /\ q.tok = req[r].tok
          /\ q.user = req[r].user /\ q.org = req[r].org
      BY <2>1 DEF Request, Step
    <3>2. req' = [req EXCEPT ![r] = q] /\ UNCHANGED rows
      BY <1>2, <2>3 DEF RefreshMember, Goto, TypeOK
    <3> HIDE DEF q
    <3> QED
      BY <2>1, <2>2, <3>1, <3>2, RequestStep
  <2>4. CASE ~IsMember(r)
    <3>1. rows' = [rows EXCEPT ![req[r].tok].st = "revoked"]
      BY <1>2, <2>4 DEF RefreshMember
    <3>2. rows' = Revoked({req[r].tok})
      <4> SUFFICES ASSUME NEW t \in Tokens PROVE rows'[t] = Revoked({req[r].tok})[t]
        BY <3>1, RevokedRows DEF TypeOK, Revoked
      <4>1. CASE t # req[r].tok
        BY <3>1, <4>1 DEF TypeOK, Revoked
      <4>2. CASE t = req[r].tok /\ Live(t)
        BY <3>1, <4>2 DEF TypeOK, Revoked
      <4>3. CASE t = req[r].tok /\ ~Live(t)
        <5>1. rows[t].st = "revoked" /\ rows[t] \in RefreshToken \ {NoRow}
          BY <2>2, <4>3, RowFields DEF Live, TypeOK, NoRow
        <5> QED
          BY <3>1, <4>3, <5>1 DEF TypeOK, Revoked, RefreshToken
      <4> QED
        BY <4>1, <4>2, <4>3
    <3>3. /\ req' \in [Requests -> Request]
          /\ \A x \in Requests : req'[x] = req[x] \/ Quiet(req'[x])
      BY <1>2, <2>4, IdleQuiet DEF RefreshMember, Finish, TypeOK
    <3> QED
      BY <2>1, <3>2, <3>3, RevokeStep
  <2> QED
    BY <2>3, <2>4
<1>3. CASE RefreshCas(r)
  <2>1. CASE Live(req[r].tok)
    BY <1>3, <2>1, CasStep
  <2>2. CASE ~Live(req[r].tok)
    <3>1. /\ req' = [req EXCEPT ![r] = Idle]
          /\ UNCHANGED <<password, activeOrg, member, rows, access, resets>>
      BY <1>3, <2>2 DEF RefreshCas, Finish
    <3>2. Idle \in Request /\ Idle.pc = "idle"
      BY DEF Idle, Request
    <3> QED
      BY <3>1, <3>2, RequestStep
  <2> QED
    BY <2>1, <2>2
<1>4. CASE RefreshMint(r)
  BY <1>4, MintStep
<1> QED
  BY <1>1, <1>2, <1>3, <1>4 DEF RefreshStep

LEMMA ChangeSteps ==
  ASSUME IInv, NEW r \in Requests, ChangeStep(r)
  PROVE  IInv'
<1> USE DEF IInv
<1>1. ASSUME NEW u \in Users, NEW o \in Orgs, ChangeVerify(r, u, o) PROVE IInv'
  <2> DEFINE q == [Idle EXCEPT !.pc = "change_commit", !.user = u, !.org = o]
  <2>1. q \in AnyRequest /\ q.pc = "change_commit" /\ q.user = u /\ q.org = o
    BY IdleRequest DEF AnyRequest, Step
  <2>2. q \in Request
    BY <2>1, StartedRequest DEF Step
  <2>3. req' = [req EXCEPT ![r] = q] /\ UNCHANGED <<password, activeOrg, member, rows, access, resets>>
    BY <1>1 DEF ChangeVerify
  <2>4. q.pc = "change_commit" /\ q.org \in Orgs
    BY <2>1
  <2> HIDE DEF q
  <2> QED
    BY <2>2, <2>3, <2>4, RequestStep
<1>2. CASE ChangeCommit(r)
  <2> DEFINE u == req[r].user
             q == [req[r] EXCEPT !.pc = "change_member", !.won = password'[u]]
  <2>1. /\ req[r].pc = "change_commit" /\ req[r] \in Request \ {Idle}
        /\ SetPassword(u)
        /\ req' = [req EXCEPT ![r].pc = "change_member", ![r].won = password'[u]]
        /\ UNCHANGED <<activeOrg, member, access, resets>>
    BY <1>2 DEF ChangeCommit, IsAt, TypeOK, Idle
  <2>2. u \in Users /\ req[r].org \in Orgs
    BY <2>1, RequestFields DEF MintRight
  <2>3. password'[u] \in Password
    BY <2>1, <2>2, BoundAssumption DEF SetPassword, TypeOK, Password
  <2>4. /\ q \in Request /\ q.pc = "change_member" /\ q.org \in Orgs
        /\ q.user = u /\ q.won = password'[u]
    BY <2>1, <2>2, <2>3 DEF Request, Step
  <2>5. req' = [req EXCEPT ![r] = q]
    BY <2>1 DEF TypeOK
  <2>6. resets' \in [ResetTokens -> ResetRow] /\ ResetCount'
    BY <2>1 DEF TypeOK, ResetCount
  <2> HIDE DEF q
  <2> QED
    BY <2>1, <2>2, <2>4, <2>5, <2>6, PasswordStep
<1>3. CASE ChangeMember(r)
  <2> DEFINE q == IF IsMember(r) THEN [req[r] EXCEPT !.pc = "change_mint"] ELSE Idle
  <2>1. req[r].pc = "change_member" /\ req[r] \in Request \ {Idle}
    BY <1>3 DEF ChangeMember, IsAt, TypeOK, Idle
  <2>2. q \in Request /\ (q = Idle \/ q = [req[r] EXCEPT !.pc = "change_mint"])
    BY <2>1 DEF Request, Step
  <2>3. req[r].org \in Orgs /\ req[r].won <= password[req[r].user]
    BY <2>1 DEF MintRight, Opening, OpeningSteps
  <2>4. req' = [req EXCEPT ![r] = q] /\ UNCHANGED <<password, activeOrg, member, rows, access, resets>>
    BY <1>3 DEF ChangeMember, Goto, Finish, TypeOK
  <2>5. q.pc \in {"idle", "change_mint"} /\
        (q.pc # "idle" => q.org \in Orgs /\ q.won <= password[q.user])
    BY <2>1, <2>2, <2>3 DEF Idle, Request
  <2> HIDE DEF q
  <2> QED
    BY <2>2, <2>4, <2>5, RequestStep
<1>4. CASE ChangeMint(r)
  BY <1>4, OpenStep DEF ChangeMint, IsAt, Opening, OpeningSteps
<1> QED
  BY <1>1, <1>2, <1>3, <1>4 DEF ChangeStep

LEMMA ResetSteps ==
  ASSUME IInv, NEW r \in Requests, ResetStep(r)
  PROVE  IInv'
<1> USE DEF IInv
<1>1. ASSUME NEW u \in Users, ForgotSupersede(r, u) PROVE IInv'
  <2> DEFINE stale == {k \in ResetTokens : Usable(k) /\ resets[k].user = u}
             q == [Idle EXCEPT !.pc = "forgot_commit", !.user = u, !.stale = stale]
  <2> HIDE DEF stale
  <2>1. q \in AnyRequest /\ q.pc = "forgot_commit" /\ q.user = u
    <3>1. stale \in SUBSET ResetTokens
      BY DEF stale
    <3> QED
      BY <3>1, IdleRequest DEF AnyRequest, Step
  <2>2. q \in Request
    BY <2>1, StartedRequest DEF Step
  <2>3. req' = [req EXCEPT ![r] = q] /\ UNCHANGED <<password, activeOrg, member, rows, access, resets>>
    BY <1>1 DEF ForgotSupersede, stale
  <2>4. q.pc = "forgot_commit"
    BY <2>1
  <2> HIDE DEF q
  <2> QED
    BY <2>2, <2>3, <2>4, RequestStep
<1>2. CASE ForgotCommit(r)
  <2>1. /\ req[r].pc = "forgot_commit"
        /\ UNCHANGED <<password, activeOrg, member, rows, access>>
    BY <1>2 DEF ForgotCommit, IsAt
  <2>2. req[r].user \in Users
    BY <2>1, RequestFields
  <2>3. PICK new \in ResetTokens :
          /\ resets[new].st = "absent"
          /\ resets' = [k \in ResetTokens |->
               CASE k = new -> [NoReset EXCEPT !.st = "usable", !.user = req[r].user]
                 [] k \in req[r].stale /\ Usable(k) -> [resets[k] EXCEPT !.st = "used"]
                 [] OTHER -> resets[k]]
    BY <1>2 DEF ForgotCommit
  <2>4. ASSUME NEW k \in ResetTokens
        PROVE  /\ resets'[k] \in ResetRow
               /\ resets[k].st # "absent" => resets'[k].st # "absent"
               /\ IF resets'[k].st = "used" THEN resets'[k].resets <= 1
                                            ELSE resets'[k].resets = 0
    <3>1. resets[k] \in ResetRow
      BY DEF TypeOK
    <3>2. CASE k = new
      <4> DEFINE row == [NoReset EXCEPT !.st = "usable", !.user = req[r].user]
      <4>1. resets'[k] = row
        BY <2>3, <3>2 DEF Usable
      <4>2. /\ row \in [st : {"usable", "used", "expired"}, user : Users, resets : Nat]
            /\ row.st = "usable" /\ row.resets = 0
        <5> DEFINE base == [NoReset EXCEPT !.st = "usable"]
        <5>1. base = [st |-> "usable", user |-> None, resets |-> 0]
          BY DEF NoReset
        <5>2. row = [base EXCEPT !.user = req[r].user]
          OBVIOUS
        <5> HIDE DEF base
        <5>3. row = [st |-> "usable", user |-> req[r].user, resets |-> 0]
          BY <5>1, <5>2
        <5> HIDE DEF row
        <5> QED
          BY <2>2, <5>3
      <4> QED
        BY <4>1, <4>2 DEF ResetRow
    <3>3. CASE k # new /\ k \in req[r].stale /\ Usable(k)
      <4>1. resets'[k] = [resets[k] EXCEPT !.st = "used"]
        BY <2>3, <3>3
      <4>2. resets[k] # NoReset /\ resets[k].resets = 0
        BY <3>3 DEF Usable, NoReset, ResetCount
      <4> QED
        BY <3>1, <4>1, <4>2 DEF ResetRow
    <3>4. CASE k # new /\ ~(k \in req[r].stale /\ Usable(k))
      BY <2>3, <3>1, <3>4 DEF ResetCount
    <3> QED
      BY <3>2, <3>3, <3>4
  <2>5. resets' \in [ResetTokens -> ResetRow] /\ ResetCount'
    BY <2>3, <2>4 DEF ResetCount
  <2>6. /\ req' \in [Requests -> Request]
        /\ \A x \in Requests : req'[x] = req[x] \/ req'[x] = Idle
    BY <1>2 DEF ForgotCommit, Finish, TypeOK, Request
  <2> QED
    BY <2>1, <2>4, <2>5, <2>6, ResetRowStep
<1>3. ASSUME NEW k \in ResetTokens, ResetLookup(r, k) PROVE IInv'
  <2> DEFINE q == [Idle EXCEPT !.pc = "reset_commit", !.rtok = k, !.user = resets[k].user]
  <2>1. resets[k].user \in Users /\ resets[k].st # "absent"
    BY <1>3 DEF ResetLookup, Usable, TypeOK, ResetRow, NoReset
  <2>2. q \in AnyRequest /\ q.pc = "reset_commit" /\ q.user = resets[k].user /\ q.rtok = k
    BY <2>1, IdleRequest DEF AnyRequest, Step
  <2>3. q \in Request
    BY <2>1, <2>2, StartedRequest DEF Step
  <2>4. req' = [req EXCEPT ![r] = q] /\ UNCHANGED <<password, activeOrg, member, rows, access, resets>>
    BY <1>3 DEF ResetLookup
  <2> HIDE DEF q
  <2> QED
    BY <2>1, <2>2, <2>3, <2>4, RequestStep
<1>4. CASE ResetCommit(r)
  <2> DEFINE k == req[r].rtok
  <2>1. /\ req[r].pc = "reset_commit" /\ req' = [req EXCEPT ![r] = Idle]
        /\ UNCHANGED <<activeOrg, member, access>>
    BY <1>4 DEF ResetCommit, IsAt, Finish
  <2>2. k \in ResetTokens /\ req[r].user \in Users
    BY <2>1, RequestFields DEF ResettingOwnToken
  <2>3. Idle \in Request /\ Idle.pc = "idle"
    BY DEF Idle, Request
  <2>4. CASE Usable(k)
    <3>1. /\ SetPassword(req[r].user)
          /\ resets' = [resets EXCEPT ![k].st = "used", ![k].resets = @ + 1]
      BY <1>4, <2>4 DEF ResetCommit
    <3>2. resets[k] \in ResetRow \ {NoReset} /\ resets[k].resets = 0
      BY <2>2, <2>4 DEF Usable, TypeOK, NoReset, ResetCount
    <3>3. /\ resets'[k] \in ResetRow
          /\ resets'[k].st = "used" /\ resets'[k].resets = 1
          /\ \A x \in ResetTokens \ {k} : resets'[x] = resets[x]
          /\ resets' \in [ResetTokens -> ResetRow]
      BY <2>2, <3>1, <3>2 DEF ResetRow, TypeOK
    <3>4. ResetCount'
      BY <2>2, <3>3 DEF ResetCount
    <3> QED
      BY <2>1, <2>2, <2>3, <3>1, <3>3, <3>4, PasswordStep
  <2>5. CASE ~Usable(k)
    <3>1. UNCHANGED <<password, rows, resets>>
      BY <1>4, <2>5 DEF ResetCommit
    <3> QED
      BY <2>1, <2>3, <3>1, RequestStep
  <2> QED
    BY <2>4, <2>5
<1> QED
  BY <1>1, <1>2, <1>3, <1>4 DEF ResetStep

(* The steps of switches, leaves and removals: quiet but for the mint. *)
LEMMA QuietMove ==
  ASSUME IInv, NEW r \in Requests, NEW q \in Request, Quiet(q),
         req' = [req EXCEPT ![r] = q],
         UNCHANGED <<password, rows, access, resets>>,
         activeOrg' \in [Users -> Orgs],
         member' \in SUBSET (Users \X Orgs)
  PROVE  IInv'
<1>1. /\ rows' \in [Tokens -> RefreshToken]
      /\ req' \in [Requests -> Request]
      /\ \A x \in Requests : req'[x] = req[x] \/ Quiet(req'[x])
  BY DEF IInv, TypeOK
<1> QED
  BY <1>1, QuietStep

(* A request on its way stays quiet when it moves among such steps. *)
LEMMA Onward ==
  ASSUME IInv, NEW r \in Requests, Opening(r), NEW step \in OpeningSteps,
         step \notin FallingSteps
  PROVE  /\ [req[r] EXCEPT !.pc = step] \in Request
         /\ Quiet([req[r] EXCEPT !.pc = step])
<1> DEFINE q == [req[r] EXCEPT !.pc = step]
<1>1. req[r] \in Request \ {Idle}
  BY DEF IInv, TypeOK, Opening, OpeningSteps, Idle
<1>2. step \in Step
  BY DEF OpeningSteps, Step, SwitchSteps, LeaveSteps
<1>3. q \in Request /\ q.pc = step /\ q.org = req[r].org
      /\ q.won = req[r].won /\ q.user = req[r].user
  BY <1>1, <1>2 DEF Request
<1>4. q.org \in Orgs /\ q.won <= password[q.user]
  BY <1>3 DEF IInv, MintRight
<1>5. q.pc \notin {"refresh_member", "refresh_cas", "refresh_mint", "change_commit",
                  "reset_commit"}
  BY <1>3 DEF OpeningSteps
<1> QED
  BY <1>3, <1>4, <1>5 DEF Quiet

(* The same for a request that ends instead when it must. *)
LEMMA OnwardOrEnd ==
  ASSUME IInv, NEW r \in Requests, Opening(r), NEW step \in OpeningSteps,
         step \notin FallingSteps,
         Goto(r, step) \/ Finish(r),
         UNCHANGED <<password, rows, access, resets>>,
         activeOrg' \in [Users -> Orgs],
         member' \in SUBSET (Users \X Orgs)
  PROVE  IInv'
<1>1. CASE Goto(r, step)
  <2> DEFINE q == [req[r] EXCEPT !.pc = step]
  <2>1. q \in Request /\ Quiet(q)
    BY Onward
  <2>2. req' = [req EXCEPT ![r] = q]
    BY <1>1 DEF Goto, IInv, TypeOK
  <2> HIDE DEF q
  <2> QED
    BY <2>1, <2>2, QuietMove
<1>2. CASE Finish(r)
  BY <1>2, IdleQuiet, QuietMove DEF Finish
<1> QED
  BY <1>1, <1>2

(* The first step of a bearer's request. *)
LEMMA BearerStep ==
  ASSUME IInv, NEW r \in Requests, NEW u \in Users, NEW o \in Orgs,
         NEW first \in {"switch_member", "leave_member"}, BeginAsBearer(r, u, o, first)
  PROVE  IInv'
<1>1. PICK here \in Orgs, p \in Password :
        /\ <<u, here, p>> \in access
        /\ req' = [req EXCEPT ![r] = [Idle EXCEPT !.pc = first, !.user = u, !.org = o,
                                                 !.right = "bearer", !.won = p]]
  BY DEF BeginAsBearer, Bearer
<1> DEFINE q == [Idle EXCEPT !.pc = first, !.user = u, !.org = o, !.right = "bearer",
                             !.won = p]
<1>8. first \in Step /\ "bearer" \in Right
  BY DEF Step, SwitchSteps, LeaveSteps, Right
<1>2. /\ q \in AnyRequest /\ q.pc = first /\ q.user = u /\ q.org = o /\ q.won = p
  BY <1>8, IdleRequest DEF AnyRequest
<1>3. q \in Request
  BY <1>2, <1>8, StartedRequest
<1>4. p <= password[u]
  BY <1>1 DEF IInv, IssuedPast
<1>5. req' = [req EXCEPT ![r] = q]
  BY <1>1
<1> HIDE DEF q
<1>6. Quiet(q)
  BY <1>2, <1>4 DEF Quiet, FallingSteps
<1>7. /\ UNCHANGED <<password, rows, access, resets>>
      /\ activeOrg' \in [Users -> Orgs] /\ member' \in SUBSET (Users \X Orgs)
  BY DEF BeginAsBearer, IInv, TypeOK
<1> QED
  BY <1>3, <1>5, <1>6, <1>7, QuietMove

LEMMA Switching ==
  ASSUME IInv, NEW r \in Requests, SwitchStep(r)
  PROVE  IInv'
<1>0. activeOrg \in [Users -> Orgs] /\ member \in SUBSET (Users \X Orgs)
  BY DEF IInv, TypeOK
<1>1. ASSUME NEW u \in Users, NEW o \in Orgs, BeginAsBearer(r, u, o, "switch_member")
      PROVE  IInv'
  BY <1>1, BearerStep
<1>2. CASE SwitchMember(r)
  <2>1. Opening(r) /\ (Goto(r, "switch_move") \/ Finish(r))
        /\ UNCHANGED <<password, activeOrg, member, rows, access, resets>>
    BY <1>2 DEF SwitchMember, IsAt, Opening, OpeningSteps
  <2>2. "switch_move" \in OpeningSteps \ FallingSteps
    BY DEF OpeningSteps, FallingSteps
  <2> QED
    BY <1>0, <2>1, <2>2, OnwardOrEnd
<1>3. CASE SwitchMove(r)
  <2>1. Opening(r) /\ Goto(r, "switch_rebind")
        /\ UNCHANGED <<password, member, rows, access, resets>>
    BY <1>3 DEF SwitchMove, IsAt, Opening, OpeningSteps
  <2>2. "switch_rebind" \in OpeningSteps \ FallingSteps
    BY DEF OpeningSteps, FallingSteps
  <2>3. activeOrg' \in [Users -> Orgs]
    BY <1>0, <1>3, <2>1 DEF SwitchMove, IInv, MintRight
  <2> QED
    BY <1>0, <2>1, <2>2, <2>3, OnwardOrEnd
<1>4. CASE SwitchRebind(r)
  <2> DEFINE q == [req[r] EXCEPT !.pc = "org_mint"]
  <2>1. /\ Opening(r) /\ req' = [req EXCEPT ![r] = q]
        /\ UNCHANGED <<password, activeOrg, member, access, resets>>
    BY <1>4 DEF SwitchRebind, IsAt, Opening, OpeningSteps, Goto, IInv, TypeOK
  <2>2. q \in Request /\ Quiet(q)
    BY <2>1, Onward DEF OpeningSteps, FallingSteps
  <2> HIDE DEF q
  <2>3. req' \in [Requests -> Request]
        /\ \A x \in Requests : req'[x] = req[x] \/ Quiet(req'[x])
    BY <2>1, <2>2 DEF IInv, TypeOK
  <2>4. req[r].org \in Orgs
    BY <2>1 DEF IInv, MintRight
  <2>5. ASSUME NEW t \in Tokens
        PROVE  /\ rows'[t] \in RefreshToken
               /\ rows'[t].user = rows[t].user
               /\ rows'[t].sid = rows[t].sid
               /\ rows'[t].parent = rows[t].parent
               /\ rows'[t].since = rows[t].since
               /\ rows'[t].escaped = rows[t].escaped
               /\ rows'[t].st = rows[t].st
    <3>1. rows[t] \in RefreshToken
      BY DEF IInv, TypeOK
    <3>2. CASE t \in RowsOf(req[r].user) /\ Live(t)
      <4>1. rows'[t] = [rows[t] EXCEPT !.org = req[r].org]
        BY <1>4, <3>2 DEF SwitchRebind
      <4>2. rows[t] # NoRow
        BY <3>2 DEF Live, NoRow
      <4> QED
        BY <2>4, <3>1, <4>1, <4>2 DEF RefreshToken
    <3>3. CASE ~(t \in RowsOf(req[r].user) /\ Live(t))
      BY <1>4, <3>1, <3>3 DEF SwitchRebind
    <3> QED
      BY <3>2, <3>3
  <2>6. rows' \in [Tokens -> RefreshToken]
    BY <1>4, <2>5 DEF SwitchRebind
  <2> QED
    BY <1>0, <2>1, <2>3, <2>5, <2>6, QuietStep
<1>5. CASE OrgMint(r)
  BY <1>5, OpenStep DEF OrgMint, IsAt, Opening, OpeningSteps
<1> QED
  BY <1>1, <1>2, <1>3, <1>4, <1>5 DEF SwitchStep

(* A fallback is an organization of the table. *)
LEMMA FallBackStep ==
  ASSUME IInv, NEW r \in Requests,
         NEW next \in {"leave_revoke", "remove_move"}, FallBack(r, next),
         req[r].pc # "idle",
         next = "leave_revoke" => Opening(r)
  PROVE  IInv'
<1>0. /\ activeOrg' \in [Users -> Orgs] /\ member' \in SUBSET (Users \X Orgs)
      /\ UNCHANGED <<password, rows, access, resets>>
  BY DEF FallBack, IInv, TypeOK
<1>1. ASSUME NEW o \in Orgs, req' = [req EXCEPT ![r].pc = next, ![r].to = o] PROVE IInv'
  <2> DEFINE q == [req[r] EXCEPT !.pc = next, !.to = o]
  <2>1. req[r] \in Request \ {Idle}
    BY DEF IInv, TypeOK, Idle
  <2>2. next \in Step
    BY DEF Step, LeaveSteps, RemoveSteps
  <2>3. /\ q \in Request /\ q.pc = next /\ q.to = o /\ q.org = req[r].org
        /\ q.won = req[r].won /\ q.user = req[r].user
    BY <2>1, <2>2 DEF Request
  <2>4. req' = [req EXCEPT ![r] = q]
    BY <1>1 DEF IInv, TypeOK
  <2> HIDE DEF q
  <2>5. next = "leave_revoke" => q.org \in Orgs /\ q.won <= password[q.user]
    BY <2>3 DEF IInv, MintRight
  <2>6. Quiet(q)
    BY <2>3, <2>5 DEF Quiet, OpeningSteps
  <2> QED
    BY <1>0, <2>3, <2>4, <2>6, QuietMove
<1>2. CASE Finish(r)
  BY <1>0, <1>2, IdleQuiet, QuietMove DEF Finish
<1> QED
  BY <1>1, <1>2 DEF FallBack

(* A membership is deleted, and the request goes on or ends. *)
LEMMA DeleteStep ==
  ASSUME IInv, NEW r \in Requests, NEW next, DeleteMembership(r, next)
  PROVE  /\ activeOrg' \in [Users -> Orgs] /\ member' \in SUBSET (Users \X Orgs)
         /\ UNCHANGED <<password, rows, access, resets>>
         /\ Goto(r, next) \/ Finish(r)
BY DEF DeleteMembership, IInv, TypeOK

LEMMA Leaving ==
  ASSUME IInv, NEW r \in Requests, LeaveStep(r)
  PROVE  IInv'
<1>0. activeOrg \in [Users -> Orgs] /\ member \in SUBSET (Users \X Orgs)
  BY DEF IInv, TypeOK
<1>1. ASSUME NEW u \in Users, NEW o \in Orgs, BeginAsBearer(r, u, o, "leave_member")
      PROVE  IInv'
  BY <1>1, BearerStep
<1>2. CASE LeaveMember(r)
  <2>1. Opening(r) /\ (Goto(r, "leave_count") \/ Finish(r))
        /\ UNCHANGED <<password, activeOrg, member, rows, access, resets>>
    BY <1>2 DEF LeaveMember, IsAt, Opening, OpeningSteps
  <2>2. "leave_count" \in OpeningSteps \ FallingSteps
    BY DEF OpeningSteps, FallingSteps
  <2> QED
    BY <1>0, <2>1, <2>2, OnwardOrEnd
<1>3. CASE LeaveCount(r)
  <2>1. Opening(r) /\ (Goto(r, "leave_delete") \/ Finish(r))
        /\ UNCHANGED <<password, activeOrg, member, rows, access, resets>>
    BY <1>3 DEF LeaveCount, IsAt, Opening, OpeningSteps
  <2>2. "leave_delete" \in OpeningSteps \ FallingSteps
    BY DEF OpeningSteps, FallingSteps
  <2> QED
    BY <1>0, <2>1, <2>2, OnwardOrEnd
<1>4. CASE LeaveDelete(r)
  <2>1. Opening(r) /\ DeleteMembership(r, "leave_active")
    BY <1>4 DEF LeaveDelete, IsAt, Opening, OpeningSteps
  <2>2. "leave_active" \in OpeningSteps \ FallingSteps
    BY DEF OpeningSteps, FallingSteps
  <2> QED
    BY <2>1, <2>2, DeleteStep, OnwardOrEnd
<1>5. CASE LeaveActive(r)
  <2>1. Opening(r) /\ (Goto(r, "leave_fallback") \/ Finish(r))
        /\ UNCHANGED <<password, activeOrg, member, rows, access, resets>>
    BY <1>5 DEF LeaveActive, IsAt, Opening, OpeningSteps
  <2>2. "leave_fallback" \in OpeningSteps \ FallingSteps
    BY DEF OpeningSteps, FallingSteps
  <2> QED
    BY <1>0, <2>1, <2>2, OnwardOrEnd
<1>6. CASE LeaveFallback(r)
  BY <1>6, FallBackStep DEF LeaveFallback, IsAt, Opening, OpeningSteps
<1>7. CASE LeaveRevoke(r)
  <2> DEFINE q == [req[r] EXCEPT !.pc = "leave_move"]
  <2>1. /\ req[r].pc = "leave_revoke" /\ req[r] \in Request \ {Idle}
        /\ req' = [req EXCEPT ![r] = q]
        /\ rows' = Revoked(RowsIn(req[r].user, req[r].org))
        /\ UNCHANGED <<password, activeOrg, member, access, resets>>
    BY <1>7 DEF LeaveRevoke, IsAt, Goto, IInv, TypeOK, Idle
  <2>2. /\ q \in Request /\ q.pc = "leave_move" /\ q.to = req[r].to
        /\ q.org = req[r].org /\ q.won = req[r].won /\ q.user = req[r].user
    BY <2>1 DEF Request, Step, LeaveSteps
  <2>3. req[r].to \in Orgs /\ req[r].org \in Orgs /\ req[r].won <= password[req[r].user]
    BY <2>1 DEF IInv, MintRight, Opening, OpeningSteps, FallingSteps
  <2> HIDE DEF q
  <2>4. Quiet(q)
    BY <2>2, <2>3 DEF Quiet
  <2>5. req' \in [Requests -> Request]
        /\ \A x \in Requests : req'[x] = req[x] \/ Quiet(req'[x])
    BY <2>1, <2>2, <2>4 DEF IInv, TypeOK
  <2> QED
    BY <2>1, <2>5, RevokeStep
<1>8. CASE LeaveMove(r)
  <2> DEFINE q == [req[r] EXCEPT !.pc = "org_mint", !.org = req[r].to]
  <2>1. /\ req[r].pc = "leave_move" /\ req[r] \in Request \ {Idle}
        /\ req' = [req EXCEPT ![r].pc = "org_mint", ![r].org = req[r].to]
        /\ activeOrg' = [activeOrg EXCEPT ![req[r].user] = req[r].to]
        /\ UNCHANGED <<password, member, rows, access, resets>>
    BY <1>8 DEF LeaveMove, IsAt, IInv, TypeOK, Idle
  <2>6. req' = [req EXCEPT ![r] = q]
    BY <2>1 DEF IInv, TypeOK
  <2>2. req[r].to \in Orgs /\ req[r].won <= password[req[r].user]
    BY <2>1 DEF IInv, MintRight, Opening, OpeningSteps, FallingSteps
  <2>3. /\ q \in Request /\ q.pc = "org_mint" /\ q.org = req[r].to
        /\ q.won = req[r].won /\ q.user = req[r].user
    BY <2>1, <2>2 DEF Request, Step
  <2> HIDE DEF q
  <2>4. Quiet(q)
    BY <2>2, <2>3 DEF Quiet, FallingSteps
  <2>5. activeOrg' \in [Users -> Orgs]
    BY <1>0, <2>1, <2>2
  <2> QED
    BY <1>0, <2>1, <2>3, <2>4, <2>5, <2>6, QuietMove
<1> QED
  BY <1>1, <1>2, <1>3, <1>4, <1>5, <1>6, <1>7, <1>8 DEF LeaveStep

LEMMA Removing ==
  ASSUME IInv, NEW r \in Requests, RemoveStep(r)
  PROVE  IInv'
<1>0. activeOrg \in [Users -> Orgs] /\ member \in SUBSET (Users \X Orgs)
  BY DEF IInv, TypeOK
<1>1. ASSUME NEW u \in Users, NEW o \in Orgs, RemoveLookup(r, u, o) PROVE IInv'
  <2> DEFINE q == [Idle EXCEPT !.pc = "remove_delete", !.user = u, !.org = o,
                               !.to = activeOrg[u]]
  <2>1. q \in AnyRequest /\ q.pc = "remove_delete" /\ q.user = u
    BY <1>0, IdleRequest DEF AnyRequest, Step, RemoveSteps
  <2>2. q \in Request
    BY <2>1, StartedRequest DEF Step, RemoveSteps
  <2>3. req' = [req EXCEPT ![r] = q]
        /\ UNCHANGED <<password, activeOrg, member, rows, access, resets>>
    BY <1>1 DEF RemoveLookup
  <2> HIDE DEF q
  <2>4. Quiet(q)
    BY <2>1 DEF Quiet, OpeningSteps, FallingSteps
  <2> QED
    BY <1>0, <2>2, <2>3, <2>4, QuietMove
<1>2. CASE RemoveDelete(r)
  <2>1. req[r].pc = "remove_delete" /\ DeleteMembership(r, "remove_revoke")
    BY <1>2 DEF RemoveDelete, IsAt
  <2>2. CASE Finish(r)
    BY <2>1, <2>2, DeleteStep, IdleQuiet, QuietMove DEF Finish
  <2>3. CASE Goto(r, "remove_revoke")
    <3> DEFINE q == [req[r] EXCEPT !.pc = "remove_revoke"]
    <3>1. req[r] \in Request \ {Idle} /\ req' = [req EXCEPT ![r] = q]
      BY <2>1, <2>3 DEF Goto, IInv, TypeOK, Idle
    <3>2. q \in Request /\ q.pc = "remove_revoke"
      BY <3>1 DEF Request, Step, RemoveSteps
    <3> HIDE DEF q
    <3>3. Quiet(q)
      BY <3>2 DEF Quiet, OpeningSteps, FallingSteps
    <3> QED
      BY <2>1, <3>1, <3>2, <3>3, DeleteStep, QuietMove
  <2> QED
    BY <2>1, <2>2, <2>3, DeleteStep
<1>3. CASE RemoveRevoke(r)
  <2> DEFINE q == IF req[r].to = req[r].org THEN [req[r] EXCEPT !.pc = "remove_fallback"]
                                            ELSE Idle
  <2>1. /\ req[r].pc = "remove_revoke" /\ req[r] \in Request \ {Idle}
        /\ req' = [req EXCEPT ![r] = q]
        /\ rows' = Revoked(RowsIn(req[r].user, req[r].org))
        /\ UNCHANGED <<password, activeOrg, member, access, resets>>
    BY <1>3 DEF RemoveRevoke, IsAt, Goto, Finish, IInv, TypeOK, Idle
  <2>2. q \in Request /\ (q = Idle \/ q.pc = "remove_fallback")
    BY <2>1, IdleQuiet DEF Request, Step, RemoveSteps
  <2> HIDE DEF q
  <2>3. Quiet(q)
    BY <2>2, IdleQuiet DEF Quiet, OpeningSteps, FallingSteps
  <2>4. req' \in [Requests -> Request]
        /\ \A x \in Requests : req'[x] = req[x] \/ Quiet(req'[x])
    BY <2>1, <2>2, <2>3 DEF IInv, TypeOK
  <2> QED
    BY <2>1, <2>4, RevokeStep
<1>4. CASE RemoveFallback(r)
  BY <1>4, FallBackStep DEF RemoveFallback, IsAt
<1>5. CASE RemoveMove(r)
  <2>1. /\ req[r].to \in Orgs /\ req' = [req EXCEPT ![r] = Idle]
        /\ activeOrg' = [activeOrg EXCEPT ![req[r].user] = req[r].to]
        /\ UNCHANGED <<password, member, rows, access, resets>>
    BY <1>5 DEF RemoveMove, IsAt, Finish, IInv, MintRight, FallingSteps
  <2>2. activeOrg' \in [Users -> Orgs]
    BY <1>0, <2>1
  <2> QED
    BY <1>0, <2>1, <2>2, IdleQuiet, QuietMove
<1> QED
  BY <1>1, <1>2, <1>3, <1>4, <1>5 DEF RemoveStep

LEMMA SessionSteps ==
  ASSUME IInv, NEW u \in Users, SessionStep(u)
  PROVE  IInv'
<1>1. PICK S : rows' = Revoked(S) /\ UNCHANGED <<password, activeOrg, member, access, resets, req>>
  <2>1. CASE Logout(u)
    BY <2>1 DEF Logout
  <2>2. ASSUME NEW s \in Sids, RevokeSession(u, s) \/ RevokeOtherSessions(u, s)
        PROVE  \E S : rows' = Revoked(S) /\ UNCHANGED <<password, activeOrg, member, access, resets, req>>
    BY <2>2 DEF RevokeSession, RevokeOtherSessions
  <2> QED
    BY <2>1, <2>2 DEF SessionStep
<1> QED
  BY <1>1, RevokeStep DEF IInv, TypeOK

LEMMA EnvironmentSteps ==
  ASSUME IInv, Environment
  PROVE  IInv'
<1> USE DEF IInv
<1>1. ASSUME NEW t \in Tokens, ExpireToken(t) PROVE IInv'
  <2>1. rows' = [rows EXCEPT ![t].expired = TRUE] /\ rows[t] \in RefreshToken \ {NoRow}
    BY <1>1 DEF ExpireToken, Live, NoRow, TypeOK
  <2>2. [rows[t] EXCEPT !.expired = TRUE] \in RefreshToken
    BY <2>1 DEF RefreshToken
  <2>3. /\ rows' \in [Tokens -> RefreshToken]
        /\ \A x \in Tokens :
             /\ rows'[x].user = rows[x].user
             /\ rows'[x].sid = rows[x].sid
             /\ rows'[x].parent = rows[x].parent
             /\ rows'[x].since = rows[x].since
             /\ rows'[x].escaped = rows[x].escaped
             /\ rows'[x].st = rows[x].st
    BY <2>1, <2>2 DEF TypeOK, RefreshToken
  <2>4. UNCHANGED <<password, activeOrg, member, access, resets, req>>
        /\ member' \in SUBSET (Users \X Orgs)
    BY <1>1 DEF ExpireToken, TypeOK
  <2> QED
    BY <2>3, <2>4, QuietStep DEF TypeOK
<1>2. ASSUME NEW k \in ResetTokens, ExpireReset(k) PROVE IInv'
  <2>1. /\ resets[k] \in ResetRow \ {NoReset} /\ resets[k].resets = 0
        /\ resets' = [resets EXCEPT ![k].st = "expired"]
    BY <1>2 DEF ExpireReset, Usable, TypeOK, NoReset, ResetCount
  <2>2. resets' \in [ResetTokens -> ResetRow] /\ ResetCount'
    BY <2>1 DEF TypeOK, ResetRow, ResetCount
  <2>3. /\ \A x \in ResetTokens : resets[x].st # "absent" => resets'[x].st # "absent"
        /\ UNCHANGED <<password, activeOrg, member, rows, access, req>>
        /\ req' \in [Requests -> Request]
    BY <1>2, <2>1 DEF ExpireReset, TypeOK
  <2> QED
    BY <2>2, <2>3, ResetRowStep
<1>3. ASSUME NEW j \in access, ExpireAccess(j) PROVE IInv'
  <2>1. /\ access' \in SUBSET access
        /\ UNCHANGED <<password, activeOrg, member, rows, resets, req>>
    BY <1>3 DEF ExpireAccess
  <2> QED
    BY <2>1, QuietStep DEF TypeOK
<1>4. ASSUME NEW u \in Users, NEW o \in Orgs, Join(u, o) PROVE IInv'
  <2>1. /\ member' \in SUBSET (Users \X Orgs)
        /\ UNCHANGED <<password, activeOrg, rows, access, resets, req>>
    BY <1>4 DEF Join, TypeOK
  <2> QED
    BY <2>1, QuietStep DEF TypeOK
<1> QED
  BY <1>1, <1>2, <1>3, <1>4 DEF Environment

(* The inductive invariant holds in every reachable state. *)
LEMMA Invariance == Spec => []IInv
<1>1. Init => IInv
  BY InitIInv
<1>2. IInv /\ [Next]_vars => IInv'
  <2> SUFFICES ASSUME IInv, [Next]_vars PROVE IInv'
    OBVIOUS
  <2>1. ASSUME NEW r \in Requests, Abort(r) PROVE IInv'
    <3>1. Idle \in Request /\ Idle.pc = "idle"
      BY DEF Idle, Request
    <3> QED
      BY <2>1, <3>1, RequestStep DEF Abort, Finish
  <2>2. CASE UNCHANGED vars
    <3>1. /\ UNCHANGED <<password, activeOrg, member, rows, access, resets, req>>
          /\ member' \in SUBSET (Users \X Orgs)
          /\ rows' \in [Tokens -> RefreshToken]
      BY <2>2 DEF vars, IInv, TypeOK
    <3> QED
      BY <3>1, QuietStep DEF IInv, TypeOK
  <2> QED
    BY <2>1, <2>2, LoginSteps, RefreshSteps, ChangeSteps, ResetSteps, Switching,
       Leaving, Removing, SessionSteps, EnvironmentSteps DEF Next
<1> QED
  BY <1>1, <1>2, PTL DEF Spec

-----------------------------------------------------------------------------
(* Type correctness of the tables and of the requests in flight. *)
THEOREM TypeCorrect == Spec => []TypeOK
BY Invariance, PTL DEF IInv

(* However many requests present one refresh token, and whatever crashes,   *)
(* at most one successor is ever minted from it (auth.service.ts, refresh). *)
THEOREM RefreshTokenSingleUse == Spec => []RotationSingleUse
BY Invariance, PTL DEF IInv

(* A session never has two holders: live tokens and refreshes that won      *)
(* their compare-and-swap counted together.                                 *)
THEOREM SessionHasOneHolder == Spec => []OneHolderPerSession
BY Invariance, PTL DEF IInv

(* After any number of password changes and resets, a live session that    *)
(* goes back to an earlier password descends from a mint on a right older  *)
(* than the change: a check, a challenge or an access token                *)
(* (auth.service.ts, organizations.service.ts).                            *)
THEOREM PasswordChangeRevokes == Spec => []OnlyOlderRightsSurvive
<1>1. IInv => OnlyOlderRightsSurvive
  <2> SUFFICES ASSUME IInv, NEW t \in Tokens, Live(t),
                      rows[t].since # password[rows[t].user]
               PROVE  rows[t].escaped \in Right
    BY DEF OnlyOlderRightsSurvive
  <2>1. rows[t].escaped \in Right \cup {None}
    BY RowFields DEF IInv, Live
  <2> QED
    BY <2>1 DEF IInv, UnescapedCurrent
<1> QED
  BY <1>1, Invariance, PTL

(* However many requests race to consume a reset token, it sets at most one *)
(* password.                                                                *)
THEOREM ResetTokenSingleUse == Spec => []ResetSingleUse
<1>1. IInv => ResetSingleUse
  <2> SUFFICES ASSUME IInv, NEW k \in ResetTokens PROVE resets[k].resets <= 1
    BY DEF ResetSingleUse
  <2> QED
    BY DEF IInv, ResetCount
<1> QED
  BY <1>1, Invariance, PTL
=============================================================================

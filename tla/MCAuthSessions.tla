--------------------------- MODULE MCAuthSessions ---------------------------
(* AuthSessions for TLC: symmetric requests, tokens and session identities, *)
(* one part of the requests at a time.                                      *)
EXTENDS AuthSessions, TLC

VARIABLE focus

OrgSteps == SwitchSteps \cup LeaveSteps \cup RemoveSteps \cup {"org_mint"}
ResetSteps == {"forgot_commit", "reset_commit"}

(* One organization and two password changes, no second factor: login,     *)
(* rotation, change, reset and the session endpoints.                      *)
OneOrg ==
  /\ \A r \in Requests : req'[r].pc \notin OrgSteps /\ req'[r].right = "check"
  /\ UNCHANGED member
  /\ access \subseteq access'

Apart == OrgSteps \cup {"login_member", "login_mint"}

(* Two organizations, two rows and one password change, every login with a *)
(* second factor: one login, switch, leave or removal at a time, beside a  *)
(* refresh or a change; access tokens expire between requests.             *)
Moving ==
  /\ \A r \in Requests : req'[r].pc \notin ResetSteps
  /\ \A r \in Requests : IsAt(r, "login_member")' => req'[r].right = "challenge"
  /\ \A r1, r2 \in Requests : <<req'[r1].pc, req'[r2].pc>> \notin Apart \X Apart \/ r1 = r2
  /\ \A u \in Users : password'[u] <= 1
  /\ \E t \in Tokens : rows'[t] = NoRow
  /\ access \subseteq access' \/ \A r \in Requests : req[r] = Idle
  /\ rows' # rows => req' # req

MCInit == Init /\ focus \in {"tokens", "orgs"} /\ activeOrg \in [Users -> {CHOOSE o \in Orgs : TRUE}]
MCNext == Next /\ UNCHANGED focus /\ IF focus = "tokens" THEN OneOrg ELSE Moving
MCSpec == MCInit /\ [][MCNext]_<<vars, focus>>

Symmetry ==
  Permutations(Requests) \cup Permutations(Tokens) \cup
  Permutations(Sids) \cup Permutations(ResetTokens)
=============================================================================

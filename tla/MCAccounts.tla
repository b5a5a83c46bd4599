----------------------------- MODULE MCAccounts -----------------------------
(* OrgMembership and Mfa for TLC: users, unfurnished organizations and       *)
(* requests are interchangeable.  A behaviour is about memberships and       *)
(* ownership, or about the second factor of one user; what it is not about   *)
(* stays as it began.                                                        *)
EXTENDS OrgMembership, SecondFactor, TLC

VARIABLES focus, asking, given

mfaVars == <<user, asking, given, proven, spent, mixed, leftover>>

M == INSTANCE Mfa WITH
  Codes <- {1, 2}, MaxIssued <- 3, request <- asking, issued <- given

Symmetry == Permutations(Users) \cup Permutations(Orgs \ Furnished)
              \cup Permutations(Requests)

MCInit ==
  /\ Init /\ M!Init
  /\ \/ focus = "organizations" /\ user.secret = None
     \/ focus = "second factor"

InTurn ==
  /\ MCInit
  /\ [][\/ focus = "organizations" /\ Next /\ UNCHANGED <<focus, mfaVars>>
        \/ focus = "second factor" /\ M!Next /\ UNCHANGED <<focus, vars>>]_<<focus, vars, mfaVars>>
=============================================================================

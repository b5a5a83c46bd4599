-------------------------- MODULE MCOrgMembership ---------------------------
(* OrgMembership for TLC: users, unfurnished organizations and requests    *)
(* are interchangeable.                                                    *)
EXTENDS OrgMembership, TLC

Symmetry == Permutations(Users) \cup Permutations(Orgs \ Furnished)
              \cup Permutations(Requests)
=============================================================================

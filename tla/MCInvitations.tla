--------------------------- MODULE MCInvitations ----------------------------
(* Invitations for TLC: invitees, rows and requests are interchangeable. *)
EXTENDS Invitations, TLC

Symmetry == Permutations(Invitees) \cup Permutations(Invitations)
              \cup Permutations(Requests)
=============================================================================

------------------------------ MODULE MCDevices ------------------------------
(* DeviceEnrollment for TLC.  A behaviour is about one of                    *)
(*   fleet: two machines, two registrations at once, a plan for one device;  *)
(*   plan: two machines, and a plan change during a registration;            *)
(*   enrol: a machine whose installer and service register at once, a fault; *)
(*   service: a machine whose service meets a plan change;                   *)
(* what it is not about stays as it began.                                   *)
EXTENDS DeviceEnrollment, TLC

CONSTANTS m1, m2, s1, r1, r2, h1  \* computers, the one with the service; slots; a plan change

VARIABLE focus

Symmetry == Permutations({m1, m2}) \cup Permutations({r1, r2}) \cup Permutations(Identities)

(* The machines, slots, plan changes and uses a behaviour has, and its faults *)
Has(M, R, W, uses, f) ==
  /\ \A m \in Machines \ M : agent'[m] = agent[m]
  /\ \A r \in Requests \ R : IsAt(r, "idle")'
  /\ \A w \in Webhooks \ W : webhook'[w].pc = "due"
  /\ uses < MaxUses => \A k \in Tokens : token'[k].used <= uses
  /\ faults' <= f

Turn ==
  CASE focus = "fleet"   -> Has({m1, m2}, {r1, r2}, {}, MaxUses, 0)
    [] focus = "plan"    -> Has({m1, m2}, {r1}, {h1}, 2, 0)
    [] focus = "enrol"   -> Has({s1}, {r1, r2}, {}, 2, 1)
    [] focus = "service" -> Has({s1}, {r1}, {h1}, 2, 0)

Chosen(L, N) == limit \in L /\ webhook[h1].limit \in N

MCInit ==
  /\ Init
  /\ \/ focus = "fleet" /\ Chosen({1}, {1})
     \/ focus = "plan" /\ Chosen({1, 2}, {1, 2})
     \/ focus = "enrol" /\ Chosen({1}, {1})
     \/ focus = "service" /\ Chosen({0, 1}, {0, 1})

InTurn ==
  /\ MCInit
  /\ [][Next /\ UNCHANGED focus /\ Turn]_<<vars, focus>>
=============================================================================

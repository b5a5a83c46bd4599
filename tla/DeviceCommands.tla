--------------------------- MODULE DeviceCommands ---------------------------
(* What the gateway promises about the work it asks of a device: a remote   *)
(* session to accept, a network to scan.  A command is asked once, taken by *)
(* the agents that list it while it is asked, and closed by anyone; from    *)
(* then on only an agent that took it while it was asked can reopen it.     *)
CONSTANTS Commands

VARIABLES
  phase,  \* of each command: not created, asked of the device, under way, over
  held    \* the commands that agents, or their calls, have in hand

vars == <<phase, held>>

Phases == {"none", "asked", "working", "closed"}

Init == phase = [c \in Commands |-> "none"] /\ held = {}

(* A user asks. *)
Ask(c) ==
  /\ phase[c] = "none"
  /\ phase' = [phase EXCEPT ![c] = "asked"]
  /\ held' = held

(* An agent lists what is asked of it. *)
Take(C) ==
  /\ \A c \in C : phase[c] = "asked"
  /\ held' = held \cup C
  /\ phase' = phase

(* An agent reports on what it has in hand, whatever became of it meanwhile. *)
Report(c) ==
  /\ c \in held
  /\ \E p \in {"working", "closed"} : phase' = [phase EXCEPT ![c] = p]
  /\ held' \in {held, held \ {c}}

(* An agent lets go: it is done, it crashed, its call was lost. *)
Drop(C) == held' = held \ C /\ phase' = phase

(* A user, a time limit or a revocation ends commands. *)
Close(C) ==
  /\ \A c \in C : phase[c] # "none"
  /\ phase' = [c \in Commands |-> IF c \in C THEN "closed" ELSE phase[c]]
  /\ held' = held

Next ==
  \/ \E c \in Commands : Ask(c) \/ Report(c)
  \/ \E C \in SUBSET Commands : Take(C) \/ Drop(C) \/ Close(C)

Spec == Init /\ [][Next]_vars
=============================================================================

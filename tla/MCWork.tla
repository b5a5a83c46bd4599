------------------------------- MODULE MCWork -------------------------------
(* The work that the gateway hands to agents and to the worker, for TLC.  A  *)
(* behaviour is about the remote sessions of a device, the scans asked of    *)
(* one device, one scan that two devices may take, one scan and faults, or a *)
(* backup run; what it is not about stays as it began.                       *)
EXTENDS RemoteSupport, RestorePoints

CONSTANTS o1, o2, d1, d2, j1, j2, w1, w2, Anyone  \* openers, devices, jobs, slots

VARIABLES
  focus,
  scan, asking, aged, listing, tasks, report, tardy, barred,   \* NetworkScans
  request, job, slot, made, commands, lost, once  \* BackupRuns, and RestorePoints'

sessionVars == <<session, opening, todo, call, late, revoked>>
scanVars == <<scan, asking, aged, listing, tasks, report, tardy, barred>>
backupVars == <<run, request, job, slot, made, commands, passed, lost, once, undone>>
allVars == <<focus, faults, sessionVars, scanVars, backupVars>>

N == INSTANCE NetworkScans WITH Scans <- {1, 2}, Devices <- {d1}, MaxFaults <- 0,
  opening <- asking, todo <- tasks, call <- report, late <- tardy, revoked <- barred
P == INSTANCE NetworkScans WITH Scans <- {1}, Devices <- {d1, d2}, Openers <- {o1}, MaxFaults <- 0,
  opening <- asking, todo <- tasks, call <- report, late <- tardy, revoked <- barred
Q == INSTANCE NetworkScans WITH Scans <- {1}, Devices <- {d1}, Openers <- {o1}, MaxFaults <- 2,
  opening <- asking, todo <- tasks, call <- report, late <- tardy, revoked <- barred
B == INSTANCE BackupRuns WITH Runs <- {1}, Requests <- {o1}, Jobs <- {j1, j2},
  Slots <- {w1, w2}, Attempts <- 2, MaxArchives <- 3, MaxCommands <- 2

Remote == focus = "remote"
Net == focus = "scans"
Shared == focus = "shared scan"
Faulty == focus = "scan with faults"
Backup == focus = "backup"

MCInit ==
  /\ Init /\ B!Init
  /\ \/ focus \in {"remote", "scans", "backup"} /\ N!Init
     \/ Shared /\ P!Init
     \/ Faulty /\ Q!Init

OfRemote(A) == Remote /\ A /\ UNCHANGED <<focus, scanVars, backupVars>>
OfNet(A) == Net /\ A /\ UNCHANGED <<focus, sessionVars, backupVars>>
OfShared(A) == Shared /\ A /\ UNCHANGED <<focus, sessionVars, backupVars>>
OfFaulty(A) == Faulty /\ A /\ UNCHANGED <<focus, sessionVars, backupVars>>
OfBackup(A) == Backup /\ A /\ UNCHANGED <<focus, sessionVars, scanVars>>

MCNext ==
  OfRemote(Next) \/ OfNet(N!Next) \/ OfShared(P!Next) \/ OfFaulty(Q!Next) \/ OfBackup(B!Next)

(* The fairness of the modules, in one formula each where they are alike: a   *)
(* behaviour is about one of them only.                                       *)
InTurn ==
  /\ MCInit /\ [][MCNext]_allVars
  /\ WF_allVars(\/ OfRemote(Agent) \/ OfNet(N!Agent(d1)) \/ OfShared(P!Agent(d1))
                \/ OfFaulty(Q!Agent(d1)) \/ OfBackup(B!Work(w1)))
  /\ WF_allVars(OfShared(P!Agent(d2)) \/ OfBackup(B!Work(w2)))
  /\ WF_allVars(OfNet(N!Age) \/ OfShared(P!Age) \/ OfFaulty(Q!Age) \/ OfBackup(B!Enqueue(o1)))
  /\ WF_allVars(OfBackup(B!Recover(j1))) /\ WF_allVars(OfBackup(B!Recover(j2)))

(* NetworkScans: a second open scan is a race or an agent's late report, and  *)
(* only an agent that still has a scan undoes its completion.                 *)
ScansKept ==
  [][/\ Net => N!SecondScanning /\ N!Uncompleting
     /\ Shared => P!SecondScanning /\ P!Uncompleting
     /\ Faulty => Q!SecondScanning /\ Q!Uncompleting]_allVars

(* NetworkScans: if a device is left to poll, every scan closes.             *)
Awaited(s) == s \in DOMAIN scan /\ scan[s].status \in {"pending", "running"}
ScanCloses ==
  /\ <>[](d1 \notin barred) =>
       \A s \in {1, 2} : []<>~(Awaited(s) /\ ~Shared)
  /\ (\E d \in {d1, d2} : <>[](d \notin barred)) => []<>~(Awaited(1) /\ Shared)

(* NetworkScans implements DeviceCommands.                                   *)
ScanOrders == INSTANCE DeviceCommands WITH
  Commands <- {1, 2},
  phase <- [s \in {1, 2} |-> IF s \in DOMAIN scan THEN N!Phase(scan[s].status) ELSE "none"],
  held <- (UNION {tasks[d] : d \in DOMAIN tasks}) \cup {c.s : c \in tardy}
ScansImplementCommands == ScanOrders!Spec

(* BackupRuns: what unmakes a restore point.                                 *)
RestorePointKept == [][B!Unmaking]_allVars

(* BackupRuns: a run ends, unless one of four failures lost it.              *)
RunSettles == []<>(B!Settled(1) \/ 1 \in lost)
=============================================================================

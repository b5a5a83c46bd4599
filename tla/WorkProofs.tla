----------------------------- MODULE WorkProofs -----------------------------
(***************************************************************************)
(* Proofs about RemoteSupport, for any sessions, requests and bounds, and, *)
(* from "Backup runs" on, about BackupRuns, for any runs, requests, jobs,  *)
(* slots and bounds.                                                       *)
(***************************************************************************)
EXTENDS RemoteSupport, RestorePoints, TLAPS

(* The session c is about was consented to and started. *)
Granted(s) == session[s].consent /\ session[s].started

(* What a call shows: a status "active" follows a consent that was written, *)
(* and so does the answer to it.                                           *)
Follows(c) == c.op = "active" \/ (c.op = "grant" /\ c.stage = "ok") => Granted(c.s)

CallsFollow ==
  /\ call # None => Follows(call)
  /\ \A c \in late : Follows(c)

(* The agent's call is about a session it has still to do. *)
CallHeld == call # None => call.s \in todo

(* A request that was not outrun since is right that nothing is open. *)
ClearIsClear == (\E o \in Openers : opening[o] = "clear") => Open = {}

IInv == TypeOK /\ ActiveIsConsented /\ CallsFollow /\ CallHeld /\ ClearIsClear

Row == [status : Statuses, consent : BOOLEAN, started : BOOLEAN]

-----------------------------------------------------------------------------
(* Writes *)

LEMMA WithStatusTyped ==
  ASSUME TypeOK, NEW S \in SUBSET Sessions, NEW v \in Statuses,
         session' = WithStatus(S, v)
  PROVE  /\ session' \in [Sessions -> Row]
         /\ \A s \in S : session'[s].status = v
         /\ \A s \in Sessions \ S : session'[s] = session[s]
         /\ \A s \in Sessions : Granted(s) => Granted(s)'
BY DEF TypeOK, WithStatus, Row, Granted

LEMMA WrittenTyped ==
  ASSUME TypeOK, NEW c \in CallType, session' = Written(c)
  PROVE  /\ session' \in [Sessions -> Row]
         /\ session'[c.s].status = IF c.op = "grant" THEN "active" ELSE c.op
         /\ c.op = "grant" => Granted(c.s)'
         /\ \A s \in Sessions \ {c.s} : session'[s] = session[s]
         /\ \A s \in Sessions : Granted(s) => Granted(s)'
BY DEF TypeOK, Written, Row, Granted, CallType, Ops, Statuses

(* Calls keep what they follow as long as sessions do. *)
LEMMA StillFollows ==
  ASSUME \A s \in Sessions : Granted(s) => Granted(s)',
         NEW c \in CallType, Follows(c)
  PROVE  Follows(c)'
BY DEF Follows, CallType

LEMMA OutrunTyped ==
  ASSUME TypeOK, opening' = [o \in Openers |-> Outrun(o)]
  PROVE  /\ opening' \in [Openers -> {"idle", "clear", "raced"}]
         /\ \A o \in Openers : opening'[o] # "clear"
BY DEF TypeOK, Outrun

(* What a report of the agent writes keeps the table's invariants. *)
LEMMA WriteStep ==
  ASSUME IInv, NEW c \in CallType, session' = Written(c), Reopening(c), Follows(c)
  PROVE  /\ session' \in [Sessions -> Row]
         /\ opening' \in [Openers -> {"idle", "clear", "raced"}]
         /\ ActiveIsConsented' /\ ClearIsClear'
         /\ \A s \in Sessions : Granted(s) => Granted(s)'
         /\ c.op = "grant" => Granted(c.s)'
<1>1. c.s \in Sessions /\ c.op \in Ops
  BY DEF CallType
<1>2. /\ session' \in [Sessions -> Row]
      /\ session'[c.s].status = IF c.op = "grant" THEN "active" ELSE c.op
      /\ c.op = "grant" => Granted(c.s)'
      /\ \A s \in Sessions \ {c.s} : session'[s] = session[s]
      /\ \A s \in Sessions : Granted(s) => Granted(s)'
  BY WrittenTyped DEF IInv
<1>3. opening' \in [Openers -> {"idle", "clear", "raced"}]
  BY OutrunTyped DEF IInv, TypeOK, Reopening
<1>4. ActiveIsConsented'
  <2> SUFFICES ASSUME NEW s \in Sessions, session'[s].status = "active"
               PROVE  Granted(s)'
    BY DEF ActiveIsConsented, Granted
  <2>1. CASE s = c.s /\ c.op \in {"grant", "active"}
    BY <1>1, <1>2, <2>1 DEF Follows
  <2>2. CASE s = c.s /\ c.op = "failed"
    BY <1>2, <2>2
  <2>3. CASE s # c.s
    BY <1>2, <2>3 DEF IInv, ActiveIsConsented, Granted
  <2> QED
    BY <1>1, <2>1, <2>2, <2>3 DEF Ops
<1>5. ClearIsClear'
  <2> SUFFICES ASSUME NEW o \in Openers, opening'[o] = "clear"
               PROVE  Open' = {}
    BY DEF ClearIsClear
  <2>1. opening' = opening /\ (session[c.s].status \in {"pending", "active"} \/ c.op = "failed")
    BY OutrunTyped DEF Reopening, IInv
  <2>2. Open = {}
    BY <2>1 DEF IInv, ClearIsClear
  <2>3. c.op = "failed"
    BY <1>1, <2>1, <2>2 DEF Open
  <2> QED
    BY <1>1, <1>2, <2>2, <2>3 DEF Open
<1> QED
  BY <1>2, <1>3, <1>4, <1>5

(* A step that opens nothing, and leaves requests as they are or idle,      *)
(* keeps what they believe.                                                *)
LEMMA NothingOpens ==
  ASSUME TypeOK, ClearIsClear, Open' \subseteq Open,
         \A o \in Openers : opening'[o] = "clear" => opening[o] = "clear"
  PROVE  ClearIsClear'
BY DEF ClearIsClear

(* Sessions that are all closed by one update. *)
LEMMA CloseStep ==
  ASSUME IInv, NEW S \in SUBSET Sessions, NEW v \in {"ended", "expired"},
         session' = WithStatus(S, v), UNCHANGED <<opening, call, late>>
  PROVE  /\ session' \in [Sessions -> Row]
         /\ ActiveIsConsented' /\ CallsFollow' /\ ClearIsClear'
<1>1. v \in Statuses
  BY DEF Statuses
<1>2. /\ session' \in [Sessions -> Row]
      /\ \A s \in S : session'[s].status = v
      /\ \A s \in Sessions \ S : session'[s] = session[s]
      /\ \A s \in Sessions : Granted(s) => Granted(s)'
  BY <1>1, WithStatusTyped DEF IInv
<1>3. ActiveIsConsented'
  BY <1>2 DEF IInv, ActiveIsConsented, Granted
<1>4. CallsFollow'
  <2>1. call # None => Follows(call)'
    BY <1>2, StillFollows DEF IInv, CallsFollow, TypeOK
  <2>2. \A c \in late : Follows(c)'
    BY <1>2, StillFollows DEF IInv, CallsFollow, TypeOK
  <2> QED
    BY <2>1, <2>2 DEF CallsFollow, Follows
<1>5. Open' \subseteq Open
  BY <1>2 DEF Open
<1>6. ClearIsClear'
  BY <1>5, NothingOpens DEF IInv
<1> QED
  BY <1>2, <1>3, <1>4, <1>6

-----------------------------------------------------------------------------
(* The inductive invariant *)

LEMMA InitIInv == Init => IInv
<1> SUFFICES ASSUME Init PROVE IInv
  OBVIOUS
<1>1. TypeOK
  BY DEF Init, TypeOK, Statuses
<1>2. ActiveIsConsented
  BY DEF Init, ActiveIsConsented
<1>3. CallsFollow /\ CallHeld /\ ClearIsClear
  BY DEF Init, CallsFollow, CallHeld, ClearIsClear
<1> QED
  BY <1>1, <1>2, <1>3 DEF IInv

(* A step that leaves the sessions alone: the calls after it are calls     *)
(* before it, or follow what they must.                                    *)
LEMMA CallStep ==
  ASSUME IInv, session' = session,
         \A o \in Openers : opening'[o] = "clear" => opening[o] = "clear",
         opening' \in [Openers -> {"idle", "clear", "raced"}],
         todo' \in SUBSET Sessions, call' \in CallType \cup {None}, late' \in SUBSET CallType,
         revoked' \in BOOLEAN, faults' \in Nat,
         call' # None => Follows(call') /\ call'.s \in todo',
         \A c \in late' : Follows(c)
  PROVE  IInv'
<1>1. TypeOK'
  BY DEF IInv, TypeOK
<1>2. ActiveIsConsented'
  BY DEF IInv, ActiveIsConsented
<1>3. CallsFollow' /\ CallHeld'
  BY DEF CallsFollow, CallHeld, Follows, Granted
<1>4. ClearIsClear'
  BY DEF IInv, ClearIsClear, Open
<1> QED
  BY <1>1, <1>2, <1>3, <1>4 DEF IInv

(* A late call loses nothing by having lost its agent. *)
LEMMA InFlightTyped ==
  ASSUME IInv
  PROVE  /\ InFlight \subseteq CallType
         /\ \A c \in InFlight : Follows(c) /\ c = call
         /\ late \cup InFlight \subseteq CallType
         /\ \A c \in late \cup InFlight : Follows(c)
BY DEF IInv, TypeOK, CallsFollow, InFlight

(* The agent goes on after an answer, or without one. *)
LEMMA ProceedTyped ==
  ASSUME IInv, call # None, NEW ok \in BOOLEAN, Proceed(ok),
         ok => call.stage = "ok", session' = session
  PROVE  /\ call' \in CallType \cup {None} /\ todo' \in SUBSET Sessions
         /\ call' # None => Follows(call') /\ call'.s \in todo'
         /\ todo' \subseteq todo
         /\ todo \subseteq todo' \cup {call.s}
<1>1. call \in CallType /\ Follows(call) /\ call.s \in todo /\ todo \in SUBSET Sessions
  BY DEF IInv, TypeOK, CallsFollow, CallHeld
<1>2. CASE call.op = "grant"
  <2>1. call' = Call(call.s, IF ok THEN "active" ELSE "failed") /\ todo' = todo
    BY <1>2 DEF Proceed
  <2>2. /\ call' \in CallType /\ call'.s = call.s
        /\ call'.op = (IF ok THEN "active" ELSE "failed") /\ call'.stage = "sent"
    BY <1>1, <2>1 DEF Call, CallType, Ops
  <2>3. Follows(call')
    BY <1>1, <1>2, <2>2 DEF Follows
  <2> QED
    BY <1>1, <2>1, <2>2, <2>3
<1>3. CASE call.op # "grant"
  BY <1>1, <1>3 DEF Proceed
<1> QED
  BY <1>2, <1>3

LEMMA FindOpenStep ==
  ASSUME IInv, NEW o \in Openers, FindOpen(o) PROVE IInv'
<1>1. TypeOK'
  BY DEF IInv, TypeOK, FindOpen
<1>2. ActiveIsConsented' /\ CallsFollow' /\ CallHeld'
  BY DEF FindOpen, IInv, ActiveIsConsented, CallsFollow, CallHeld, Follows, Granted
<1>3. ClearIsClear'
  BY DEF FindOpen, ClearIsClear, Open
<1> QED
  BY <1>1, <1>2, <1>3 DEF IInv

LEMMA CreateStep ==
  ASSUME IInv, NEW o \in Openers, Create(o) PROVE IInv'
<1> PICK s \in Sessions : session' = WithStatus({s}, "pending")
  BY DEF Create
<1>0. {s} \in SUBSET Sessions /\ "pending" \in Statuses
  BY DEF Statuses
<1>1. /\ session' \in [Sessions -> Row]
      /\ session'[s].status = "pending"
      /\ \A t \in Sessions \ {s} : session'[t] = session[t]
      /\ \A t \in Sessions : Granted(t) => Granted(t)'
  BY <1>0, WithStatusTyped DEF IInv
<1>2. /\ opening' \in [Openers -> {"idle", "clear", "raced"}]
      /\ \A p \in Openers : opening'[p] # "clear"
  BY DEF Create, Outrun, IInv, TypeOK
<1>3. UNCHANGED <<todo, call, late, revoked, faults>>
  BY DEF Create
<1>4. TypeOK'
  BY <1>1, <1>2, <1>3 DEF IInv, TypeOK, Row
<1>5. ActiveIsConsented'
  BY <1>1 DEF IInv, ActiveIsConsented, Granted
<1>6. CallsFollow' /\ CallHeld'
  <2>1. call # None => Follows(call)'
    BY <1>1, <1>3, StillFollows DEF IInv, CallsFollow, TypeOK
  <2>2. \A c \in late : Follows(c)'
    BY <1>1, StillFollows DEF IInv, CallsFollow, TypeOK
  <2> QED
    BY <1>3, <2>1, <2>2 DEF CallsFollow, Follows, IInv, CallHeld
<1>7. ClearIsClear'
  BY <1>2 DEF ClearIsClear
<1> QED
  BY <1>4, <1>5, <1>6, <1>7 DEF IInv

LEMMA ClosingStep ==
  ASSUME IInv, NEW S \in SUBSET Sessions, NEW v \in {"ended", "expired"},
         session' = WithStatus(S, v), UNCHANGED <<opening, todo, call, late, faults>>,
         revoked' \in BOOLEAN
  PROVE  IInv'
<1>1. /\ session' \in [Sessions -> Row]
      /\ ActiveIsConsented' /\ CallsFollow' /\ ClearIsClear'
  BY CloseStep
<1>2. TypeOK'
  BY <1>1 DEF IInv, TypeOK, Row
<1>3. CallHeld'
  BY DEF IInv, CallHeld
<1> QED
  BY <1>1, <1>2, <1>3 DEF IInv

LEMMA ReenrollStep == ASSUME IInv, Reenroll PROVE IInv'
<1>1. /\ call' \in CallType \cup {None}
      /\ call' # None => call # None /\ Follows(call') /\ call'.s \in todo
  BY DEF IInv, TypeOK, CallsFollow, CallHeld, Reenroll, CallType, Follows, Granted
<1>2. late' \in SUBSET CallType /\ \A c \in late' : Follows(c)
  BY DEF IInv, TypeOK, CallsFollow, Reenroll
<1>3. UNCHANGED <<session, opening, todo, faults>> /\ revoked' \in BOOLEAN
  BY DEF Reenroll
<1>4. todo \in SUBSET Sessions /\ faults \in Nat /\ opening \in [Openers -> {"idle", "clear", "raced"}]
  BY DEF IInv, TypeOK
<1> QED
  BY <1>1, <1>2, <1>3, <1>4, CallStep

LEMMA AcceptStep == ASSUME IInv, Accept PROVE IInv'
<1>1. /\ call' \in CallType \cup {None}
      /\ call' # None => call # None /\ Follows(call') /\ call'.s \in todo
  BY DEF IInv, TypeOK, CallsFollow, CallHeld, Accept, CallType, Follows, Granted
<1>2. UNCHANGED <<session, opening, todo, late, revoked, faults>>
  BY DEF Accept
<1>3. /\ todo \in SUBSET Sessions /\ faults \in Nat /\ revoked \in BOOLEAN
      /\ opening \in [Openers -> {"idle", "clear", "raced"}]
      /\ late \in SUBSET CallType /\ \A c \in late : Follows(c)
  BY DEF IInv, TypeOK, CallsFollow
<1> QED
  BY <1>1, <1>2, <1>3, CallStep

LEMMA ApplyStep == ASSUME IInv, Apply PROVE IInv'
<1>1. call # None /\ call \in CallType /\ Follows(call) /\ call.s \in todo
  BY DEF IInv, TypeOK, CallsFollow, CallHeld, Apply
<1>2. /\ session' \in [Sessions -> Row]
      /\ opening' \in [Openers -> {"idle", "clear", "raced"}]
      /\ ActiveIsConsented' /\ ClearIsClear'
      /\ \A s \in Sessions : Granted(s) => Granted(s)'
      /\ call.op = "grant" => Granted(call.s)'
  BY <1>1, WriteStep DEF Apply
<1>3. /\ call' \in CallType /\ call'.s = call.s /\ call'.op = call.op
      /\ UNCHANGED <<todo, late, revoked, faults>>
  BY <1>1 DEF Apply, CallType
<1>4. TypeOK'
  BY <1>2, <1>3 DEF IInv, TypeOK, Row
<1>5. Follows(call)'
  <2>1. CASE call.op = "active"
    BY <1>1, <1>2, <1>3, <2>1 DEF Follows, Granted, CallType
  <2>2. CASE call.op # "active"
    BY <1>2, <1>3, <2>2 DEF Follows, Granted
  <2> QED
    BY <2>1, <2>2
<1>6. \A c \in late : Follows(c)'
  BY <1>2, StillFollows DEF IInv, CallsFollow, TypeOK
<1>7. CallsFollow' /\ CallHeld'
  BY <1>1, <1>3, <1>5, <1>6 DEF CallsFollow, CallHeld, Follows
<1> QED
  BY <1>2, <1>4, <1>7 DEF IInv

LEMMA AcceptLateStep ==
  ASSUME IInv, NEW c \in late, AcceptLate(c) PROVE IInv'
<1>1. c \in CallType /\ Follows(c)
  BY DEF IInv, TypeOK, CallsFollow
<1>2. late' \in SUBSET CallType /\ \A d \in late' : Follows(d)
  <2>1. [c EXCEPT !.stage = "read"] \in CallType /\ Follows([c EXCEPT !.stage = "read"])
    BY <1>1 DEF CallType, Follows, Granted
  <2> QED
    BY <2>1 DEF AcceptLate, IInv, TypeOK, CallsFollow
<1>3. UNCHANGED <<session, opening, todo, call, revoked, faults>>
  BY DEF AcceptLate
<1>4. /\ todo \in SUBSET Sessions /\ faults \in Nat /\ revoked \in BOOLEAN
      /\ opening \in [Openers -> {"idle", "clear", "raced"}]
      /\ call \in CallType \cup {None}
      /\ call # None => Follows(call) /\ call.s \in todo
  BY DEF IInv, TypeOK, CallsFollow, CallHeld
<1> QED
  BY <1>2, <1>3, <1>4, CallStep

LEMMA ApplyLateStep ==
  ASSUME IInv, NEW c \in late, ApplyLate(c) PROVE IInv'
<1>1. c \in CallType /\ Follows(c)
  BY DEF IInv, TypeOK, CallsFollow
<1>2. /\ session' \in [Sessions -> Row]
      /\ opening' \in [Openers -> {"idle", "clear", "raced"}]
      /\ ActiveIsConsented' /\ ClearIsClear'
      /\ \A s \in Sessions : Granted(s) => Granted(s)'
  BY <1>1, WriteStep DEF ApplyLate
<1>3. late' \subseteq late /\ UNCHANGED <<todo, call, revoked, faults>>
  BY DEF ApplyLate
<1>4. TypeOK'
  BY <1>2, <1>3 DEF IInv, TypeOK, Row
<1>5. call # None => Follows(call)'
  BY <1>2, <1>3, StillFollows DEF IInv, CallsFollow, TypeOK
<1>6. \A d \in late : Follows(d)'
  BY <1>2, StillFollows DEF IInv, CallsFollow, TypeOK
<1>7. CallsFollow' /\ CallHeld'
  BY <1>3, <1>5, <1>6 DEF CallsFollow, CallHeld, Follows, IInv
<1> QED
  BY <1>2, <1>4, <1>7 DEF IInv

LEMMA GatewayRestartStep == ASSUME IInv, GatewayRestart PROVE IInv'
<1>1. /\ call' \in CallType \cup {None}
      /\ call' # None => call # None /\ Follows(call') /\ call'.s \in todo
  BY DEF IInv, TypeOK, CallsFollow, CallHeld, GatewayRestart, CallType, Follows, Granted
<1>2. /\ late' = {} /\ faults' \in Nat /\ UNCHANGED <<session, todo, revoked>>
      /\ opening' \in [Openers -> {"idle", "clear", "raced"}]
      /\ \A o \in Openers : opening'[o] # "clear"
  BY DEF GatewayRestart, IInv, TypeOK
<1>3. todo \in SUBSET Sessions /\ revoked \in BOOLEAN
  BY DEF IInv, TypeOK
<1> QED
  BY <1>1, <1>2, <1>3, CallStep

LEMMA PollStep == ASSUME IInv, Poll PROVE IInv'
<1>1. call = None /\ todo' \in SUBSET Sessions
  BY DEF Poll, Listed, Pending
<1>2. UNCHANGED <<session, opening, call, late, revoked, faults>>
  BY DEF Poll
<1>3. /\ faults \in Nat /\ revoked \in BOOLEAN
      /\ opening \in [Openers -> {"idle", "clear", "raced"}]
      /\ call \in CallType \cup {None}
      /\ late \in SUBSET CallType /\ \A c \in late : Follows(c)
  BY DEF IInv, TypeOK, CallsFollow
<1> QED
  BY <1>1, <1>2, <1>3, CallStep

LEMMA ConsentStep ==
  ASSUME IInv, NEW s \in Sessions, Consent(s) PROVE IInv'
<1>1. call' = Call(s, "grant") /\ s \in todo /\ UNCHANGED <<session, opening, todo, late, revoked, faults>>
  BY DEF Consent
<1>2. call' \in CallType /\ call'.s = s /\ Follows(call')
  BY <1>1 DEF Call, CallType, Ops, Follows
<1>3. /\ faults \in Nat /\ revoked \in BOOLEAN /\ todo \in SUBSET Sessions
      /\ opening \in [Openers -> {"idle", "clear", "raced"}]
      /\ late \in SUBSET CallType /\ \A c \in late : Follows(c)
  BY DEF IInv, TypeOK, CallsFollow
<1> QED
  BY <1>1, <1>2, <1>3, CallStep

LEMMA AnsweredStep == ASSUME IInv, Answered PROVE IInv'
<1>1. /\ call # None /\ Proceed(call.stage = "ok")
      /\ UNCHANGED <<session, opening, late, revoked, faults>>
  BY DEF Answered
<1>2. /\ call' \in CallType \cup {None} /\ todo' \in SUBSET Sessions
      /\ call' # None => Follows(call') /\ call'.s \in todo'
  BY <1>1, ProceedTyped
<1>3. /\ faults \in Nat /\ revoked \in BOOLEAN
      /\ opening \in [Openers -> {"idle", "clear", "raced"}]
      /\ late \in SUBSET CallType /\ \A c \in late : Follows(c)
  BY DEF IInv, TypeOK, CallsFollow
<1> QED
  BY <1>1, <1>2, <1>3, CallStep

LEMMA GiveUpStep == ASSUME IInv, GiveUp PROVE IInv'
<1>1. /\ call # None /\ Proceed(FALSE) /\ late' = late \cup InFlight
      /\ faults' = faults + 1 /\ UNCHANGED <<session, opening, revoked>>
  BY DEF GiveUp
<1>2. /\ call' \in CallType \cup {None} /\ todo' \in SUBSET Sessions
      /\ call' # None => Follows(call') /\ call'.s \in todo'
  BY <1>1, ProceedTyped
<1>3. /\ faults' \in Nat /\ revoked \in BOOLEAN
      /\ opening \in [Openers -> {"idle", "clear", "raced"}]
  BY <1>1 DEF IInv, TypeOK
<1> QED
  BY <1>1, <1>2, <1>3, InFlightTyped, CallStep

LEMMA AgentRestartStep == ASSUME IInv, AgentRestart PROVE IInv'
<1>1. /\ call' = None /\ todo' = {} /\ late' = late \cup InFlight
      /\ faults' = faults + 1 /\ UNCHANGED <<session, opening, revoked>>
  BY DEF AgentRestart
<1>2. /\ faults' \in Nat /\ revoked \in BOOLEAN
      /\ opening \in [Openers -> {"idle", "clear", "raced"}]
  BY <1>1 DEF IInv, TypeOK
<1> QED
  BY <1>1, <1>2, InFlightTyped, CallStep

LEMMA Inductive == IInv /\ [Next]_vars => IInv'
<1> SUFFICES ASSUME IInv, [Next]_vars PROVE IInv'
  OBVIOUS
<1>1. ASSUME NEW o \in Openers, FindOpen(o) PROVE IInv'
  BY <1>1, FindOpenStep
<1>2. ASSUME NEW o \in Openers, Create(o) PROVE IInv'
  BY <1>2, CreateStep
<1>3. ASSUME NEW s \in Sessions, EndSession(s) PROVE IInv'
  BY <1>3, ClosingStep DEF EndSession, IInv, TypeOK
<1>4. ASSUME NEW k \in Sessions, CleanupStale(k) PROVE IInv'
  <2>1. {s \in Pending : s <= k} \in SUBSET Sessions
    BY DEF Pending
  <2> QED
    BY <1>4, <2>1, ClosingStep DEF CleanupStale, IInv, TypeOK
<1>5. CASE Revoke
  <2>1. Open \in SUBSET Sessions
    BY DEF Open
  <2> QED
    BY <1>5, <2>1, ClosingStep DEF Revoke
<1>6. ASSUME NEW c \in late, AcceptLate(c) \/ ApplyLate(c) PROVE IInv'
  BY <1>6, AcceptLateStep, ApplyLateStep
<1>7. CASE Agent
  BY <1>7, PollStep, ConsentStep, AcceptStep, ApplyStep, AnsweredStep DEF Agent
<1>8. CASE Reenroll \/ GatewayRestart \/ GiveUp \/ AgentRestart
  BY <1>8, ReenrollStep, GatewayRestartStep, GiveUpStep, AgentRestartStep
<1>9. CASE UNCHANGED vars
  BY <1>9 DEF vars, IInv, TypeOK, ActiveIsConsented, CallsFollow, Follows, Granted, CallHeld,
              ClearIsClear, Open
<1> QED
  BY <1>1, <1>2, <1>3, <1>4, <1>5, <1>6, <1>7, <1>8, <1>9 DEF Next

(* The inductive invariant the theorems below follow from: types, and what a  *)
(* call in flight has read that no other call can undo.                       *)
THEOREM Invariant == Spec => []IInv
BY InitIInv, Inductive, PTL DEF Spec

(* Types of the rows and of the calls in flight. *)
THEOREM TypeCorrect == Spec => []TypeOK
BY Invariant, PTL DEF IInv

(* remote-support.service.ts:119: an active session was consented to and     *)
(* started, in whatever order calls, late calls, cleanups and endings come.  *)
THEOREM OnlyConsentedIsActive == Spec => []ActiveIsConsented
BY Invariant, PTL DEF IInv

-----------------------------------------------------------------------------
(* One open session *)

LEMMA OpensStep == IInv /\ [Next]_vars => [SecondOpening]_vars
<1> SUFFICES ASSUME IInv, Next, NEW s \in Open' \ Open, Open # {}
             PROVE  \/ \E o \in Openers : opening[o] = "raced" /\ opening'[o] = "idle"
                    \/ s \in Held
  BY DEF SecondOpening
<1>0. /\ s \in Sessions /\ session'[s].status \in {"pending", "active"}
      /\ session[s].status \notin {"pending", "active"}
  BY DEF Open
<1>1. ASSUME NEW o \in Openers, Create(o)
      PROVE  opening[o] = "raced" /\ opening'[o] = "idle"
  BY <1>1 DEF Create, IInv, TypeOK, ClearIsClear
<1>2. ASSUME NEW S \in SUBSET Sessions, NEW v \in {"ended", "expired"}, session' = WithStatus(S, v)
      PROVE  FALSE
  <2>1. v \in Statuses
    BY DEF Statuses
  <2>2. (\A t \in S : session'[t].status = v) /\ \A t \in Sessions \ S : session'[t] = session[t]
    BY <1>2, <2>1, WithStatusTyped DEF IInv
  <2> QED
    BY <1>0, <2>2
<1>3. ASSUME NEW k \in Sessions, EndSession(k) \/ CleanupStale(k) PROVE FALSE
  <2>1. {t \in Pending : t <= k} \in SUBSET Sessions
    BY DEF Pending
  <2> QED
    BY <1>2, <1>3, <2>1 DEF EndSession, CleanupStale
<1>4. CASE Revoke
  <2>1. Open \in SUBSET Sessions
    BY DEF Open
  <2> QED
    BY <1>2, <1>4, <2>1 DEF Revoke
<1>5. ASSUME NEW c \in CallType, session' = Written(c) PROVE s = c.s
  BY <1>0, <1>5, WrittenTyped DEF IInv
<1>6. CASE Apply
  <2>1. call \in CallType /\ call # None /\ session' = Written(call)
    BY <1>6 DEF Apply, IInv, TypeOK
  <2>2. s = call.s
    BY <1>5, <2>1
  <2> QED
    BY <2>1, <2>2 DEF Held, IInv, CallHeld
<1>7. ASSUME NEW c \in late, ApplyLate(c) PROVE s \in Held
  <2>1. c \in CallType /\ session' = Written(c)
    BY <1>7 DEF ApplyLate, IInv, TypeOK
  <2> QED
    BY <1>5, <2>1 DEF Held
<1>8. CASE session' = session
  BY <1>0, <1>8
<1> QED
  BY <1>1, <1>3, <1>4, <1>6, <1>7, <1>8
     DEF Next, Agent, FindOpen, AcceptLate, Poll, Consent, Accept, Answered, Reenroll,
         GatewayRestart, GiveUp, AgentRestart

(* remote-support.service.ts:37: a second session of the device opens only   *)
(* when a request that had found none was outrun, or by an agent's report on *)
(* a session it took earlier.                                                *)
THEOREM OneOpenButForRaces == Spec => SecondOpensOnlyByRace
<1>1. IInv /\ [Next]_vars => [SecondOpening]_vars
  BY OpensStep
<1> QED
  BY <1>1, Invariant, PTL DEF Spec, SecondOpensOnlyByRace

-----------------------------------------------------------------------------
(* The refinement: each step is a step of DeviceCommands or a stutter.  Its *)
(* phase is that of the session's status, its held is Held.                *)

LEMMA PhaseOf ==
  /\ Phase("none") = "none" /\ Phase("pending") = "asked" /\ Phase("active") = "working"
  /\ \A v \in {"failed", "ended", "expired"} : Phase(v) = "closed"
BY DEF Phase

Phases == [s \in Sessions |-> Phase(session[s].status)]
OrdersStep == Orders!Next \/ UNCHANGED Orders!vars

LEMMA HeldTyped == ASSUME IInv PROVE Held \subseteq Sessions
BY DEF IInv, TypeOK, Held, CallType

(* No session changes, and nobody takes one: they let go, or do nothing. *)
LEMMA LetsGo ==
  ASSUME IInv, session' = session, Held' \subseteq Held
  PROVE  OrdersStep
<1> DEFINE C == Held \ Held'
<1>1. C \in SUBSET Sessions /\ Held' = Held \ C
  BY HeldTyped
<1>2. Orders!Drop(C)
  BY <1>1 DEF Orders!Drop
<1> QED
  BY <1>1, <1>2 DEF OrdersStep, Orders!Next

(* An update closes sessions that existed. *)
LEMMA Closes ==
  ASSUME IInv, NEW S \in SUBSET Sessions, NEW v \in {"ended", "expired"},
         session' = WithStatus(S, v), \A s \in S : session[s].status # "none", Held' = Held
  PROVE  OrdersStep
<1>1. v \in Statuses
  BY DEF Statuses
<1>2. /\ \A s \in S : session'[s].status = v
      /\ \A s \in Sessions \ S : session'[s] = session[s]
  BY <1>1, WithStatusTyped DEF IInv
<1>3. \A s \in Sessions : Phases[s] = Phase(session[s].status) /\ Phases'[s] = Phase(session'[s].status)
  BY DEF Phases
<1>4. \A s \in S : Phases[s] # "none"
  BY <1>3, PhaseOf DEF Phase, IInv, TypeOK, Statuses
<1>5. Phases' = [s \in Sessions |-> IF s \in S THEN "closed" ELSE Phases[s]]
  BY <1>2, <1>3, PhaseOf DEF Phases
<1>6. Orders!Close(S)
  BY <1>4, <1>5 DEF Orders!Close, Phases
<1> QED
  BY <1>6 DEF OrdersStep, Orders!Next

(* The agent's report, even a late one, is about a session it has in hand. *)
LEMMA Reports ==
  ASSUME IInv, NEW c \in CallType, session' = Written(c), c.s \in Held,
         Held' = Held \/ Held' = Held \ {c.s}
  PROVE  OrdersStep
<1>1. c.s \in Sessions /\ c.op \in Ops
  BY DEF CallType
<1>2. /\ session'[c.s].status = IF c.op = "grant" THEN "active" ELSE c.op
      /\ \A s \in Sessions \ {c.s} : session'[s] = session[s]
  BY WrittenTyped DEF IInv
<1> DEFINE p == IF c.op = "failed" THEN "closed" ELSE "working"
<1>3. Phase(session'[c.s].status) = p
  BY <1>1, <1>2, PhaseOf DEF Ops
<1>4. Phases' = [Phases EXCEPT ![c.s] = p]
  BY <1>1, <1>2, <1>3 DEF Phases
<1>5. Orders!Report(c.s)
  BY <1>4 DEF Orders!Report, Phases
<1> QED
  BY <1>1, <1>5 DEF OrdersStep, Orders!Next

LEMMA InitImplements == Init => Orders!Init
BY PhaseOf DEF Init, Orders!Init, Held

LEMMA CreateImplements ==
  ASSUME IInv, NEW o \in Openers, Create(o) PROVE OrdersStep
<1> PICK s \in Sessions : session[s].status = "none" /\ session' = WithStatus({s}, "pending")
  BY DEF Create
<1>1. {s} \in SUBSET Sessions /\ "pending" \in Statuses
  BY DEF Statuses
<1>2. /\ session'[s].status = "pending"
      /\ \A t \in Sessions \ {s} : session'[t] = session[t]
  BY <1>1, WithStatusTyped DEF IInv
<1>3. Phases[s] = "none" /\ Phases' = [Phases EXCEPT ![s] = "asked"]
  BY <1>2, PhaseOf DEF Phases
<1>4. Held' = Held
  BY DEF Create, Held
<1>5. Orders!Ask(s)
  BY <1>3, <1>4 DEF Orders!Ask, Phases
<1> QED
  BY <1>5 DEF OrdersStep, Orders!Next

LEMMA PollImplements == ASSUME IInv, Poll PROVE OrdersStep
<1>1. Listed \in SUBSET Sessions /\ \A s \in Listed : session[s].status = "pending"
  BY DEF Listed, Pending
<1>2. \A s \in Listed : Phases[s] = "asked"
  BY <1>1, PhaseOf DEF Phases
<1>3. Held' = Held \cup Listed /\ Phases' = Phases
  BY DEF Poll, Held, Phases
<1>4. Orders!Take(Listed)
  BY <1>2, <1>3 DEF Orders!Take, Phases
<1> QED
  BY <1>1, <1>4 DEF OrdersStep, Orders!Next

LEMMA GiveUpImplements == ASSUME IInv, GiveUp \/ AgentRestart \/ Answered PROVE OrdersStep
<1>1. session' = session /\ late' \subseteq late \cup InFlight /\ todo' \subseteq todo
  BY ProceedTyped DEF GiveUp, AgentRestart, Answered
<1>2. \A c \in InFlight : c.s \in todo
  BY DEF InFlight, IInv, CallHeld
<1>3. Held' \subseteq Held
  BY <1>1, <1>2 DEF Held
<1> QED
  BY <1>1, <1>3, LetsGo

LEMMA StepImplements == IInv /\ [Next]_vars => [Orders!Next]_(Orders!vars)
<1> SUFFICES ASSUME IInv, [Next]_vars PROVE OrdersStep
  BY DEF OrdersStep
<1>1. ASSUME NEW o \in Openers, FindOpen(o) PROVE OrdersStep
  BY <1>1, LetsGo DEF FindOpen, Held
<1>2. ASSUME NEW o \in Openers, Create(o) PROVE OrdersStep
  BY <1>2, CreateImplements
<1>3. ASSUME NEW s \in Sessions, EndSession(s) PROVE OrdersStep
  <2>1. {s} \in SUBSET Sessions /\ Held' = Held
    BY <1>3 DEF EndSession, Held
  <2> QED
    BY <1>3, <2>1, Closes DEF EndSession
<1>4. ASSUME NEW k \in Sessions, CleanupStale(k) PROVE OrdersStep
  <2> DEFINE S == {s \in Pending : s <= k}
  <2>1. S \in SUBSET Sessions /\ Held' = Held /\ \A s \in S : session[s].status = "pending"
    BY <1>4 DEF CleanupStale, Held, Pending
  <2> QED
    BY <1>4, <2>1, Closes DEF CleanupStale
<1>5. CASE Revoke
  <2>1. /\ Open \in SUBSET Sessions /\ Held' = Held
        /\ \A s \in Open : session[s].status # "none"
    BY <1>5 DEF Revoke, Held, Open
  <2> QED
    BY <1>5, <2>1, Closes DEF Revoke
<1>6. ASSUME NEW c \in late, AcceptLate(c) PROVE OrdersStep
  <2>1. c \in CallType
    BY DEF IInv, TypeOK
  <2>2. [c EXCEPT !.stage = "read"].s = c.s
    BY <2>1 DEF CallType
  <2>3. Held' \subseteq Held
    BY <1>6, <2>2 DEF AcceptLate, Held
  <2> QED
    BY <1>6, <2>3, LetsGo DEF AcceptLate
<1>7. ASSUME NEW c \in late, ApplyLate(c) PROVE OrdersStep
  <2>1. c \in CallType /\ c.s \in Held /\ session' = Written(c)
    BY <1>7 DEF ApplyLate, IInv, TypeOK, Held
  <2>2. Held' = Held \/ Held' = Held \ {c.s}
    BY <1>7 DEF ApplyLate, Held
  <2> QED
    BY <2>1, <2>2, Reports
<1>8. CASE Apply
  <2>1. call \in CallType /\ call.s \in Held /\ session' = Written(call) /\ Held' = Held
    BY <1>8 DEF Apply, IInv, TypeOK, Held, CallHeld
  <2> QED
    BY <2>1, Reports
<1>9. CASE Accept \/ (\E s \in Sessions : Consent(s)) \/ Reenroll \/ GatewayRestart
  <2>1. session' = session /\ Held' \subseteq Held
    BY <1>9 DEF Accept, Consent, Reenroll, GatewayRestart, Held
  <2> QED
    BY <2>1, LetsGo
<1>10. CASE Poll \/ Answered \/ GiveUp \/ AgentRestart
  BY <1>10, PollImplements, GiveUpImplements
<1>11. CASE UNCHANGED vars
  <2>1. session' = session /\ Held' = Held
    BY <1>11 DEF vars, Held
  <2> QED
    BY <2>1, LetsGo
<1> QED
  BY <1>1, <1>2, <1>3, <1>4, <1>5, <1>6, <1>7, <1>8, <1>9, <1>10, <1>11 DEF Next, Agent

(* Whatever the calls, time-outs and restarts, a closed session is active    *)
(* again only through an agent that had it in hand: RemoteSupport implements *)
(* DeviceCommands.                                                           *)
THEOREM Implements == Spec => ImplementsCommands
<1>1. Init => Orders!Init
  BY InitImplements
<1>2. IInv /\ [Next]_vars => [Orders!Next]_(Orders!vars)
  BY StepImplements
<1> QED
  BY <1>1, <1>2, Invariant, PTL DEF Spec, ImplementsCommands, Orders!Spec

-----------------------------------------------------------------------------
(* Backup runs.  What follows is about B!Spec alone, and names it shares with *)
(* the module above are parameters of it like the others.                     *)

CONSTANTS Runs, Requests, Jobs, Slots, Attempts, MaxArchives,
  MaxCommands
VARIABLES request, job, slot, made, commands, lost, once

B == INSTANCE BackupRuns

(* The conjuncts of TypeOK, by component. *)
RowType == [status : B!Statuses, file : BOOLEAN, archive : 0..MaxArchives,
            verdict : {"none", "verified", "failed"}]
AskType == [kind : B!Kinds, r : Runs, path : 0..MaxArchives]
JobType == [kind : B!Kinds, r : Runs, path : 0..MaxArchives, left : 1..Attempts,
            active : BOOLEAN, stalled : BOOLEAN]
WorkType == [pc : {"read", "start", "write"}, kind : B!Kinds, r : Runs, path : 0..MaxArchives,
             j : Jobs \cup {None}, archive : 0..MaxArchives, outrun : BOOLEAN]

(* None is not a job. *)
Bounds == MaxArchives \in Nat /\ Attempts \in Nat \ {0} /\ None \notin JobType

RowsTyped == run \in [Runs -> RowType]
AsksTyped == request \in [Requests -> AskType \cup {None}]
JobsTyped == job \in [Jobs -> JobType \cup {None}]
SlotsTyped == slot \in [Slots -> WorkType \cup {None}]
CountsTyped == made \in 0..MaxArchives /\ commands \in Nat /\ faults \in Nat
PastTyped ==
  /\ passed \in SUBSET (1..MaxArchives) /\ lost \in SUBSET Runs
  /\ once \in SUBSET Runs /\ undone \in SUBSET Runs

(* Restores and verifications are of runs that were completed, and a           *)
(* verification is of an archive.                                              *)
Asked(o) == (o.kind # "execute" => o.r \in once) /\ (o.kind = "verify" => o.path # 0)
AsksRight == \A q \in Requests : request[q] # None => Asked(request[q])
JobsRight == \A j \in Jobs : job[j] # None => Asked(job[j])
SlotsRight ==
  \A w \in Slots : slot[w] # None =>
    Asked(slot[w]) /\ (slot[w].pc = "start" => slot[w].kind # "verify")

(* A completed run was completed by an execution; unless another wrote it      *)
(* since, its row holds an archive that passed, and so do the restores and     *)
(* verifications that read it.                                                 *)
RowRight(r) ==
  /\ B!Status(r) = "completed" => r \in once
  /\ r \in once \ undone /\ B!Status(r) # "gone" => run[r].archive \in passed
  /\ run[r].verdict = "verified" /\ run[r].archive # 0 => run[r].archive \in passed
RowsRight == \A r \in Runs : RowRight(r)
ArchiveRead ==
  \A w \in Slots :
    slot[w] # None /\ slot[w].kind # "execute" /\ slot[w].pc # "read" /\ slot[w].r \notin undone =>
      slot[w].archive \in passed

(* An execution that goes on although its run is completed was outrun.         *)
OutrunKnown ==
  \A w \in Slots :
    slot[w] # None /\ slot[w].kind = "execute" /\ slot[w].pc # "read" /\ B!Status(slot[w].r) = "completed" =>
      slot[w].outrun

(* The job of a slot is in the queue and active, and no other slot has it.      *)
Owned ==
  \A w \in Slots : slot[w] # None /\ slot[w].j # None =>
    /\ job[slot[w].j] # None /\ job[slot[w].j].active
    /\ \A v \in Slots : slot[v] # None /\ slot[v].j = slot[w].j => v = w

Typed == RowsTyped /\ AsksTyped /\ JobsTyped /\ SlotsTyped /\ CountsTyped /\ PastTyped
BackupInv == Typed /\ AsksRight /\ JobsRight /\ SlotsRight /\ RowsRight /\ ArchiveRead /\ OutrunKnown /\ Owned

LEMMA TypedIsTypeOK == B!TypeOK <=> Typed
BY DEF B!TypeOK, Typed, RowsTyped, AsksTyped, JobsTyped, SlotsTyped, CountsTyped, PastTyped,
   RowType, AskType, JobType, WorkType

LEMMA BackupInitially == ASSUME Bounds PROVE B!Init => BackupInv
<1> SUFFICES ASSUME B!Init PROVE BackupInv
  OBVIOUS
<1>0. 0 \in 0..MaxArchives
  BY DEF Bounds
<1>1. RowsTyped
  BY <1>0 DEF B!Init, RowsTyped, RowType, B!Statuses
<1>2. AsksTyped /\ JobsTyped /\ SlotsTyped
  BY DEF B!Init, AsksTyped, JobsTyped, SlotsTyped
<1>3. CountsTyped
  BY <1>0 DEF B!Init, CountsTyped
<1>4. PastTyped
  BY DEF B!Init, PastTyped
<1>5. AsksRight /\ JobsRight /\ SlotsRight /\ ArchiveRead /\ OutrunKnown /\ Owned
  BY DEF B!Init, AsksRight, JobsRight, SlotsRight, ArchiveRead, OutrunKnown, Owned
<1>6. \A r \in Runs : B!Status(r) = "none" /\ run[r].verdict = "none"
  BY DEF B!Init, B!Status
<1>7. RowsRight
  BY <1>6 DEF B!Init, RowsRight, RowRight
<1> QED
  BY <1>1, <1>2, <1>3, <1>4, <1>5, <1>7 DEF BackupInv, Typed

-----------------------------------------------------------------------------
(* What steps keep *)

(* The histories only grow. *)
Grown == once \subseteq once' /\ passed \subseteq passed' /\ undone \subseteq undone'

(* A job that stays is about what it was about. *)
JobStays(j) ==
  job'[j] # None =>
    job[j] # None /\ job'[j].kind = job[j].kind /\ job'[j].r = job[j].r /\ job'[j].path = job[j].path
JobsStay == JobsTyped' /\ \A j \in Jobs : JobStays(j)

(* A slot goes on with what it does, or ends. *)
GoesOn(v) ==
  slot'[v] # None =>
    /\ slot[v] # None /\ slot'[v].kind = slot[v].kind
    /\ slot'[v].pc = slot[v].pc \/ (slot[v].pc = "start" /\ slot'[v].pc = "write")
    /\ slot'[v].r = slot[v].r /\ slot'[v].path = slot[v].path /\ slot'[v].archive = slot[v].archive
    /\ slot[v].outrun => slot'[v].outrun

(* A slot that goes on keeps its job, or loses it.                              *)
Holds(v) == slot'[v] # None => slot[v] # None /\ slot'[v].j \in {slot[v].j, None}

LEMMA OwnedKept ==
  ASSUME BackupInv, \A v \in Slots : Holds(v),
         \A v \in Slots : slot'[v] # None /\ slot'[v].j # None => job'[slot[v].j] = job[slot[v].j]
  PROVE  Owned'
<1> SUFFICES ASSUME NEW w \in Slots, slot'[w] # None, slot'[w].j # None
             PROVE  /\ job'[slot'[w].j] # None /\ job'[slot'[w].j].active
                    /\ \A v \in Slots : slot'[v] # None /\ slot'[v].j = slot'[w].j => v = w
  BY DEF Owned
<1>1. slot[w] # None /\ slot'[w].j = slot[w].j /\ job'[slot[w].j] = job[slot[w].j]
  BY DEF Holds
<1>2. \A v \in Slots : slot'[v] # None /\ slot'[v].j = slot'[w].j => slot[v] # None /\ slot[v].j = slot[w].j
  BY <1>1 DEF Holds
<1> QED
  BY <1>1, <1>2 DEF BackupInv, Owned

LEMMA OwnedSame ==
  ASSUME BackupInv, UNCHANGED job, \A v \in Slots : Holds(v)
  PROVE  Owned'
BY OwnedKept

(* Slot w ends, and nothing happens to another one's job.                       *)
LEMMA OwnedLeft ==
  ASSUME BackupInv, NEW w \in Slots, slot'[w] = None, \A v \in Slots : Holds(v),
         \A j \in Jobs : j # slot[w].j => job'[j] = job[j]
  PROVE  slot[w] # None => Owned'
<1> SUFFICES ASSUME slot[w] # None PROVE Owned'
  OBVIOUS
<1> SUFFICES ASSUME NEW v \in Slots, slot'[v] # None, slot'[v].j # None
             PROVE  job'[slot[v].j] = job[slot[v].j]
  BY OwnedKept
<1>1. slot[v] # None /\ slot[v].j # None /\ v # w
  BY DEF Holds
<1>2. slot[v].j # slot[w].j
  BY <1>1 DEF BackupInv, Owned
<1>3. slot[v].j \in Jobs
  BY <1>1 DEF BackupInv, Typed, SlotsTyped, WorkType
<1> QED
  BY <1>2, <1>3

LEMMA AsksKept == ASSUME BackupInv, UNCHANGED request, Grown PROVE AsksTyped' /\ AsksRight'
BY DEF BackupInv, Typed, AsksTyped, AsksRight, Asked, Grown

LEMMA JobsKept == ASSUME BackupInv, JobsStay, Grown PROVE JobsTyped' /\ JobsRight'
BY DEF BackupInv, JobsRight, JobsStay, JobStays, Asked, Grown

LEMMA JobsSame == ASSUME BackupInv, UNCHANGED job PROVE JobsStay
BY DEF BackupInv, Typed, JobsTyped, JobsStay, JobStays

LEMMA RowKept ==
  ASSUME BackupInv, NEW r \in Runs, run'[r] = run[r], Grown, r \in once' => r \in once
  PROVE  RowRight(r)'
BY DEF BackupInv, RowsRight, RowRight, B!Status, Grown

LEMMA RowsKept ==
  ASSUME BackupInv, UNCHANGED <<run, once, undone>>, passed \subseteq passed'
  PROVE  RowsTyped' /\ RowsRight'
<1>1. RowsTyped'
  BY DEF BackupInv, Typed, RowsTyped
<1> QED
  BY <1>1, RowKept DEF RowsRight, Grown

LEMMA SlotKept ==
  ASSUME BackupInv, NEW v \in Slots, GoesOn(v), Grown
  PROVE  /\ slot'[v] # None => Asked(slot[v])' /\ (slot'[v].pc = "start" => slot'[v].kind # "verify")
         /\ slot'[v] # None /\ slot'[v].kind # "execute" /\ slot'[v].pc # "read" /\ slot'[v].r \notin undone' =>
              slot'[v].archive \in passed'
BY DEF BackupInv, SlotsRight, ArchiveRead, GoesOn, Asked, Grown

LEMMA SlotsKept ==
  ASSUME BackupInv, \A v \in Slots : GoesOn(v), Grown
  PROVE  SlotsRight' /\ ArchiveRead'
BY SlotKept DEF SlotsRight, ArchiveRead

LEMMA OutrunKept ==
  ASSUME BackupInv, \A v \in Slots : GoesOn(v),
         \A r \in Runs : B!Status(r)' = "completed" => B!Status(r) = "completed"
  PROVE  OutrunKnown'
<1> SUFFICES ASSUME NEW v \in Slots, slot'[v] # None, slot'[v].kind = "execute", slot'[v].pc # "read",
                    B!Status(slot[v].r)' = "completed"
             PROVE  slot'[v].outrun
  BY DEF OutrunKnown, B!Status
<1>1. /\ slot[v] # None /\ slot[v].kind = "execute" /\ slot[v].pc # "read" /\ slot'[v].r = slot[v].r
      /\ slot[v].outrun => slot'[v].outrun
  BY DEF GoesOn
<1>2. slot[v].r \in Runs
  BY <1>1 DEF BackupInv, Typed, SlotsTyped, WorkType
<1> QED
  BY <1>1, <1>2 DEF BackupInv, OutrunKnown

(* A slot leaves its work. *)
LEMMA Freed ==
  ASSUME BackupInv, NEW w \in Slots, slot' = [slot EXCEPT ![w] = None]
  PROVE  SlotsTyped' /\ \A v \in Slots : GoesOn(v)
BY DEF BackupInv, Typed, SlotsTyped, GoesOn

LEMMA DropsJob ==
  ASSUME BackupInv, NEW j, job' = [job EXCEPT ![j] = None]
  PROVE  JobsStay
BY DEF BackupInv, Typed, JobsTyped, JobsStay, JobStays

LEMMA LeavesJob ==
  ASSUME BackupInv, NEW w \in Slots,
         job' = IF slot[w].j = None THEN job ELSE [job EXCEPT ![slot[w].j] = None]
  PROVE  JobsStay
BY JobsSame, DropsJob

-----------------------------------------------------------------------------
(* Users *)

(* A step that changes neither slots nor histories. *)
LEMMA FrontStep ==
  ASSUME BackupInv, RowsTyped', AsksTyped', JobsTyped', CountsTyped', PastTyped',
         AsksRight', JobsRight', RowsRight', UNCHANGED <<slot, passed, once, undone>>,
         \A j \in Jobs : job[j] # None => job'[j] = job[j],
         \A r \in Runs : B!Status(r)' = "completed" => B!Status(r) = "completed"
  PROVE  BackupInv'
<1>1. Grown /\ \A v \in Slots : GoesOn(v)
  BY DEF Grown, GoesOn
<1>2. SlotsTyped'
  BY DEF BackupInv, Typed, SlotsTyped
<1>3. \A v \in Slots : slot[v] # None /\ slot[v].j # None => slot[v].j \in Jobs /\ job[slot[v].j] # None
  BY DEF BackupInv, Typed, SlotsTyped, WorkType, Owned
<1>4. Owned'
  BY <1>3, OwnedKept DEF Holds
<1> QED
  BY <1>1, <1>2, <1>4, SlotsKept, OutrunKept DEF BackupInv, Typed

LEMMA TriggerAct == ASSUME Bounds, BackupInv, NEW q \in Requests, B!Trigger(q) PROVE BackupInv'
<1>1. PICK r \in Runs, file \in BOOLEAN :
        /\ B!Status(r) = "none"
        /\ run' = [run EXCEPT ![r].status = "pending", ![r].file = file]
        /\ request' = [request EXCEPT ![q] = [kind |-> "execute", r |-> r, path |-> 0]]
  BY DEF B!Trigger
<1>2. UNCHANGED <<job, slot, made, commands, faults, passed, lost, once, undone>>
  BY DEF B!Trigger
<1>3. run \in [Runs -> RowType] /\ request \in [Requests -> AskType \cup {None}]
  BY DEF BackupInv, Typed, RowsTyped, AsksTyped
<1>4. /\ RowsTyped' /\ run'[r].status = "pending" /\ \A s \in Runs \ {r} : run'[s] = run[s]
      /\ run'[r].archive = run[r].archive /\ run'[r].verdict = run[r].verdict
  BY <1>1, <1>3 DEF RowsTyped, RowType, B!Statuses
<1> DEFINE ask == [kind |-> "execute", r |-> r, path |-> 0]
<1>5. 0 \in 0..MaxArchives
  BY DEF Bounds
<1>6. ask \in AskType /\ Asked(ask) /\ Asked(ask)'
  BY <1>5 DEF AskType, B!Kinds, Asked
<1> HIDE DEF ask
<1>7. request' = [request EXCEPT ![q] = ask]
  BY <1>1 DEF ask
<1>8. AsksTyped' /\ AsksRight'
  <2>1. Grown
    BY <1>2 DEF Grown
  <2> QED
    BY <1>2, <1>3, <1>6, <1>7 DEF BackupInv, AsksTyped, AsksRight, Asked
<1>9. RowsRight'
  <2>1. RowRight(r)'
    BY <1>1, <1>2, <1>4 DEF BackupInv, RowsRight, RowRight, B!Status
  <2>2. \A s \in Runs \ {r} : RowRight(s)'
    BY <1>2, <1>4, RowKept DEF Grown
  <2> QED
    BY <2>1, <2>2 DEF RowsRight
<1>10. JobsTyped' /\ JobsRight'
  BY <1>2, JobsSame, JobsKept DEF Grown
<1>11. CountsTyped' /\ PastTyped'
  BY <1>2 DEF BackupInv, Typed, CountsTyped, PastTyped
<1>12. \A s \in Runs : B!Status(s)' = "completed" => B!Status(s) = "completed"
  BY <1>4 DEF B!Status
<1> QED
  BY <1>2, <1>4, <1>8, <1>9, <1>10, <1>11, <1>12, FrontStep

LEMMA OrderAct ==
  ASSUME Bounds, BackupInv, NEW q \in Requests, NEW r \in Runs, NEW kind \in {"restore",
     "verify"}, B!Order(q, r, kind)
  PROVE  BackupInv'
<1> DEFINE ask == [kind |-> kind, r |-> r, path |-> IF kind = "verify" THEN run[r].archive ELSE 0]
<1>1. request' = [request EXCEPT ![q] = ask]
  BY DEF B!Order
<1>2. UNCHANGED <<run, job, slot, made, faults, passed, lost, once, undone>> /\ commands' = commands + 1
  BY DEF B!Order
<1>3. request \in [Requests -> AskType \cup {None}]
  BY DEF BackupInv, Typed, AsksTyped
<1>4. ask \in AskType
  <2>1. run[r].archive \in 0..MaxArchives /\ 0 \in 0..MaxArchives
    BY DEF Bounds, BackupInv, Typed, RowsTyped, RowType
  <2> QED
    BY <2>1 DEF AskType, B!Kinds
<1>5. Asked(ask) /\ ask.r \in once /\ (ask.kind = "verify" => ask.path # 0)
  BY DEF B!Order, BackupInv, RowsRight, RowRight, Asked
<1> HIDE DEF ask
<1>6. AsksTyped' /\ AsksRight'
  BY <1>1, <1>2, <1>3, <1>4, <1>5 DEF BackupInv, AsksTyped, AsksRight, Asked
<1>7. JobsTyped' /\ JobsRight' /\ RowsTyped' /\ RowsRight'
  BY <1>2, JobsSame, JobsKept, RowsKept DEF Grown
<1>8. CountsTyped' /\ PastTyped'
  BY <1>2 DEF BackupInv, Typed, CountsTyped, PastTyped
<1> QED
  BY <1>2, <1>6, <1>7, <1>8, FrontStep DEF B!Status

LEMMA EnqueueAct == ASSUME Bounds, BackupInv, NEW q \in Requests, B!Enqueue(q) PROVE BackupInv'
<1>1. PICK j \in Jobs :
        job[j] = None /\ job' = [job EXCEPT ![j] = [kind |-> request[q].kind, r |-> request[q].r, path |-> request[q].path,
                                   left |-> Attempts, active |-> FALSE, stalled |-> FALSE]]
  BY DEF B!Enqueue
<1>2. /\ UNCHANGED <<run, slot, made, commands, faults, passed, lost, once, undone>>
      /\ request[q] # None /\ request' = [request EXCEPT ![q] = None]
  BY DEF B!Enqueue
<1>3. request[q] \in AskType /\ Asked(request[q])
  BY <1>2 DEF BackupInv, Typed, AsksTyped, AsksRight
<1> DEFINE next == [kind |-> request[q].kind, r |-> request[q].r, path |-> request[q].path,
                    left |-> Attempts, active |-> FALSE, stalled |-> FALSE]
<1>4. next \in JobType
  <2>1. Attempts \in 1..Attempts
    BY DEF Bounds
  <2> QED
    BY <1>3, <2>1 DEF AskType, JobType
<1>5. Asked(next) /\ next.kind = request[q].kind /\ next.r = request[q].r /\ next.path = request[q].path
  BY <1>3 DEF Asked
<1> HIDE DEF next
<1>6. job' = [job EXCEPT ![j] = next]
  BY <1>1 DEF next
<1>7. JobsTyped' /\ JobsRight'
  BY <1>2, <1>4, <1>5, <1>6 DEF BackupInv, Typed, JobsTyped, JobsRight, Asked
<1>8. AsksTyped' /\ AsksRight'
  BY <1>2 DEF BackupInv, Typed, AsksTyped, AsksRight, Asked
<1>9. CountsTyped' /\ PastTyped' /\ RowsTyped' /\ RowsRight'
  BY <1>2, RowsKept DEF BackupInv, Typed, CountsTyped, PastTyped
<1>10. \A i \in Jobs : job[i] # None => job'[i] = job[i]
  BY <1>1, <1>6 DEF BackupInv, Typed, JobsTyped
<1> QED
  BY <1>2, <1>7, <1>8, <1>9, <1>10, FrontStep DEF B!Status

LEMMA EnqueueFailsAct == ASSUME Bounds, BackupInv, NEW q \in Requests, B!EnqueueFails(q) PROVE BackupInv'
<1>1. /\ UNCHANGED <<run, job, slot, made, commands, passed, once, undone>>
      /\ request[q] # None /\ request' = [request EXCEPT ![q] = None]
  BY DEF B!EnqueueFails
<1>2. AsksTyped' /\ AsksRight'
  BY <1>1 DEF BackupInv, Typed, AsksTyped, AsksRight, Asked
<1>3. PastTyped'
  BY <1>1 DEF B!EnqueueFails, BackupInv, Typed, AsksTyped, AskType, PastTyped
<1>4. CountsTyped'
  BY <1>1 DEF B!EnqueueFails, B!Fault, BackupInv, Typed, CountsTyped
<1>5. JobsTyped' /\ JobsRight' /\ RowsTyped' /\ RowsRight'
  BY <1>1, JobsSame, JobsKept, RowsKept DEF Grown
<1> QED
  BY <1>1, <1>2, <1>3, <1>4, <1>5, FrontStep DEF B!Status

LEMMA DeleteAct == ASSUME Bounds, BackupInv, NEW r \in Runs, B!Delete(r) PROVE BackupInv'
<1>1. UNCHANGED <<request, job, slot, made, commands, faults, passed, lost, once, undone>>
  BY DEF B!Delete
<1> DEFINE row == [status |-> "gone", file |-> FALSE, archive |-> 0, verdict |-> "none"]
<1>2. 0 \in 0..MaxArchives
  BY DEF Bounds
<1>3. row \in RowType /\ row.status = "gone" /\ row.verdict = "none"
  BY <1>2 DEF RowType, B!Statuses
<1> HIDE DEF row
<1>4. run' = [run EXCEPT ![r] = row]
  BY DEF B!Delete, row
<1>5. RowsTyped' /\ run'[r] = row /\ \A s \in Runs \ {r} : run'[s] = run[s]
  BY <1>3, <1>4 DEF BackupInv, Typed, RowsTyped
<1>6. RowsRight'
  <2>1. RowRight(r)'
    BY <1>3, <1>5 DEF RowRight, B!Status
  <2>2. \A s \in Runs \ {r} : RowRight(s)'
    BY <1>1, <1>5, RowKept DEF Grown
  <2> QED
    BY <2>1, <2>2 DEF RowsRight
<1>7. AsksTyped' /\ AsksRight' /\ JobsTyped' /\ JobsRight'
  BY <1>1, AsksKept, JobsSame, JobsKept DEF Grown
<1>8. CountsTyped' /\ PastTyped'
  BY <1>1 DEF BackupInv, Typed, CountsTyped, PastTyped
<1>9. \A s \in Runs : B!Status(s)' = "completed" => B!Status(s) = "completed"
  BY <1>3, <1>5 DEF B!Status
<1> QED
  BY <1>1, <1>5, <1>6, <1>7, <1>8, <1>9, FrontStep

-----------------------------------------------------------------------------
(* The slots *)

LEMMA BackStep ==
  ASSUME BackupInv, RowsTyped', RowsRight', UNCHANGED request, JobsStay, SlotsTyped',
     CountsTyped', PastTyped',
         Grown, SlotsRight', ArchiveRead', OutrunKnown', Owned'
  PROVE  BackupInv'
BY AsksKept, JobsKept DEF BackupInv, Typed

(* What is left of the job of slot w does not matter. *)
Leaves(w) == JobsStay /\ \A j \in Jobs : j # slot[w].j => job'[j] = job[j]

LEMMA LeaveStep ==
  ASSUME BackupInv, NEW w \in Slots, slot[w] # None, slot' = [slot EXCEPT ![w] = None],
     RowsTyped', RowsRight',
         UNCHANGED request, Leaves(w), CountsTyped', PastTyped', Grown,
         \A r \in Runs : B!Status(r)' = "completed" => B!Status(r) = "completed"
  PROVE  BackupInv'
<1>1. slot'[w] = None /\ \A v \in Slots : Holds(v)
  BY DEF BackupInv, Typed, SlotsTyped, Holds
<1>2. Owned' /\ JobsStay
  BY <1>1, OwnedLeft DEF Leaves
<1> QED
  BY <1>2, Freed, SlotsKept, OutrunKept, BackStep

LEMMA DropsOwn ==
  ASSUME BackupInv, NEW w \in Slots,
         job' = IF slot[w].j = None THEN job ELSE [job EXCEPT ![slot[w].j] = None]
  PROVE  Leaves(w)
<1>1. JobsStay
  BY LeavesJob
<1>2. \A j \in Jobs : j # slot[w].j => job'[j] = job[j]
  BY DEF BackupInv, Typed, JobsTyped
<1> QED
  BY <1>1, <1>2 DEF Leaves

LEMMA ThrowLeaves ==
  ASSUME Bounds, BackupInv, NEW w \in Slots, slot[w] # None, B!Throw(w)
  PROVE  slot' = [slot EXCEPT ![w] = None] /\ Leaves(w)
<1>1. slot[w] \in WorkType
  BY DEF BackupInv, Typed, SlotsTyped
<1>2. slot' = [slot EXCEPT ![w] = None]
  BY DEF B!Throw
<1>3. CASE slot[w].j = None
  BY <1>2, <1>3, JobsSame DEF B!Throw, Leaves
<1>4. CASE slot[w].j # None /\ job[slot[w].j].left = 1
  <2>1. job' = IF slot[w].j = None THEN job ELSE [job EXCEPT ![slot[w].j] = None]
    BY <1>4 DEF B!Throw
  <2> QED
    BY <1>2, <2>1, DropsOwn
<1>5. CASE slot[w].j # None /\ job[slot[w].j].left # 1
  <2>0. slot[w].j \in Jobs
    BY <1>1, <1>5 DEF WorkType
  <2> DEFINE j == slot[w].j
  <2>1. job' = [job EXCEPT ![j].active = FALSE, ![j].left = @ - 1]
    BY <1>5 DEF B!Throw
  <2>2. job[j] # None /\ job \in [Jobs -> JobType \cup {None}]
    BY <1>5 DEF BackupInv, Owned, Typed, JobsTyped
  <2>3. job[j] \in JobType
    BY <2>0, <2>2
  <2>4. job[j].left \in 1..Attempts /\ Attempts \in Nat
    BY <2>3 DEF JobType, Bounds
  <2>5. job[j].left - 1 \in 1..Attempts
    BY <1>5, <2>4
  <2> DEFINE next == [job[j] EXCEPT !.active = FALSE, !.left = job[j].left - 1]
  <2>6. job' = [job EXCEPT ![j] = next]
    BY <2>0, <2>1, <2>2, <2>3 DEF JobType
  <2>7. next \in JobType /\ next.kind = job[j].kind /\ next.r = job[j].r /\ next.path = job[j].path
    BY <2>3, <2>5 DEF JobType
  <2> HIDE DEF next
  <2>8. JobsStay /\ \A i \in Jobs : i # j => job'[i] = job[i]
    BY <2>0, <2>2, <2>6, <2>7 DEF JobsTyped, JobsStay, JobStays
  <2> QED
    BY <1>2, <2>8 DEF Leaves
<1> QED
  BY <1>3, <1>4, <1>5

LEMMA DoneLeaves ==
  ASSUME BackupInv, NEW w \in Slots, B!Done(w)
  PROVE  slot' = [slot EXCEPT ![w] = None] /\ Leaves(w)
BY DropsOwn DEF B!Done

LEMMA TakeAct == ASSUME Bounds, BackupInv, NEW w \in Slots, B!Take(w) PROVE BackupInv'
<1>1. PICK j \in Jobs :
        /\ job[j] # None /\ ~job[j].active /\ job' = [job EXCEPT ![j].active = TRUE]
        /\ slot' = [slot EXCEPT ![w] =
             [pc |-> "read", kind |-> job[j].kind, r |-> job[j].r, path |-> job[j].path, j |-> j,
              archive |-> 0, outrun |-> FALSE]]
  BY DEF B!Take
<1>2. UNCHANGED <<run, request, made, commands, faults, passed, lost, once, undone>>
  BY DEF B!Take
<1>3. job[j] \in JobType /\ job \in [Jobs -> JobType \cup {None}] /\ Asked(job[j])
  BY <1>1 DEF BackupInv, Typed, JobsTyped, JobsRight
<1> DEFINE work == [pc |-> "read", kind |-> job[j].kind, r |-> job[j].r, path |-> job[j].path, j |-> j,
                    archive |-> 0, outrun |-> FALSE]
<1>4. 0 \in 0..MaxArchives
  BY DEF Bounds
<1>5. work \in WorkType /\ Asked(work) /\ work.pc = "read" /\ work.kind = job[j].kind /\ work.r = job[j].r /\ work.path = job[j].path
  BY <1>3, <1>4 DEF WorkType, JobType, Asked
<1> HIDE DEF work
<1>6. slot' = [slot EXCEPT ![w] = work]
  BY <1>1 DEF work
<1>7. SlotsTyped' /\ slot'[w] = work /\ \A v \in Slots \ {w} : slot'[v] = slot[v]
  BY <1>5, <1>6 DEF BackupInv, Typed, SlotsTyped
<1>8. JobsStay
  BY <1>1, <1>3 DEF JobsStay, JobsTyped, JobStays, JobType
<1>9. Grown /\ \A v \in Slots \ {w} : GoesOn(v)
  BY <1>2, <1>7 DEF Grown, GoesOn
<1>10. RowsTyped' /\ RowsRight' /\ CountsTyped' /\ PastTyped'
  BY <1>2, RowsKept DEF BackupInv, Typed, CountsTyped, PastTyped
<1>11. SlotsRight' /\ ArchiveRead'
  <2>1. Asked(slot[w])' /\ slot'[w].pc = "read"
    BY <1>2, <1>5, <1>7 DEF Asked
  <2> QED
    BY <1>9, <2>1, SlotKept DEF SlotsRight, ArchiveRead
<1>12. OutrunKnown'
  BY <1>2, <1>5, <1>7 DEF BackupInv, OutrunKnown, B!Status
<1>13. Owned'
  <2>1. \A v \in Slots \ {w} : slot[v] # None /\ slot[v].j # None => slot[v].j \in Jobs /\ slot[v].j # j /\ job'[slot[v].j] = job[slot[v].j]
    BY <1>1, <1>3 DEF BackupInv, Typed, SlotsTyped, WorkType, Owned
  <2>2. job'[j] # None /\ job'[j].active /\ slot'[w].j = j
    <3>1. job'[j] \in JobType /\ job'[j].active
      BY <1>1, <1>3 DEF JobType
    <3> QED
      BY <1>7, <3>1 DEF Bounds, work
  <2> QED
    BY <1>7, <2>1, <2>2 DEF BackupInv, Owned
<1> QED
  BY <1>2, <1>7, <1>8, <1>9, <1>10, <1>11, <1>12, <1>13, BackStep

LEMMA ReadAct == ASSUME Bounds, BackupInv, NEW w \in Slots, B!Read(w) PROVE BackupInv'
<1>1. /\ UNCHANGED <<run, request, made, commands, faults, passed, lost, once, undone>>
      /\ slot[w] # None /\ slot[w].pc = "read"
  BY DEF B!Read
<1>2. RowsTyped' /\ RowsRight' /\ CountsTyped' /\ PastTyped' /\ Grown
  BY <1>1, RowsKept DEF BackupInv, Typed, CountsTyped, PastTyped, Grown
<1> DEFINE r == slot[w].r
           work == [slot[w] EXCEPT !.pc = IF slot[w].kind = "verify" THEN "write" ELSE "start",
                                   !.archive = run[r].archive]
<1>3. CASE slot' = [slot EXCEPT ![w] = None] /\ Leaves(w)
  BY <1>1, <1>2, <1>3, LeaveStep DEF B!Status
<1>4. CASE /\ B!Status(r) # "gone" /\ ~(slot[w].kind = "execute" /\ B!Status(r) = "completed")
           /\ slot' = [slot EXCEPT ![w] = work] /\ job' = job
  <2>1. slot[w] \in WorkType /\ r \in Runs /\ run[r].archive \in 0..MaxArchives
    BY <1>1 DEF BackupInv, Typed, SlotsTyped, WorkType, RowsTyped, RowType
  <2>2. /\ work \in WorkType /\ work.pc = (IF slot[w].kind = "verify" THEN "write" ELSE "start")
        /\ work.archive = run[r].archive /\ work.kind = slot[w].kind /\ work.r = r /\ work.path = slot[w].path
        /\ work.j = slot[w].j
    BY <2>1 DEF WorkType
  <2> HIDE DEF work
  <2>3. SlotsTyped' /\ slot'[w] = work /\ \A v \in Slots \ {w} : slot'[v] = slot[v]
    BY <1>4, <2>2 DEF BackupInv, Typed, SlotsTyped
  <2>4. \A v \in Slots \ {w} : GoesOn(v)
    BY <2>3 DEF GoesOn
  <2>5. Asked(slot[w])
    BY <1>1 DEF BackupInv, SlotsRight
  <2>6. Asked(slot[w])' /\ (slot'[w].pc = "start" => slot'[w].kind # "verify")
    BY <1>1, <2>2, <2>3, <2>5 DEF Asked
  <2>7. slot'[w].kind # "execute" /\ slot'[w].r \notin undone' => slot'[w].archive \in passed'
    BY <1>1, <1>4, <2>1, <2>2, <2>3, <2>5 DEF BackupInv, RowsRight, RowRight, Asked
  <2>8. SlotsRight' /\ ArchiveRead'
    BY <1>2, <2>4, <2>6, <2>7, SlotKept DEF SlotsRight, ArchiveRead
  <2>9. OutrunKnown'
    BY <1>1, <1>4, <2>2, <2>3 DEF BackupInv, OutrunKnown, B!Status
  <2>10. JobsStay
    BY <1>4, JobsSame
  <2>11. Owned'
    <3>1. \A v \in Slots : Holds(v)
      BY <1>1, <2>2, <2>3 DEF Holds
    <3> QED
      BY <1>4, <3>1, OwnedSame
  <2> QED
    BY <1>1, <1>2, <2>3, <2>8, <2>9, <2>10, <2>11, BackStep
<1>5. \/ slot' = [slot EXCEPT ![w] = None] /\ Leaves(w)
      \/ /\ B!Status(r) # "gone" /\ ~(slot[w].kind = "execute" /\ B!Status(r) = "completed")
         /\ slot' = [slot EXCEPT ![w] = work] /\ job' = job
  BY <1>1, ThrowLeaves, DoneLeaves DEF B!Read
<1> QED
  BY <1>3, <1>4, <1>5

-----------------------------------------------------------------------------
(* Writes to the rows *)

(* A row that run r may be given. *)
Fits(row, r) ==
  /\ row.status = "completed" => r \in once'
  /\ r \in once' \ undone' /\ row.status # "gone" => row.archive \in passed'
  /\ row.verdict = "verified" /\ row.archive # 0 => row.archive \in passed'

LEMMA RowWritten ==
  ASSUME BackupInv, NEW r \in Runs, NEW row \in RowType, Grown, once' \subseteq once \cup {r},
         run' = IF B!Status(r) = "gone" THEN run ELSE [run EXCEPT ![r] = row],
         B!Status(r) # "gone" => Fits(row, r)
  PROVE  /\ RowsTyped' /\ RowsRight'
         /\ \A q \in Runs \ {r} : run'[q] = run[q]
         /\ run'[r].status = IF B!Status(r) = "gone" THEN "gone" ELSE row.status
<1>1. RowsTyped' /\ (\A q \in Runs \ {r} : run'[q] = run[q])
      /\ run'[r] = (IF B!Status(r) = "gone" THEN run[r] ELSE row)
  BY DEF BackupInv, Typed, RowsTyped
<1>2. run'[r].status = IF B!Status(r) = "gone" THEN "gone" ELSE row.status
  BY <1>1 DEF B!Status
<1>3. \A q \in Runs \ {r} : RowRight(q)'
  BY <1>1, RowKept
<1>4. RowRight(r)'
  <2>1. CASE B!Status(r) = "gone"
    BY <1>1, <1>2, <2>1 DEF BackupInv, RowsRight, RowRight, B!Status, Grown
  <2>2. CASE B!Status(r) # "gone"
    BY <1>1, <1>2, <2>2 DEF Fits, RowRight, B!Status
  <2> QED
    BY <2>1, <2>2
<1> QED
  BY <1>1, <1>2, <1>3, <1>4 DEF RowsRight

LEMMA WriteLeaves ==
  ASSUME BackupInv, NEW w \in Slots, slot[w] # None, NEW row \in RowType, B!Writes(w, row),
         UNCHANGED request, CountsTyped', PastTyped', Grown, once' \subseteq once \cup {slot[w].r},
         B!Status(slot[w].r) # "gone" =>
           Fits(row, slot[w].r) /\ (row.status = "completed" => B!Status(slot[w].r) = "completed"),
         slot' = [slot EXCEPT ![w] = None], Leaves(w)
  PROVE  BackupInv'
<1> DEFINE r == slot[w].r
<1>1. r \in Runs
  BY DEF BackupInv, Typed, SlotsTyped, WorkType
<1>2. /\ RowsTyped' /\ RowsRight'
      /\ \A q \in Runs \ {r} : run'[q] = run[q]
      /\ run'[r].status = IF B!Status(r) = "gone" THEN "gone" ELSE row.status
  BY <1>1, RowWritten DEF B!Writes
<1>3. \A q \in Runs : B!Status(q)' = "completed" => B!Status(q) = "completed"
  BY <1>2 DEF B!Status
<1> QED
  BY <1>2, <1>3, LeaveStep

LEMMA Outran ==
  ASSUME BackupInv, NEW w \in Slots, slot' = [B!Outrun(w) EXCEPT ![w] = None]
  PROVE  /\ SlotsTyped' /\ slot'[w] = None
         /\ \A v \in Slots : GoesOn(v) /\ Holds(v)
         /\ \A v \in Slots : slot'[v] # None /\ slot'[v].kind = "execute" /\ slot'[v].pc # "read"
                             /\ slot'[v].r = slot[w].r => slot'[v].outrun
<1>1. /\ slot'[w] = None
      /\ \A v \in Slots \ {w} : slot'[v] =
           IF slot[v] # None /\ slot[v].kind = "execute" /\ slot[v].pc # "read" /\ slot[v].r = slot[w].r
             THEN [slot[v] EXCEPT !.outrun = TRUE] ELSE slot[v]
      /\ slot' = [v \in Slots |-> slot'[v]]
  BY DEF B!Outrun
<1>2. \A v \in Slots : slot[v] # None => slot[v] \in WorkType
  BY DEF BackupInv, Typed, SlotsTyped
<1>3. ASSUME NEW v \in Slots \ {w}
      PROVE  /\ slot'[v] \in WorkType \cup {None} /\ GoesOn(v) /\ Holds(v)
             /\ slot'[v] # None /\ slot'[v].kind = "execute" /\ slot'[v].pc # "read"
                /\ slot'[v].r = slot[w].r => slot'[v].outrun
  <2>1. CASE slot[v] # None /\ slot[v].kind = "execute" /\ slot[v].pc # "read" /\ slot[v].r = slot[w].r
    <3> DEFINE work == [slot[v] EXCEPT !.outrun = TRUE]
    <3>1. slot'[v] = work /\ slot[v] \in WorkType
      BY <1>1, <1>2, <2>1
    <3>2. /\ work \in WorkType /\ work.outrun = TRUE /\ work.pc = slot[v].pc /\ work.kind = slot[v].kind
          /\ work.r = slot[v].r /\ work.path = slot[v].path /\ work.archive = slot[v].archive
          /\ work.j = slot[v].j
      BY <3>1 DEF WorkType
    <3> HIDE DEF work
    <3> QED
      BY <2>1, <3>1, <3>2 DEF GoesOn, Holds
  <2>2. CASE ~(slot[v] # None /\ slot[v].kind = "execute" /\ slot[v].pc # "read" /\ slot[v].r = slot[w].r)
    <3>1. slot'[v] = slot[v]
      BY <1>1, <2>2
    <3> QED
      BY <1>2, <2>2, <3>1 DEF GoesOn, Holds
  <2> QED
    BY <2>1, <2>2
<1>4. SlotsTyped'
  BY <1>1, <1>3 DEF SlotsTyped
<1>5. GoesOn(w) /\ Holds(w)
  BY <1>1 DEF GoesOn, Holds
<1> QED
  BY <1>1, <1>3, <1>4, <1>5

LEMMA WriteOutruns ==
  ASSUME BackupInv, NEW w \in Slots, slot[w] # None, NEW row \in RowType, B!Writes(w, row),
         UNCHANGED request, CountsTyped', PastTyped', Grown, once' \subseteq once \cup {slot[w].r},
         B!Status(slot[w].r) # "gone" => Fits(row, slot[w].r),
         slot' = [B!Outrun(w) EXCEPT ![w] = None], Leaves(w)
  PROVE  BackupInv'
<1> DEFINE r == slot[w].r
<1>1. r \in Runs
  BY DEF BackupInv, Typed, SlotsTyped, WorkType
<1>2. /\ RowsTyped' /\ RowsRight'
      /\ \A q \in Runs \ {r} : run'[q] = run[q]
  BY <1>1, RowWritten DEF B!Writes
<1>3. /\ SlotsTyped' /\ slot'[w] = None /\ (\A v \in Slots : GoesOn(v) /\ Holds(v))
      /\ \A v \in Slots : slot'[v] # None /\ slot'[v].kind = "execute" /\ slot'[v].pc # "read"
                          /\ slot'[v].r = r => slot'[v].outrun
  BY Outran
<1>4. OutrunKnown'
  <2> SUFFICES ASSUME NEW v \in Slots, slot'[v] # None, slot'[v].kind = "execute", slot'[v].pc # "read",
                      B!Status(slot[v].r)' = "completed", slot'[v].r # r
               PROVE  slot'[v].outrun
    BY <1>3 DEF OutrunKnown, B!Status
  <2>1. /\ slot[v] # None /\ slot[v].kind = "execute" /\ slot[v].pc # "read" /\ slot'[v].r = slot[v].r
        /\ slot[v].outrun => slot'[v].outrun
    BY <1>3 DEF GoesOn
  <2>2. slot[v].r \in Runs \ {r}
    BY <2>1 DEF BackupInv, Typed, SlotsTyped, WorkType
  <2>3. B!Status(slot[v].r) = "completed"
    BY <1>2, <2>1, <2>2 DEF B!Status
  <2> QED
    BY <2>1, <2>3 DEF BackupInv, OutrunKnown
<1>5. Owned' /\ JobsStay
  BY <1>3, OwnedLeft DEF Leaves
<1>6. SlotsRight' /\ ArchiveRead'
  BY <1>3, SlotsKept
<1> QED
  BY <1>2, <1>3, <1>4, <1>5, <1>6, BackStep

-----------------------------------------------------------------------------
(* The writes of a job *)

LEMMA StartAct == ASSUME BackupInv, NEW w \in Slots, B!Start(w) \/ B!StartUnseen(w) PROVE BackupInv'
<1>1. /\ UNCHANGED <<request, job, made, commands, passed, lost, once, undone>>
      /\ slot[w] # None /\ slot[w].pc = "start" /\ slot' = [slot EXCEPT ![w].pc = "write"]
  BY DEF B!Start, B!StartUnseen
<1>2. slot[w] \in WorkType /\ slot[w].r \in Runs
  BY <1>1 DEF BackupInv, Typed, SlotsTyped, WorkType
<1>3. SlotsTyped' /\ \A v \in Slots : GoesOn(v) /\ Holds(v)
  <2> DEFINE work == [slot[w] EXCEPT !.pc = "write"]
  <2>1. /\ work \in WorkType /\ work.pc = "write" /\ work.kind = slot[w].kind /\ work.r = slot[w].r
        /\ work.path = slot[w].path /\ work.archive = slot[w].archive /\ work.j = slot[w].j
        /\ work.outrun = slot[w].outrun
    BY <1>2 DEF WorkType
  <2>2. slot' = [slot EXCEPT ![w] = work]
    BY <1>1
  <2> HIDE DEF work
  <2>3. SlotsTyped' /\ slot'[w] = work /\ \A v \in Slots \ {w} : slot'[v] = slot[v]
    BY <2>1, <2>2 DEF BackupInv, Typed, SlotsTyped
  <2> QED
    BY <1>1, <2>1, <2>3 DEF GoesOn, Holds
<1>4. CountsTyped' /\ PastTyped' /\ Grown
  BY <1>1 DEF B!Start, B!StartUnseen, B!Fault, BackupInv, Typed, CountsTyped, PastTyped, Grown
<1>5. RowsTyped' /\ RowsRight' /\ \A r \in Runs : B!Status(r)' = "completed" => B!Status(r) = "completed"
  <2>1. CASE B!Start(w)
    <3> DEFINE r == slot[w].r
               row == [run[r] EXCEPT !.status = "running"]
    <3>1. row \in RowType /\ row.status = "running" /\ row.archive = run[r].archive /\ row.verdict = run[r].verdict
      BY <1>2 DEF BackupInv, Typed, RowsTyped, RowType, B!Statuses
    <3>2. run' = IF B!Status(r) = "gone" THEN run ELSE [run EXCEPT ![r] = row]
      BY <2>1 DEF B!Start
    <3> HIDE DEF row
    <3>3. B!Status(r) # "gone" => Fits(row, r)
      BY <1>1, <1>2, <3>1 DEF Fits, BackupInv, RowsRight, RowRight
    <3>4. /\ RowsTyped' /\ RowsRight'
          /\ \A q \in Runs \ {r} : run'[q] = run[q]
          /\ run'[r].status = IF B!Status(r) = "gone" THEN "gone" ELSE row.status
      BY <1>1, <1>2, <1>4, <3>1, <3>2, <3>3, RowWritten
    <3> QED
      BY <3>1, <3>4 DEF B!Status
  <2>2. CASE B!StartUnseen(w)
    <3>1. run' = run
      BY <2>2 DEF B!StartUnseen
    <3> QED
      BY <1>1, <3>1, RowsKept DEF B!Status
  <2> QED
    BY <2>1, <2>2
<1>6. OutrunKnown' /\ SlotsRight' /\ ArchiveRead'
  BY <1>3, <1>4, <1>5, OutrunKept, SlotsKept
<1>7. Owned' /\ JobsStay
  BY <1>1, <1>3, OwnedSame, JobsSame
<1> QED
  BY <1>1, <1>3, <1>4, <1>5, <1>6, <1>7, BackStep

(* An execution that fails makes the run a failed one, without an archive that *)
(* passed.                                                                     *)
LEMMA FailsAct ==
  ASSUME Bounds, BackupInv, NEW w \in Slots, B!ExecuteFails(w) \/ B!VerifyFails(w)
  PROVE  BackupInv'
<1> DEFINE r == slot[w].r
<1>1. /\ UNCHANGED <<request, commands, faults, passed, lost, once>>
      /\ slot[w] # None /\ B!Throw(w) /\ undone' = undone \cup (once \cap {r})
  BY DEF B!ExecuteFails, B!VerifyFails, B!Ends, B!Undoes
<1>2. r \in Runs /\ run[r] \in RowType
  BY <1>1 DEF BackupInv, Typed, SlotsTyped, WorkType, RowsTyped
<1>3. CountsTyped' /\ (B!VerifyFails(w) => made + 1 \in 0..MaxArchives)
  BY <1>1 DEF B!ExecuteFails, B!VerifyFails, Bounds, BackupInv, Typed, CountsTyped
<1>4. PastTyped' /\ Grown
  BY <1>1, <1>2 DEF BackupInv, Typed, PastTyped, Grown
<1>5. slot' = [slot EXCEPT ![w] = None] /\ Leaves(w)
  BY <1>1, ThrowLeaves
<1>6. PICK row \in RowType : B!Writes(w, row) /\ row.status = "failed" /\ row.verdict # "verified"
  <2>1. CASE B!ExecuteFails(w)
    <3> DEFINE row == [run[r] EXCEPT !.status = "failed", !.archive = 0, !.verdict = "none"]
    <3>1. 0 \in 0..MaxArchives
      BY DEF Bounds
    <3>2. row \in RowType /\ row.status = "failed" /\ row.verdict = "none"
      BY <1>2, <3>1 DEF RowType, B!Statuses
    <3>3. B!Writes(w, row)
      BY <2>1 DEF B!ExecuteFails
    <3> QED
      BY <3>2, <3>3
  <2>2. CASE B!VerifyFails(w)
    <3> DEFINE row == [run[r] EXCEPT !.status = "failed", !.archive = made + 1, !.verdict = "failed"]
    <3>1. row \in RowType /\ row.status = "failed" /\ row.verdict = "failed"
      BY <1>2, <1>3, <2>2 DEF RowType, B!Statuses
    <3>2. B!Writes(w, row)
      BY <2>2 DEF B!VerifyFails
    <3> QED
      BY <3>1, <3>2
  <2> QED
    BY <2>1, <2>2
<1>7. Fits(row, r) /\ row.status # "completed"
  BY <1>1, <1>6 DEF Fits
<1> QED
  BY <1>1, <1>3, <1>4, <1>5, <1>6, <1>7, WriteLeaves

LEMMA CompleteAct == ASSUME Bounds, BackupInv, NEW w \in Slots, B!Complete(w) PROVE BackupInv'
<1> DEFINE r == slot[w].r
           row == [run[r] EXCEPT !.status = "completed", !.archive = made + 1, !.verdict = "verified"]
<1>1. /\ UNCHANGED <<request, commands, faults, lost>> /\ slot[w] # None
      /\ made' = made + 1 /\ passed' = passed \cup {made + 1} /\ made < MaxArchives
      /\ undone' = undone \cup (once \cap {r}) /\ once' = once \cup {r}
      /\ slot' = [B!Outrun(w) EXCEPT ![w] = None] /\ B!Writes(w, row)
  BY DEF B!Complete, B!Ends, B!Undoes
<1>2. r \in Runs /\ run[r] \in RowType
  BY <1>1 DEF BackupInv, Typed, SlotsTyped, WorkType, RowsTyped
<1>3. CountsTyped' /\ made + 1 \in 0..MaxArchives /\ made + 1 \in 1..MaxArchives
  BY <1>1 DEF Bounds, BackupInv, Typed, CountsTyped
<1>4. PastTyped' /\ Grown
  BY <1>1, <1>2, <1>3 DEF BackupInv, Typed, PastTyped, Grown
<1>5. Leaves(w)
  BY DropsOwn DEF B!Complete
<1>6. row \in RowType /\ row.archive = made + 1
  BY <1>2, <1>3 DEF RowType, B!Statuses
<1> HIDE DEF row
<1>7. Fits(row, r)
  BY <1>1, <1>6 DEF Fits
<1> QED
  BY <1>1, <1>3, <1>4, <1>5, <1>6, <1>7, WriteOutruns

LEMMA RestoreAct == ASSUME Bounds, BackupInv, NEW w \in Slots, B!Restore(w) PROVE BackupInv'
<1> DEFINE r == slot[w].r
<1>1. /\ UNCHANGED <<request, made, commands, faults, passed, lost, once, undone>>
      /\ slot[w] # None /\ slot[w].kind = "restore"
  BY DEF B!Restore, B!Ends
<1>2. r \in Runs /\ run[r] \in RowType /\ r \in once
  BY <1>1 DEF BackupInv, Typed, SlotsTyped, WorkType, RowsTyped, SlotsRight, Asked
<1>3. CountsTyped' /\ PastTyped' /\ Grown
  BY <1>1 DEF BackupInv, Typed, CountsTyped, PastTyped, Grown
<1>4. Leaves(w)
  BY DropsOwn DEF B!Restore
<1>5. ASSUME NEW st \in {"completed", "failed"}
      PROVE  /\ [run[r] EXCEPT !.status = st] \in RowType
             /\ [run[r] EXCEPT !.status = st].status = st
             /\ B!Status(r) # "gone" => Fits([run[r] EXCEPT !.status = st], r)
  <2> DEFINE row == [run[r] EXCEPT !.status = st]
  <2>1. row \in RowType /\ row.status = st /\ row.archive = run[r].archive /\ row.verdict = run[r].verdict
    BY <1>2 DEF RowType, B!Statuses
  <2> HIDE DEF row
  <2>2. B!Status(r) # "gone" => Fits(row, r)
    BY <1>1, <1>2, <2>1 DEF Fits, BackupInv, RowsRight, RowRight
  <2> QED
    BY <2>1, <2>2 DEF row
<1>6. CASE B!Writes(w, [run[r] EXCEPT !.status = "completed"]) /\ slot' = [B!Outrun(w) EXCEPT ![w] = None]
  BY <1>1, <1>3, <1>4, <1>5, <1>6, WriteOutruns
<1>7. CASE B!Writes(w, [run[r] EXCEPT !.status = "failed"]) /\ slot' = [slot EXCEPT ![w] = None]
  BY <1>1, <1>3, <1>4, <1>5, <1>7, WriteLeaves
<1> QED
  BY <1>6, <1>7 DEF B!Restore

LEMMA VerifyAct == ASSUME Bounds, BackupInv, NEW w \in Slots, B!Verify(w) PROVE BackupInv'
<1> DEFINE r == slot[w].r
           old == [run[r] EXCEPT !.archive = slot[w].archive]
<1>1. /\ UNCHANGED <<request, made, commands, faults, lost, once, undone>>
      /\ slot[w] # None /\ slot[w].kind = "verify" /\ slot[w].pc = "write" /\ B!Done(w)
  BY DEF B!Verify, B!Ends
<1>2. r \in Runs /\ run[r] \in RowType /\ slot[w] \in WorkType /\ Asked(slot[w])
  BY <1>1 DEF BackupInv, Typed, SlotsTyped, WorkType, RowsTyped, SlotsRight
<1>3. slot[w].path \in 1..MaxArchives
  <2>1. slot[w].path # 0 /\ slot[w].path \in 0..MaxArchives /\ MaxArchives \in Nat
    BY <1>1, <1>2 DEF WorkType, Asked, Bounds
  <2> QED
    BY <2>1
<1>4. r \notin undone => slot[w].archive \in passed
  BY <1>1 DEF BackupInv, ArchiveRead
<1>5. slot' = [slot EXCEPT ![w] = None] /\ Leaves(w)
  BY <1>1, DoneLeaves
<1>6. PICK row \in RowType :
        /\ B!Writes(w, row) /\ row.status = run[r].status /\ row.archive = slot[w].archive
        /\ \/ passed' = passed /\ row.verdict = "failed"
           \/ passed' = passed \cup {slot[w].path} /\ slot[w].archive \in {0, slot[w].path}
  <2>1. ASSUME NEW v \in {"verified", "failed"}
        PROVE  /\ [old EXCEPT !.verdict = v] \in RowType /\ [old EXCEPT !.verdict = v].verdict = v
               /\ [old EXCEPT !.verdict = v].status = run[r].status
               /\ [old EXCEPT !.verdict = v].archive = slot[w].archive
    BY <1>2 DEF RowType, WorkType
  <2>2. \/ B!Writes(w, [old EXCEPT !.verdict = "failed"]) /\ passed' = passed
        \/ /\ B!Writes(w, [old EXCEPT !.verdict = "verified"]) /\ passed' = passed \cup {slot[w].path}
           /\ slot[w].archive \in {0, slot[w].path}
    BY DEF B!Verify, B!Passes
  <2> HIDE DEF old
  <2> QED
    BY <2>1, <2>2
<1>7. CountsTyped' /\ PastTyped' /\ Grown
  BY <1>1, <1>3, <1>6 DEF BackupInv, Typed, CountsTyped, PastTyped, Grown
<1>8. Fits(row, r)
  BY <1>1, <1>2, <1>4, <1>6 DEF Fits, BackupInv, RowsRight, RowRight, B!Status, Asked
<1>9. row.status = "completed" => B!Status(r) = "completed"
  BY <1>6 DEF B!Status
<1> QED
  BY <1>1, <1>5, <1>6, <1>7, <1>8, <1>9, WriteLeaves

(* Nothing is written. *)
LEMMA UnwrittenAct ==
  ASSUME Bounds, BackupInv, NEW w \in Slots, B!Swallow(w) \/ B!Crash(w)
  PROVE  BackupInv'
<1>1. /\ UNCHANGED <<run, request, made, commands, passed, once, undone>> /\ slot[w] # None
      /\ B!Fault /\ lost' \in {lost, lost \cup {slot[w].r}}
  BY DEF B!Swallow, B!Crash
<1>2. slot[w].r \in Runs
  BY <1>1 DEF BackupInv, Typed, SlotsTyped, WorkType
<1>3. RowsTyped' /\ RowsRight' /\ CountsTyped' /\ PastTyped' /\ Grown
  BY <1>1, <1>2, RowsKept DEF B!Fault, BackupInv, Typed, CountsTyped, PastTyped, Grown
<1>4. slot' = [slot EXCEPT ![w] = None] /\ Leaves(w)
  <2>1. CASE B!Swallow(w)
    BY <1>1, <2>1, ThrowLeaves, DoneLeaves DEF B!Swallow
  <2>2. CASE B!Crash(w)
    BY <2>2, JobsSame DEF B!Crash, Leaves
  <2> QED
    BY <2>1, <2>2
<1> QED
  BY <1>1, <1>3, <1>4, LeaveStep DEF B!Status

-----------------------------------------------------------------------------
(* The queue *)

LEMMA RedeliverAct ==
  ASSUME Bounds, BackupInv, NEW j \in Jobs, B!Stall(j) \/ B!Recover(j)
  PROVE  BackupInv'
<1>1. /\ UNCHANGED <<run, request, made, commands, passed, once, undone>> /\ faults' \in {faults, faults + 1}
      /\ job[j] # None
      /\ lost' \in {lost, lost \cup {job[j].r}}
      /\ job' \in {[job EXCEPT ![j] = None], [job EXCEPT ![j].active = FALSE, ![j].stalled = TRUE]}
      /\ slot' = [v \in Slots |-> IF slot[v] # None /\ slot[v].j = j THEN [slot[v] EXCEPT !.j = None] ELSE slot[v]]
  BY DEF B!Stall, B!Recover, B!Redeliver, B!Fault
<1>2. job[j] \in JobType /\ job \in [Jobs -> JobType \cup {None}]
  BY <1>1 DEF BackupInv, Typed, JobsTyped
<1>3. JobsStay /\ \A i \in Jobs \ {j} : job'[i] = job[i]
  <2>1. CASE job' = [job EXCEPT ![j] = None]
    BY <1>2, <2>1, DropsJob
  <2>2. CASE job' = [job EXCEPT ![j].active = FALSE, ![j].stalled = TRUE]
    <3> DEFINE next == [job[j] EXCEPT !.active = FALSE, !.stalled = TRUE]
    <3>1. next \in JobType /\ next.kind = job[j].kind /\ next.r = job[j].r /\ next.path = job[j].path
      BY <1>2 DEF JobType
    <3>2. job' = [job EXCEPT ![j] = next]
      BY <1>2, <2>2 DEF JobType
    <3> HIDE DEF next
    <3> QED
      BY <1>1, <1>2, <3>1, <3>2 DEF JobsTyped, JobsStay, JobStays
  <2> QED
    BY <1>1, <2>1, <2>2
<1>4. ASSUME NEW v \in Slots
      PROVE  /\ slot'[v] \in WorkType \cup {None} /\ GoesOn(v) /\ Holds(v)
             /\ slot'[v] # None /\ slot'[v].j # None => slot[v].j \in Jobs \ {j}
  <2>1. slot[v] # None => slot[v] \in WorkType
    BY DEF BackupInv, Typed, SlotsTyped
  <2>2. CASE slot[v] # None /\ slot[v].j = j
    <3>1. slot'[v] = [slot[v] EXCEPT !.j = None]
      BY <1>1, <2>2
    <3>2. /\ slot'[v] \in WorkType /\ slot'[v].outrun = slot[v].outrun /\ slot'[v].pc = slot[v].pc
          /\ slot'[v].kind = slot[v].kind
          /\ slot'[v].r = slot[v].r /\ slot'[v].path = slot[v].path /\ slot'[v].archive = slot[v].archive
          /\ slot'[v].j = None
      BY <2>1, <2>2, <3>1 DEF WorkType
    <3> QED
      BY <2>2, <3>2 DEF GoesOn, Holds
  <2>3. CASE ~(slot[v] # None /\ slot[v].j = j)
    <3>1. slot'[v] = slot[v]
      BY <1>1, <2>3
    <3> QED
      BY <2>1, <2>3, <3>1 DEF GoesOn, Holds, WorkType
  <2> QED
    BY <2>2, <2>3
<1>5. SlotsTyped'
  <2>1. slot' = [v \in Slots |-> slot'[v]]
    BY <1>1
  <2> QED
    BY <1>4, <2>1 DEF SlotsTyped
<1>6. Owned'
  BY <1>3, <1>4, OwnedKept
<1>7. RowsTyped' /\ RowsRight' /\ Grown /\ CountsTyped' /\ PastTyped'
  BY <1>1, <1>2, RowsKept DEF BackupInv, Typed, CountsTyped, PastTyped, Grown, JobType
<1>8. SlotsRight' /\ ArchiveRead' /\ OutrunKnown'
  BY <1>1, <1>4, <1>7, SlotsKept, OutrunKept DEF B!Status
<1> QED
  BY <1>1, <1>3, <1>5, <1>6, <1>7, <1>8, BackStep

-----------------------------------------------------------------------------

LEMMA BackupStepwise == ASSUME Bounds PROVE BackupInv /\ [B!Next]_(B!vars) => BackupInv'
<1> SUFFICES ASSUME BackupInv, [B!Next]_(B!vars) PROVE BackupInv'
  OBVIOUS
<1>1. ASSUME NEW q \in Requests, B!Trigger(q) PROVE BackupInv'
  BY <1>1, TriggerAct
<1>2. ASSUME NEW q \in Requests, B!Enqueue(q) PROVE BackupInv'
  BY <1>2, EnqueueAct
<1>3. ASSUME NEW q \in Requests, B!EnqueueFails(q) PROVE BackupInv'
  BY <1>3, EnqueueFailsAct
<1>4. ASSUME NEW q \in Requests, NEW r \in Runs, NEW kind \in {"restore", "verify"}, B!Order(q, r, kind) PROVE BackupInv'
  BY <1>4, OrderAct
<1>5. ASSUME NEW r \in Runs, B!Delete(r) PROVE BackupInv'
  BY <1>5, DeleteAct
<1>6. ASSUME NEW w \in Slots, B!Work(w) \/ B!StartUnseen(w) \/ B!Swallow(w) \/ B!Crash(w) PROVE BackupInv'
  BY <1>6, TakeAct, ReadAct, StartAct, FailsAct, CompleteAct, RestoreAct, VerifyAct,
     UnwrittenAct DEF B!Work
<1>7. ASSUME NEW j \in Jobs, B!Stall(j) \/ B!Recover(j) PROVE BackupInv'
  BY <1>7, RedeliverAct
<1>8. CASE UNCHANGED B!vars
  <2>1. UNCHANGED <<run, request, job, slot, made, commands, faults, passed, lost, once, undone>>
    BY <1>8 DEF B!vars
  <2>2. AsksTyped' /\ AsksRight' /\ JobsTyped' /\ JobsRight' /\ RowsTyped' /\ RowsRight'
    BY <2>1, AsksKept, JobsSame, JobsKept, RowsKept DEF Grown
  <2>3. CountsTyped' /\ PastTyped'
    BY <2>1 DEF BackupInv, Typed, CountsTyped, PastTyped
  <2> QED
    BY <2>1, <2>2, <2>3, FrontStep DEF B!Status
<1> QED
  BY <1>1, <1>2, <1>3, <1>4, <1>5, <1>6, <1>7, <1>8 DEF B!Next

LEMMA BackupInvariant == ASSUME Bounds PROVE B!Spec => []BackupInv
BY BackupInitially, BackupStepwise, PTL DEF B!Spec

LEMMA OnlyUnmakers == ASSUME BackupInv, [B!Next]_(B!vars) PROVE B!Unmaking
<1> SUFFICES ASSUME NEW r \in Runs, B!Status(r) = "completed", run'[r].status \notin {"completed", "gone"}
             PROVE  \E w \in Slots : slot[w] # None /\ slot[w].r = r /\ (slot[w].kind = "restore" \/ slot[w].outrun)
  BY DEF B!Unmaking
<1>0. run' # run /\ run \in [Runs -> RowType]
  BY DEF B!Status, BackupInv, Typed, RowsTyped
<1>1. ASSUME NEW w \in Slots, NEW row, slot[w] # None, slot[w].pc # "read", slot[w].kind # "verify",
             run' = IF B!Status(slot[w].r) = "gone" THEN run ELSE [run EXCEPT ![slot[w].r] = row]
      PROVE  slot[w].r = r /\ (slot[w].kind = "restore" \/ slot[w].outrun)
  <2>1. slot[w].r = r
    BY <1>0, <1>1 DEF B!Status
  <2>2. slot[w].kind \in B!Kinds
    BY <1>1 DEF BackupInv, Typed, SlotsTyped, WorkType
  <2> QED
    BY <1>1, <2>1, <2>2 DEF BackupInv, OutrunKnown, B!Kinds
<1>2. ASSUME NEW q \in Requests, B!Trigger(q) PROVE FALSE
  BY <1>0, <1>2 DEF B!Trigger, B!Status
<1>3. ASSUME NEW q \in Requests, B!Enqueue(q) \/ B!EnqueueFails(q) PROVE FALSE
  BY <1>0, <1>3 DEF B!Enqueue, B!EnqueueFails
<1>4. ASSUME NEW q \in Requests, NEW s \in Runs, NEW kind \in {"restore", "verify"}, B!Order(q, s, kind) PROVE FALSE
  BY <1>0, <1>4 DEF B!Order
<1>5. ASSUME NEW s \in Runs, B!Delete(s) PROVE FALSE
  BY <1>0, <1>5 DEF B!Delete, B!Status
<1>6. ASSUME NEW j \in Jobs, B!Stall(j) \/ B!Recover(j) PROVE FALSE
  BY <1>0, <1>6 DEF B!Stall, B!Recover, B!Redeliver
<1>7. ASSUME NEW w \in Slots, B!Take(w) \/ B!Read(w) \/ B!StartUnseen(w) \/ B!Swallow(w) \/ B!Crash(w) PROVE FALSE
  BY <1>0, <1>7 DEF B!Take, B!Read, B!StartUnseen, B!Swallow, B!Crash
<1>8. ASSUME NEW w \in Slots, B!Verify(w) PROVE FALSE
  <2> DEFINE old == [run[slot[w].r] EXCEPT !.archive = slot[w].archive]
  <2>1. slot[w].r \in Runs
    BY <1>8 DEF B!Verify, B!Ends, BackupInv, Typed, SlotsTyped, WorkType
  <2>2. PICK v : B!Writes(w, [old EXCEPT !.verdict = v])
    BY <1>8 DEF B!Verify
  <2>3. [old EXCEPT !.verdict = v].status = run[slot[w].r].status
    BY <1>0, <2>1 DEF RowType
  <2> HIDE DEF old
  <2> QED
    BY <1>0, <2>1, <2>2, <2>3 DEF B!Writes, B!Status
<1>9. ASSUME NEW w \in Slots, B!Start(w)
      PROVE  slot[w] # None /\ slot[w].r = r /\ (slot[w].kind = "restore" \/ slot[w].outrun)
  <2> DEFINE row == [run[slot[w].r] EXCEPT !.status = "running"]
  <2>1. slot[w] # None /\ slot[w].pc # "read" /\ slot[w].kind # "verify"
    BY <1>9 DEF B!Start, BackupInv, SlotsRight
  <2>2. run' = IF B!Status(slot[w].r) = "gone" THEN run ELSE [run EXCEPT ![slot[w].r] = row]
    BY <1>9 DEF B!Start
  <2> HIDE DEF row
  <2> QED
    BY <1>1, <2>1, <2>2
<1>10. ASSUME NEW w \in Slots, B!ExecuteFails(w) \/ B!VerifyFails(w) \/ B!Complete(w) \/ B!Restore(w)
       PROVE  slot[w] # None /\ slot[w].r = r /\ (slot[w].kind = "restore" \/ slot[w].outrun)
  <2>1. slot[w] # None /\ slot[w].pc # "read" /\ slot[w].kind # "verify"
    BY <1>10 DEF B!ExecuteFails, B!VerifyFails, B!Complete, B!Restore, B!Ends
  <2>2. PICK row : B!Writes(w, row)
    BY <1>10 DEF B!ExecuteFails, B!VerifyFails, B!Complete, B!Restore
  <2> QED
    BY <1>1, <2>1, <2>2 DEF B!Writes
<1>11. CASE UNCHANGED B!vars
  BY <1>0, <1>11 DEF B!vars
<1> QED
  BY <1>2, <1>3, <1>4, <1>5, <1>6, <1>7, <1>8, <1>9, <1>10, <1>11 DEF B!Next, B!Work

(* Types of the rows, the requests, the queue and its slots, for any runs,    *)
(* requests, jobs, slots and bounds.                                          *)
THEOREM BackupTypeCorrect == ASSUME Bounds PROVE B!Spec => []B!TypeOK
<1>1. BackupInv => B!TypeOK
  BY TypedIsTypeOK DEF BackupInv
<1> QED
  BY <1>1, BackupInvariant, PTL

(* The queue counts no two slots as processing one job, and keeps the job     *)
(* while a slot does.                                                         *)
THEOREM JobHasOneSlot == ASSUME Bounds PROVE B!Spec => []Owned
<1>1. BackupInv => Owned
  BY DEF BackupInv
<1> QED
  BY <1>1, BackupInvariant, PTL

(* A restore point has an archive that passed its verification                *)
(* (processors.ts:518), unless a second execution wrote the run after one had *)
(* completed it, and a verdict "verified" is of an archive that did, through  *)
(* retries, restores, late verdicts and redelivery.                           *)
THEOREM RestorePointsVerified == ASSUME Bounds PROVE B!Spec => []RestorePointVerified
<1>1. BackupInv => RestorePointVerified
  BY DEF BackupInv, RowsRight, RowRight, RowsTyped, Typed, RestorePointVerified, Verified, B!Status
<1> QED
  BY <1>1, BackupInvariant, PTL

(* A restore point stays one until it is deleted, restored, or written by an  *)
(* execution that had read the run before another completed it                *)
(* (processors.ts:391).                                                       *)
THEOREM RestorePointsKept == ASSUME Bounds PROVE B!Spec => B!RestorePointKept
<1>1. BackupInv /\ [B!Next]_(B!vars) => [B!Unmaking]_(B!vars)
  BY OnlyUnmakers
<1> QED
  BY <1>1, BackupInvariant, PTL DEF B!Spec, B!RestorePointKept

=============================================================================

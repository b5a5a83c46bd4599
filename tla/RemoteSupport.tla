---------------------------- MODULE RemoteSupport ----------------------------
(* The remote sessions of one device: technicians ask for them, the device's *)
(* agent polls for them and grants consent, a cleanup expires them, users     *)
(* and a revocation end them.  One action per database statement; a call of   *)
(* the agent is "sent", then "read" once the handler has found its session,   *)
(* then "ok" or "error".  The agent gives up on a call after 30 s; the call   *)
(* it gave up on is late and may still be served.  The agent of this          *)
(* repository never denies consent, so the handler's denial is left out.      *)
EXTENDS Integers, FiniteSets

CONSTANTS
  Sessions,   \* session ids, numbered in the order of creation
  Openers,    \* requests of technicians that open a session
  MaxFaults,  \* bound: calls given up, crashes and restarts in a behaviour
  None

VARIABLES
  session,   \* of each id: status, consentGranted, whether startedAt is set
  opening,   \* of each request: idle, or it found no open session ("raced":
             \* one was opened since, which the request cannot know)
  todo,      \* the sessions the agent got from its last poll and still has to do
  call,      \* the agent's call under way, None between calls
  late,      \* the calls the agent gave up on that may still be served
  revoked,   \* the device's credential is revoked
  faults

vars == <<session, opening, todo, call, late, revoked, faults>>

Statuses == {"none", "pending", "active", "failed", "ended", "expired"}
Ops == {"grant", "active", "failed"}

Init ==
  /\ session = [s \in Sessions |-> [status |-> "none", consent |-> FALSE, started |-> FALSE]]
  /\ opening = [o \in Openers |-> "idle"]
  /\ todo = {} /\ call = None /\ late = {}
  /\ revoked = FALSE /\ faults = 0

Open == {s \in Sessions : session[s].status \in {"pending", "active"}}
Pending == {s \in Sessions : session[s].status = "pending"}
Held == todo \cup {c.s : c \in late}

WithStatus(S, v) ==
  [s \in Sessions |-> IF s \in S THEN [session[s] EXCEPT !.status = v] ELSE session[s]]

(* The requests that found nothing open are outrun by a session that opens. *)
Outrun(o) == IF opening[o] = "clear" THEN "raced" ELSE opening[o]

-----------------------------------------------------------------------------
(* Technicians. *)

(* Mutant of FindOpen: it looks for another pending session only. *)
FindPending(o) ==
  /\ opening[o] = "idle" /\ Pending = {}
  /\ opening' = [opening EXCEPT ![o] = "clear"]
  /\ UNCHANGED <<session, todo, call, late, revoked, faults>>

FindOpen(o) ==
  /\ opening[o] = "idle" /\ Open = {}
  /\ opening' = [opening EXCEPT ![o] = "clear"]
  /\ UNCHANGED <<session, todo, call, late, revoked, faults>>

Create(o) ==
  /\ opening[o] # "idle"
  /\ \E s \in Sessions :
       /\ session[s].status = "none"
       /\ \A t \in Sessions : t < s => session[t].status # "none"
       /\ session' = WithStatus({s}, "pending")
  /\ opening' = [p \in Openers |-> IF p = o THEN "idle" ELSE Outrun(p)]
  /\ UNCHANGED <<todo, call, late, revoked, faults>>

(* By id, whatever the status. *)
EndSession(s) ==
  /\ session[s].status # "none"
  /\ session' = WithStatus({s}, "ended")
  /\ UNCHANGED <<opening, todo, call, late, revoked, faults>>

(* Pending sessions older than five minutes: those up to the k-th.  The       *)
(* second update, of active sessions never started, finds none (see           *)
(* ActiveIsConsented).                                                        *)
CleanupStale(k) ==
  /\ \E s \in Pending : s <= k
  /\ session' = WithStatus({s \in Pending : s <= k}, "expired")
  /\ UNCHANGED <<opening, todo, call, late, revoked, faults>>

(* It ends what is open; again, if the device was revoked before. *)
Revoke ==
  /\ revoked' = TRUE
  /\ session' = WithStatus(Open, "ended")
  /\ UNCHANGED <<opening, todo, call, late, faults>>

(* The device registers again: its agent goes on with a new credential, and  *)
(* calls that carry the old one will be refused.                              *)
Reenroll ==
  /\ revoked /\ revoked' = FALSE
  /\ late' = {c \in late : c.stage = "read"}
  /\ call' = IF call # None /\ call.stage = "sent" THEN [call EXCEPT !.stage = "error"] ELSE call
  /\ UNCHANGED <<session, opening, todo, faults>>

-----------------------------------------------------------------------------
(* The gateway's side of a call c. *)

(* The guard and the read: the credential is good and the session is one the  *)
(* handler accepts; consent is for pending sessions, a status for any.        *)
Admitted(c) ==
  /\ ~revoked
  /\ c.op = "grant" => session[c.s].status = "pending"

(* Mutant of Written: consent leaves the start time to a later status.       *)
WrittenUnstarted(c) ==
  [session EXCEPT ![c.s] =
     IF c.op = "grant" THEN [@ EXCEPT !.status = "active", !.consent = TRUE]
                       ELSE [@ EXCEPT !.status = c.op]]

(* The update, by id. *)
Written(c) ==
  [session EXCEPT ![c.s] =
     IF c.op = "grant" THEN [status |-> "active", consent |-> TRUE, started |-> TRUE]
                       ELSE [@ EXCEPT !.status = c.op]]

(* A session that becomes open again outruns the requests that found none.    *)
Reopening(c) ==
  opening' = IF session[c.s].status \notin {"pending", "active"} /\ c.op # "failed"
               THEN [o \in Openers |-> Outrun(o)] ELSE opening

Accept ==
  /\ call # None /\ call.stage = "sent"
  /\ call' = [call EXCEPT !.stage = IF Admitted(call) THEN "read" ELSE "error"]
  /\ UNCHANGED <<session, opening, todo, late, revoked, faults>>

Apply ==
  /\ call # None /\ call.stage = "read"
  /\ session' = Written(call) /\ Reopening(call)
  /\ call' = [call EXCEPT !.stage = "ok"]
  /\ UNCHANGED <<todo, late, revoked, faults>>

AcceptLate(c) ==
  /\ c.stage = "sent"
  /\ late' = (late \ {c}) \cup (IF Admitted(c) THEN {[c EXCEPT !.stage = "read"]} ELSE {})
  /\ UNCHANGED <<session, opening, todo, call, revoked, faults>>

ApplyLate(c) ==
  /\ c.stage = "read"
  /\ session' = Written(c) /\ Reopening(c)
  /\ late' = late \ {c}
  /\ UNCHANGED <<todo, call, revoked, faults>>

(* The gateway restarts: what it was doing is lost. *)
GatewayRestart ==
  /\ faults < MaxFaults /\ faults' = faults + 1
  /\ opening' = [o \in Openers |-> "idle"]
  /\ late' = {}
  /\ call' = IF call = None THEN None ELSE [call EXCEPT !.stage = "error"]
  /\ UNCHANGED <<session, todo, revoked>>

-----------------------------------------------------------------------------
(* The agent. *)

(* Mutants of Listed: whatever the status; only what was consented to. *)
ListedAny == {s \in Sessions : session[s].status # "none" /\ ~session[s].consent}
ListedConsented == {s \in Pending : session[s].consent}

Listed == {s \in Pending : ~session[s].consent}

Poll ==
  /\ call = None /\ todo = {} /\ ~revoked /\ Listed # {}
  /\ todo' = Listed
  /\ UNCHANGED <<session, opening, call, late, revoked, faults>>

Call(s, op) == [s |-> s, op |-> op, stage |-> "sent"]

Consent(s) ==
  /\ call = None /\ s \in todo
  /\ call' = Call(s, "grant")
  /\ UNCHANGED <<session, opening, todo, late, revoked, faults>>

(* What follows an answer: after consent a status, after that nothing. *)
Proceed(ok) ==
  IF call.op = "grant"
    THEN call' = Call(call.s, IF ok THEN "active" ELSE "failed") /\ todo' = todo
    ELSE call' = None /\ todo' = todo \ {call.s}

Answered ==
  /\ call # None /\ call.stage \in {"ok", "error"}
  /\ Proceed(call.stage = "ok")
  /\ UNCHANGED <<session, opening, late, revoked, faults>>

InFlight == IF call # None /\ call.stage \in {"sent", "read"} THEN {call} ELSE {}

(* No answer within 30 s: the call, or only its answer, is late. *)
GiveUp ==
  /\ call # None /\ call.stage # "error"
  /\ faults < MaxFaults /\ faults' = faults + 1
  /\ late' = late \cup InFlight
  /\ Proceed(FALSE)
  /\ UNCHANGED <<session, opening, revoked>>

AgentRestart ==
  /\ todo # {}
  /\ faults < MaxFaults /\ faults' = faults + 1
  /\ late' = late \cup InFlight
  /\ todo' = {} /\ call' = None
  /\ UNCHANGED <<session, opening, revoked>>

-----------------------------------------------------------------------------
Agent == Poll \/ (\E s \in Sessions : Consent(s)) \/ Accept \/ Apply \/ Answered

Next ==
  \/ \E o \in Openers : FindOpen(o) \/ Create(o)
  \/ \E s \in Sessions : EndSession(s) \/ CleanupStale(s)
  \/ \E c \in late : AcceptLate(c) \/ ApplyLate(c)
  \/ Agent \/ Revoke \/ Reenroll \/ GatewayRestart \/ GiveUp \/ AgentRestart

Spec == Init /\ [][Next]_vars

(* The agent keeps polling and the gateway keeps answering (agent.rs, run). *)
Fairness == WF_vars(Agent)

-----------------------------------------------------------------------------
CallType == [s : Sessions, op : Ops, stage : {"sent", "read", "ok", "error"}]

(* Types of the rows and of the calls in flight. *)
TypeOK ==
  /\ session \in [Sessions -> [status : Statuses, consent : BOOLEAN, started : BOOLEAN]]
  /\ opening \in [Openers -> {"idle", "clear", "raced"}]
  /\ todo \in SUBSET Sessions
  /\ call \in CallType \cup {None}
  /\ late \in SUBSET CallType
  /\ revoked \in BOOLEAN
  /\ faults \in Nat

(* remote-support.service.ts:37: a device has one open session.  A second one *)
(* opens only when a request that had found none was outrun by another, or    *)
(* when the agent reports on a session it took before that one was closed.    *)
SecondOpening ==
  \A s \in Open' \ Open : Open # {} =>
    \/ \E o \in Openers : opening[o] = "raced" /\ opening'[o] = "idle"
    \/ s \in Held
SecondOpensOnlyByRace == [][SecondOpening]_vars

(* A session is active only with consent and a start time, whatever order     *)
(* consent, status, cleanup, ending and revocation come in: the cleanup of    *)
(* sessions "stuck in connecting state" has nothing to do.                    *)
ActiveIsConsented ==
  \A s \in Sessions : session[s].status = "active" => session[s].consent /\ session[s].started

(* A device that is not for ever being revoked answers: a pending session is  *)
(* accepted, refused, ended or expired.  Nobody expires sessions by itself,   *)
(* so this is the agent's doing.                                              *)
PendingIsAnswered ==
  <>[](~revoked) =>
    \A s \in Sessions : []<>(session[s].status # "pending")

(* The device's work as a client of the gateway sees it. *)
Phase(v) == CASE v = "none" -> "none" [] v = "pending" -> "asked"
              [] v = "active" -> "working" [] OTHER -> "closed"
Orders == INSTANCE DeviceCommands WITH
  Commands <- Sessions, phase <- [s \in Sessions |-> Phase(session[s].status)], held <- Held

(* RemoteSupport implements DeviceCommands: a session that was closed is      *)
(* active again only through an agent that had it in hand when it was open.   *)
ImplementsCommands == Orders!Spec
=============================================================================

--------------------------------- MODULE Mfa ---------------------------------
(* The second factor of one user (mfa.service.ts, recovery-codes.service.ts,   *)
(* and the challenge at login, auth.service.ts).  Every operation but the use  *)
(* of a recovery code reads the user first and writes later, without looking   *)
(* again.                                                                      *)
(*                                                                             *)
(* Abstracted: a code of the authenticator is the secret it was made from; the *)
(* password is right; a session minted at login leaves nothing here.           *)
EXTENDS Integers, FiniteSets, SecondFactor

CONSTANTS
  Requests,    \* of the user, concurrently
  Codes,       \* which recovery code of a set (10 in the code)
  MaxIssued,   \* bound: secrets and sets of recovery codes handed out
  None

VARIABLES
  request,     \* of each request: where it is, and the secret or code it uses
  issued       \* how many secrets and sets were handed out, which numbers them

vars == <<user, request, issued, proven, spent, mixed, leftover>>

(* Secret 0 was stored before secrets were encrypted. *)
Secrets == 0..MaxIssued
RecoveryCodes == (1..MaxIssued) \X Codes
Idle == [pc |-> "idle", secret |-> None, code |-> None]

Init ==
  /\ \E on \in BOOLEAN, s \in {None, 0} :
       /\ on => s = 0
       /\ user = [on |-> on, secret |-> s, codes |-> {}]
       /\ proven = IF on THEN {0} ELSE {}
  /\ request = [r \in Requests |-> Idle]
  /\ issued = 0
  /\ spent = [c \in RecoveryCodes |-> 0]
  /\ mixed = FALSE /\ leftover = FALSE

At(r, pc) == request[r].pc = pc
Some(pc) == \E r \in Requests : At(r, pc)
Goto(r, pc, s, c) == request' = [request EXCEPT ![r] = [pc |-> pc, secret |-> s, code |-> c]]
Return(r) == request' = [request EXCEPT ![r] = Idle]
Issue == issued < MaxIssued /\ issued' = issued + 1

-----------------------------------------------------------------------------
(* Mutant of BeginEnroll: one may enrol again while MFA is enabled. *)
BeginEnrollAgain(r) ==
  /\ At(r, "idle")
  /\ Goto(r, "enroll", None, None)
  /\ UNCHANGED <<user, issued, proven, spent, mixed, leftover>>

(* enroll *)
BeginEnroll(r) ==
  /\ At(r, "idle") /\ ~user.on
  /\ Goto(r, "enroll", None, None)
  /\ UNCHANGED <<user, issued, proven, spent, mixed, leftover>>

Enroll(r) ==
  /\ At(r, "enroll") /\ Issue
  /\ user' = [user EXCEPT !.secret = issued + 1]
  /\ mixed' = (mixed \/ Some("enable"))
  /\ Return(r)
  /\ UNCHANGED <<proven, spent, leftover>>

(* verify: the user shows a code of the secret that is stored. *)
Verify(r) ==
  /\ At(r, "idle") /\ ~user.on /\ user.secret # None
  /\ proven' = proven \cup {user.secret}
  /\ Goto(r, "enable", user.secret, None)
  /\ UNCHANGED <<user, issued, spent, mixed, leftover>>

(* A secret in the old format is written again, encrypted. *)
Enable(r) ==
  /\ At(r, "enable")
  /\ user' = [user EXCEPT !.on = TRUE, !.secret = IF request[r].secret = 0 THEN 0 ELSE @]
  /\ mixed' = (mixed \/ Some("enroll"))
  /\ Return(r)
  /\ UNCHANGED <<issued, proven, spent, leftover>>

(* What a request that needs MFA enabled and a code of its secret begins with; *)
(* the password is verified after the user was read.                           *)
Begin(r, pc) ==
  /\ At(r, "idle") /\ user.on /\ user.secret # None
  /\ Goto(r, pc, user.secret, None)
  /\ UNCHANGED <<user, issued, proven, spent, mixed, leftover>>

(* disableMfaAtomic *)
Cleared ==
  /\ user' = [on |-> FALSE, secret |-> None, codes |-> {}]
  /\ mixed' = Some("enable") /\ leftover' = Some("generate")

Disable(r) ==
  /\ At(r, "disable")
  /\ Cleared /\ Return(r)
  /\ UNCHANGED <<issued, proven, spent>>

(* generate, of the first set or the next *)
Generate(r) ==
  /\ At(r, "generate") /\ Issue
  /\ user' = [user EXCEPT !.codes = {issued + 1} \X Codes]
  /\ Return(r)
  /\ UNCHANGED <<proven, spent, mixed, leftover>>

(* A recovery code, of whichever set was handed out, instead of the           *)
(* authenticator's.                                                           *)
BeginByCode(r, pc) ==
  /\ At(r, "idle") /\ user.on /\ user.secret # None
  /\ \E c \in (1..issued) \X Codes : Goto(r, pc, None, c)
  /\ UNCHANGED <<user, issued, proven, spent, mixed, leftover>>

(* consume locks the user's row for the rest of the transaction, in which the  *)
(* session is minted or MFA disabled.                                          *)
Spend(r) == spent' = [spent EXCEPT ![request[r].code] = @ + 1]

(* Mutant of Consumed: the code stays in the set. *)
ConsumedNot(c) == user' = user
Consumed(c) == user' = [user EXCEPT !.codes = @ \ {c}]

LoginByCode(r) ==
  /\ At(r, "login by code") /\ request[r].code \in user.codes
  /\ Consumed(request[r].code)
  /\ Spend(r) /\ Return(r)
  /\ UNCHANGED <<issued, proven, mixed, leftover>>

DisableByCode(r) ==
  /\ At(r, "disable by code") /\ request[r].code \in user.codes
  /\ Cleared /\ Spend(r) /\ Return(r)
  /\ UNCHANGED <<issued, proven>>

(* The code is not, or no longer, in the set; the gateway stops, a statement   *)
(* fails, and the transaction is undone.                                       *)
Fail(r) ==
  /\ ~At(r, "idle")
  /\ Return(r)
  /\ UNCHANGED <<user, issued, proven, spent, mixed, leftover>>

Next == \E r \in Requests :
  \/ BeginEnroll(r) \/ Enroll(r) \/ Verify(r) \/ Enable(r)
  \/ Begin(r, "disable") \/ Disable(r) \/ Begin(r, "generate") \/ Generate(r)
  \/ BeginByCode(r, "login by code") \/ LoginByCode(r)
  \/ BeginByCode(r, "disable by code") \/ DisableByCode(r)
  \/ Fail(r)

Spec == Init /\ [][Next]_vars

-----------------------------------------------------------------------------
(* Types of the user and the requests. *)
TypeOK ==
  /\ user \in [on : BOOLEAN, secret : Secrets \cup {None}, codes : SUBSET RecoveryCodes]
  /\ request \in [Requests -> [pc : {"idle", "enroll", "enable", "disable", "generate",
                                     "login by code", "disable by code"},
                               secret : Secrets \cup {None}, code : RecoveryCodes \cup {None}]]
  /\ issued \in 0..MaxIssued /\ proven \in SUBSET Secrets
  /\ spent \in [RecoveryCodes -> Nat]
  /\ mixed \in BOOLEAN /\ leftover \in BOOLEAN
=============================================================================

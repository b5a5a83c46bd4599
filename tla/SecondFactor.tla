----------------------------- MODULE SecondFactor -----------------------------
(* What the second factor of a user promises, stated of the user's row and of  *)
(* the histories alone; Mfa says how they come about.                          *)
EXTENDS Integers

VARIABLES
  user,        \* isMfaEnabled, mfaSecret and mfaBackupCodes
  proven,      \* history: secrets of which a code was verified
  spent,       \* history: how often each recovery code was accepted
  mixed,       \* history: an enrolment and an enabling overlapped, or an
               \* enabling and a disabling
  leftover     \* history: codes were being made when MFA was disabled

(* mfa.service.ts:101, "possession of the secret was just proven": the secret  *)
(* that logins of a user with MFA enabled are checked against is one that the  *)
(* user's authenticator has shown to hold, unless an enrolment or a disabling  *)
(* overlapped the enabling.                                                    *)
EnabledIsProven == user.on => user.secret \in proven \/ mixed

(* mfa.service.ts:263, "never retains ... unused recovery codes": recovery     *)
(* codes were made for the MFA that is enabled, and each is accepted once;     *)
(* a set that was being made while MFA was disabled outlives it.               *)
CodesOfEnrolment ==
  /\ \A c \in user.codes : (user.on /\ (mixed \/ c[1] > user.secret)) \/ leftover
  /\ \A c \in DOMAIN spent : spent[c] <= 1
===============================================================================

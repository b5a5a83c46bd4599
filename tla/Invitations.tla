---------------------------- MODULE Invitations -----------------------------
(***************************************************************************)
(* Invitations to an organization (invitations.service.ts): created,       *)
(* resent, revoked and accepted by requests that read a row, decide, and   *)
(* write it by id in a later statement.                                    *)
(*                                                                         *)
(* Abstracted: an invitee is one email in one organization; who may invite *)
(* or manage which role; a token presented by another user than the        *)
(* invitee, which is refused after the same reads.  Tokens are numbered in *)
(* the order they are generated; only the last one of a row finds it.      *)
(***************************************************************************)
EXTENDS Integers, FiniteSets

CONSTANTS
  Invitees,      \* emails, each in one organization
  Invitations,   \* identities of OrganizationInvitation rows
  Requests,      \* requests in flight
  MaxTokens, MaxRemovals,  \* bounds: tokens generated, members removed
  None           \* null

ASSUME BoundAssumption == {MaxTokens, MaxRemovals} \subseteq Nat
ASSUME NoneAssumption == None \notin Invitees \cup Invitations

VARIABLES
  invitation,   \* the OrganizationInvitation table
  member,       \* invitees who are members of their organization
  request,      \* requests in flight
  issued, removals,  \* counts: tokens generated, members removed
  admitted,     \* history: the tokens each invitation admitted its invitee by
  stale,        \* history: rows overwritten after a change the writer had not seen
  late          \* history: rows that admitted by a token found already expired

history == <<admitted, stale, late>>
vars == <<invitation, member, request, issued, removals, history>>

(* live: expiresAt, seven days after the token was generated, is not over *)
Row == [st : {"FREE", "PENDING", "ACCEPTED", "REVOKED", "EXPIRED"},
        of : Invitees \cup {None}, tok : 0..MaxTokens, live : BOOLEAN]
NoRow == [st |-> "FREE", of |-> None, tok |-> 0, live |-> FALSE]

(* A request: the invitee of a creation, the row it works on, the row's    *)
(* status and token when it was read, and whether it had expired           *)
Idle == [pc |-> "idle", to |-> None, row |-> None, st |-> "FREE", tok |-> 0,
         expired |-> FALSE]
Request ==
  [pc : {"idle", "find", "insert", "regenerate", "revoke", "resend",
         "expire", "member", "commit"},
   to : Invitees \cup {None}, row : Invitations \cup {None},
   st : {"FREE", "PENDING", "ACCEPTED", "REVOKED", "EXPIRED"},
   tok : 0..MaxTokens, expired : BOOLEAN]

TypeOK ==
  /\ invitation \in [Invitations -> Row]
  /\ member \in SUBSET Invitees
  /\ request \in [Requests -> Request]
  /\ issued \in 0..MaxTokens /\ removals \in 0..MaxRemovals
  /\ admitted \in [Invitations -> SUBSET (0..MaxTokens)]
  /\ {stale, late} \subseteq SUBSET Invitations

Init ==
  /\ invitation = [n \in Invitations |-> NoRow]
  /\ member = {}
  /\ request = [r \in Requests |-> Idle]
  /\ issued = 0 /\ removals = 0
  /\ admitted = [n \in Invitations |-> {}]
  /\ stale = {} /\ late = {}

-----------------------------------------------------------------------------
(* The table *)

Exists(n) == invitation[n].st # "FREE"
Pending(i) == {n \in Invitations : invitation[n].of = i /\ invitation[n].st = "PENDING"}

(* Mutant of MayBePending: the migration without its partial unique index *)
MayBePendingAlways(n, i) == TRUE

(* The partial unique index on (organizationId, email) WHERE PENDING *)
MayBePending(n, i) == Pending(i) \subseteq {n}

Step(r, next) == request' = [request EXCEPT ![r] = next]
Done(r) == Step(r, Idle)

(* Row n as request r read it *)
At(r, pc, n) ==
  Step(r, [Idle EXCEPT !.pc = pc, !.row = n, !.st = invitation[n].st,
                       !.tok = invitation[n].tok, !.expired = ~invitation[n].live])

(* prisma.organizationInvitation.update by id *)
Update(r, row) ==
  LET n == request[r].row IN
  /\ invitation' = [invitation EXCEPT ![n] = row]
  /\ stale' = IF invitation[n].st = request[r].st /\ invitation[n].tok = request[r].tok
                THEN stale ELSE stale \cup {n}

(* generateInvitationToken; only its hash is stored *)
NewToken == issued < MaxTokens /\ issued' = issued + 1

-----------------------------------------------------------------------------
(* createInvitation *)

CreateCheck(r, i) ==
  /\ request[r].pc = "idle" /\ i \notin member
  /\ Step(r, [Idle EXCEPT !.pc = "find", !.to = i])
  /\ UNCHANGED <<invitation, member, issued, removals, history>>

(* A live invitation is returned unchanged, an expired one regenerated *)
CreateFind(r) ==
  /\ request[r].pc = "find"
  /\ \/ /\ Pending(request[r].to) = {}
        /\ Step(r, [request[r] EXCEPT !.pc = "insert"])
     \/ \E n \in Pending(request[r].to) :
          IF invitation[n].live THEN Done(r) ELSE At(r, "regenerate", n)
  /\ UNCHANGED <<invitation, member, issued, removals, history>>

(* The index refuses a second pending row: the request throws *)
Insert(r) ==
  LET i == request[r].to IN
  /\ request[r].pc = "insert"
  /\ \/ \E n \in Invitations :
          /\ ~Exists(n) /\ MayBePending(n, i)
          /\ NewToken
          /\ invitation' = [invitation EXCEPT ![n] =
                              [st |-> "PENDING", of |-> i, tok |-> issued', live |-> TRUE]]
     \/ Pending(i) # {} /\ UNCHANGED <<invitation, issued>>
  /\ Done(r)
  /\ UNCHANGED <<member, removals, history>>

(* Token and expiry are written, the status is not *)
Regenerate(r) ==
  /\ request[r].pc = "regenerate" /\ NewToken
  /\ Update(r, [invitation[request[r].row] EXCEPT !.tok = issued', !.live = TRUE])
  /\ Done(r)
  /\ UNCHANGED <<member, removals, admitted, late>>

-----------------------------------------------------------------------------
(* revokeInvitation, resendInvitation *)

RevokeRead(r, n) ==
  /\ request[r].pc = "idle" /\ invitation[n].st \in {"PENDING", "EXPIRED"}
  /\ At(r, "revoke", n)
  /\ UNCHANGED <<invitation, member, issued, removals, history>>

Revoke(r) ==
  /\ request[r].pc = "revoke"
  /\ Update(r, [invitation[request[r].row] EXCEPT !.st = "REVOKED"])
  /\ Done(r)
  /\ UNCHANGED <<member, issued, removals, admitted, late>>

(* Mutant of ResendRead: an accepted invitation is not refused *)
ResendReadAny(r, n) ==
  /\ request[r].pc = "idle" /\ invitation[n].st \in {"PENDING", "EXPIRED", "ACCEPTED"}
  /\ At(r, "resend", n)
  /\ UNCHANGED <<invitation, member, issued, removals, history>>

ResendRead(r, n) ==
  /\ request[r].pc = "idle" /\ invitation[n].st \in {"PENDING", "EXPIRED"}
  /\ At(r, "resend", n)
  /\ UNCHANGED <<invitation, member, issued, removals, history>>

(* PENDING again with a new token, unless the index refuses it *)
Resend(r) ==
  LET n == request[r].row
      i == invitation[n].of IN
  /\ request[r].pc = "resend"
  /\ \/ /\ MayBePending(n, i) /\ NewToken
        /\ Update(r, [st |-> "PENDING", of |-> i, tok |-> issued', live |-> TRUE])
     \/ /\ ~(Pending(i) \subseteq {n})
        /\ UNCHANGED <<invitation, issued, stale>>
  /\ Done(r)
  /\ UNCHANGED <<member, removals, admitted, late>>

-----------------------------------------------------------------------------
(* acceptInvitation *)

(* The row is found by its token.  A pending one that expired is to be     *)
(* marked and refused, an accepted or revoked one is refused.              *)
AcceptLookup(r, n) ==
  /\ request[r].pc = "idle" /\ invitation[n].st \in {"PENDING", "EXPIRED"}
  /\ At(r, IF invitation[n].st = "PENDING" /\ ~invitation[n].live
             THEN "expire" ELSE "member", n)
  /\ UNCHANGED <<invitation, member, issued, removals, history>>

MarkExpired(r) ==
  /\ request[r].pc = "expire"
  /\ Update(r, [invitation[request[r].row] EXCEPT !.st = "EXPIRED"])
  /\ Done(r)
  /\ UNCHANGED <<member, issued, removals, admitted, late>>

AcceptMember(r) ==
  /\ request[r].pc = "member"
  /\ IF invitation[request[r].row].of \in member THEN Done(r)
     ELSE Step(r, [request[r] EXCEPT !.pc = "commit"])
  /\ UNCHANGED <<invitation, member, issued, removals, history>>

(* The transaction's new membership *)
Admit(r) ==
  LET n == request[r].row IN
  /\ member' = member \cup {invitation[n].of}
  /\ admitted' = [admitted EXCEPT ![n] = @ \cup {request[r].tok}]
  /\ late' = IF request[r].expired THEN late \cup {n} ELSE late

(* Mutant of AcceptCommit: the invitation is not consumed *)
AcceptReusable(r) ==
  /\ request[r].pc = "commit"
  /\ \/ /\ invitation[request[r].row].of \notin member
        /\ Admit(r) /\ UNCHANGED <<invitation, stale>>
     \/ /\ invitation[request[r].row].of \in member
        /\ UNCHANGED <<invitation, member, history>>
  /\ Done(r)
  /\ UNCHANGED <<issued, removals>>

(* Membership and status in one transaction; the unique (userId, orgId) of *)
(* memberships rolls it back.  The status is not asked again.              *)
AcceptCommit(r) ==
  LET n == request[r].row IN
  /\ request[r].pc = "commit"
  /\ \/ /\ invitation[n].of \notin member
        /\ Admit(r)
        /\ Update(r, [invitation[n] EXCEPT !.st = "ACCEPTED"])
     \/ invitation[n].of \in member /\ UNCHANGED <<invitation, member, history>>
  /\ Done(r)
  /\ UNCHANGED <<issued, removals>>

-----------------------------------------------------------------------------
(* A member leaves or is removed (OrgMembership) *)
Remove(i) ==
  /\ i \in member /\ removals < MaxRemovals
  /\ member' = member \ {i} /\ removals' = removals + 1
  /\ UNCHANGED <<invitation, request, issued, history>>

(* Seven days pass *)
Expire(n) ==
  /\ invitation[n].live
  /\ invitation' = [invitation EXCEPT ![n].live = FALSE]
  /\ UNCHANGED <<member, request, issued, removals, history>>

Next ==
  \/ \E r \in Requests :
       \/ \E i \in Invitees : CreateCheck(r, i)
       \/ CreateFind(r) \/ Insert(r) \/ Regenerate(r)
       \/ \E n \in Invitations : RevokeRead(r, n) \/ ResendRead(r, n) \/ AcceptLookup(r, n)
       \/ Revoke(r) \/ Resend(r)
       \/ MarkExpired(r) \/ AcceptMember(r) \/ AcceptCommit(r)
  \/ \E i \in Invitees : Remove(i)
  \/ \E n \in Invitations : Expire(n)

Spec == Init /\ [][Next]_vars

-----------------------------------------------------------------------------
(* Properties *)

(* "At most one PENDING invitation may exist per (organization, email)"    *)
(* (migration 20260808000000): creations, regenerations and resends of any *)
(* number of rows leave one.                                               *)
OnePending == \A i \in Invitees : Cardinality(Pending(i)) <= 1

(* acceptInvitation admits once, by the row's last token, and exactly the  *)
(* accepted rows have admitted - unless a request overwrote a change of    *)
(* the row it had not seen.                                                *)
ConsumedOnce ==
  \A n \in Invitations \ stale :
    admitted[n] = IF invitation[n].st = "ACCEPTED" THEN {invitation[n].tok} ELSE {}

(* An invitation accepted or revoked stays so: only a request that read it *)
(* before can bring it back.                                               *)
FinalStatus ==
  [][\A n \in Invitations :
       invitation[n].st \in {"ACCEPTED", "REVOKED"} /\ n \notin stale' =>
         invitation'[n].st = invitation[n].st]_vars

(* An expired token admits nobody: "expired/revoked/accepted/replay        *)
(* denied" (docs/v1/V1-TEAM-01, line 41).                                  *)
ExpiredStaysOut == late = {}
=============================================================================

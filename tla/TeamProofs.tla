---------------------------- MODULE TeamProofs -----------------------------
(***************************************************************************)
(* Proofs about Invitations, for any invitees, rows, requests and bounds,  *)
(* and, from "The knowledge base of a team" on, about KnowledgeBase, for   *)
(* any texts, requests, slots and bounds.                                  *)
(***************************************************************************)
EXTENDS Invitations, ArticleEmbeddings, FiniteSetTheorems, TLAPS

(* What a request in flight knows: the row it read existed, neither        *)
(* accepted nor revoked.                                                   *)
Reading == {"regenerate", "revoke", "resend", "expire", "member", "commit"}
Known ==
  \A r \in Requests :
    /\ request[r].pc \in {"find", "insert"} => request[r].to \in Invitees
    /\ request[r].pc \in Reading =>
         /\ request[r].row \in Invitations /\ Exists(request[r].row)
         /\ request[r].st \in {"PENDING", "EXPIRED"}

Addressed == \A n \in Invitations : Exists(n) => invitation[n].of \in Invitees

(* OnePending without counting *)
Unique == \A i \in Invitees : \A m, n \in Pending(i) : m = n

IInv == TypeOK /\ Known /\ Addressed /\ Unique /\ ConsumedOnce

-----------------------------------------------------------------------------
(* Steps of a request *)

LEMMA IdleTyped == Idle \in Request /\ Idle.pc = "idle"
BY BoundAssumption DEF Idle, Request

LEMMA StepTyped ==
  ASSUME TypeOK, NEW r \in Requests, NEW x \in Request, Step(r, x)
  PROVE  /\ request' \in [Requests -> Request]
         /\ request'[r] = x
         /\ \A q \in Requests \ {r} : request'[q] = request[q]
BY DEF TypeOK, Step

LEMMA AtTyped ==
  ASSUME TypeOK, NEW r \in Requests, NEW n \in Invitations,
         NEW pc \in Reading, At(r, pc, n)
  PROVE  /\ request' \in [Requests -> Request]
         /\ request'[r].pc = pc /\ request'[r].row = n
         /\ request'[r].st = invitation[n].st
         /\ \A q \in Requests \ {r} : request'[q] = request[q]
<1> DEFINE x == [Idle EXCEPT !.pc = pc, !.row = n, !.st = invitation[n].st,
                             !.tok = invitation[n].tok, !.expired = ~invitation[n].live]
<1>1. x \in Request /\ x.pc = pc /\ x.row = n /\ x.st = invitation[n].st
  BY DEF Idle, Request, TypeOK, Row, Reading
<1>2. Step(r, x)
  BY DEF At
<1> QED
  BY <1>1, <1>2, StepTyped

(* A request that ends, or goes on knowing what it must, keeps Known. *)
LEMMA KnownStep ==
  ASSUME Known, NEW r \in Requests,
         \A q \in Requests \ {r} : request'[q] = request[q],
         \A n \in Invitations : Exists(n) => Exists(n)',
         request'[r].pc \in {"find", "insert"} => request'[r].to \in Invitees,
         request'[r].pc \in Reading =>
           /\ request'[r].row \in Invitations /\ Exists(request'[r].row)
           /\ request'[r].st \in {"PENDING", "EXPIRED"}
  PROVE  Known'
<1> SUFFICES ASSUME NEW q \in Requests
             PROVE  (/\ request[q].pc \in {"find", "insert"} => request[q].to \in Invitees
                     /\ request[q].pc \in Reading =>
                          /\ request[q].row \in Invitations /\ Exists(request[q].row)
                          /\ request[q].st \in {"PENDING", "EXPIRED"})'
  BY DEF Known
<1>1. CASE q = r
  BY <1>1 DEF Exists
<1>2. CASE q # r
  BY <1>2 DEF Known, Exists
<1> QED
  BY <1>1, <1>2

-----------------------------------------------------------------------------
(* Writes *)

(* A row written by a request that had not seen its last change is stale. *)
LEMMA UpdateSeen ==
  ASSUME TypeOK, NEW r \in Requests, NEW row, Update(r, row),
         request[r].row \in Invitations
  PROVE  /\ invitation'[request[r].row] = row
         /\ \A n \in Invitations \ {request[r].row} : invitation'[n] = invitation[n]
         /\ stale \subseteq stale' /\ stale' \subseteq stale \cup {request[r].row}
         /\ request[r].row \notin stale' =>
              /\ invitation[request[r].row].st = request[r].st
              /\ invitation[request[r].row].tok = request[r].tok
BY DEF TypeOK, Update

LEMMA UpdateTyped ==
  ASSUME TypeOK, NEW r \in Requests, NEW row \in Row, Update(r, row),
         request[r].row \in Invitations
  PROVE  invitation' \in [Invitations -> Row] /\ stale' \in SUBSET Invitations
BY DEF TypeOK, Update

(* A write keeps the table's invariants when the new row exists, is for    *)
(* the same invitee, and is pending only if no other row is.               *)
LEMMA TableStep ==
  ASSUME TypeOK, Addressed, Unique, NEW n \in Invitations, NEW i \in Invitees,
         \A m \in Invitations \ {n} : invitation'[m] = invitation[m],
         invitation'[n].st # "FREE", invitation'[n].of = i,
         invitation'[n].st = "PENDING" => Pending(i) \subseteq {n}
  PROVE  /\ Addressed' /\ Unique'
         /\ \A m \in Invitations : Exists(m) => Exists(m)'
<1>1. Addressed' /\ \A m \in Invitations : Exists(m) => Exists(m)'
  BY DEF Addressed, Exists
<1>2. ASSUME NEW j \in Invitees, NEW l \in Pending(j)', NEW m \in Pending(j)'
      PROVE  l = m
  <2>1. l \in Invitations /\ m \in Invitations
    BY DEF Pending
  <2>2. CASE l # n /\ m # n
    BY <2>1, <2>2 DEF Unique, Pending
  <2>3. CASE l = n \/ m = n
    <3>1. j = i /\ invitation'[n].st = "PENDING"
      BY <2>3 DEF Pending
    <3>2. Pending(i)' \subseteq {n}
      BY <3>1 DEF Pending
    <3> QED
      BY <3>1, <3>2
  <2> QED
    BY <2>2, <2>3
<1> QED
  BY <1>1, <1>2 DEF Unique

(* A pending row is the only one. *)
LEMMA PendingAlone ==
  ASSUME Unique, Addressed, NEW n \in Invitations, invitation[n].st = "PENDING"
  PROVE  Pending(invitation[n].of) \subseteq {n}
<1>1. invitation[n].of \in Invitees
  BY DEF Addressed, Exists
<1> QED
  BY <1>1 DEF Unique, Pending

(* Consumption survives a write that leaves the admissions alone. *)
LEMMA ConsumedWrite ==
  ASSUME TypeOK, Known, ConsumedOnce, NEW r \in Requests, NEW row, Update(r, row),
         request[r].pc \in Reading, row.st # "ACCEPTED",
         UNCHANGED admitted
  PROVE  ConsumedOnce'
<1> DEFINE w == request[r].row
<1>1. w \in Invitations /\ request[r].st \in {"PENDING", "EXPIRED"}
  BY DEF Known
<1> SUFFICES ASSUME NEW n \in Invitations, n \notin stale'
             PROVE  admitted'[n] = IF invitation'[n].st = "ACCEPTED"
                                     THEN {invitation'[n].tok} ELSE {}
  BY DEF ConsumedOnce
<1>2. n \notin stale
  BY <1>1, UpdateSeen
<1>3. CASE n = w
  <2>1. invitation[n].st \in {"PENDING", "EXPIRED"} /\ invitation'[n] = row
    BY <1>1, <1>3, UpdateSeen
  <2> QED
    BY <1>2, <2>1 DEF ConsumedOnce
<1>4. CASE n # w
  BY <1>1, <1>2, <1>4, UpdateSeen DEF ConsumedOnce
<1> QED
  BY <1>3, <1>4

-----------------------------------------------------------------------------
THEOREM InitInv == Init => IInv
<1> SUFFICES ASSUME Init PROVE IInv
  OBVIOUS
<1>1. TypeOK
  BY BoundAssumption, IdleTyped DEF Init, TypeOK, Row, NoRow
<1>2. Known
  BY DEF Init, Known, Idle, Reading
<1>3. Addressed /\ Unique /\ ConsumedOnce
  BY DEF Init, Addressed, Unique, ConsumedOnce, Exists, Pending, NoRow
<1> QED
  BY <1>1, <1>2, <1>3 DEF IInv

(* A step that writes no row and ends or moves one request *)
LEMMA ReadStep ==
  ASSUME IInv, NEW r \in Requests,
         UNCHANGED <<invitation, member, issued, removals, history>>,
         request' \in [Requests -> Request],
         \A q \in Requests \ {r} : request'[q] = request[q],
         request'[r].pc \in {"find", "insert"} => request'[r].to \in Invitees,
         request'[r].pc \in Reading =>
           /\ request'[r].row \in Invitations /\ Exists(request'[r].row)
           /\ request'[r].st \in {"PENDING", "EXPIRED"}
  PROVE  IInv'
<1>1. TypeOK'
  BY DEF IInv, TypeOK, history
<1>2. Known'
  BY KnownStep DEF IInv, Exists
<1>3. Addressed' /\ Unique' /\ ConsumedOnce'
  BY DEF IInv, history, Addressed, Unique, ConsumedOnce, Exists, Pending
<1> QED
  BY <1>1, <1>2, <1>3 DEF IInv

(* A step that writes one row and ends its request *)
LEMMA WriteStep ==
  ASSUME IInv, NEW r \in Requests, request[r].pc \in Reading, Done(r),
         NEW row \in Row, Update(r, row),
         row.st # "FREE", row.st # "ACCEPTED", row.of = invitation[request[r].row].of,
         row.st = "PENDING" => Pending(row.of) \subseteq {request[r].row},
         UNCHANGED <<member, removals, admitted, late>>,
         issued' \in 0..MaxTokens
  PROVE  IInv'
<1> USE DEF IInv
<1> DEFINE n == request[r].row
<1>1. n \in Invitations /\ Exists(n) /\ row.of \in Invitees
  BY DEF Known, Addressed
<1>2. request' \in [Requests -> Request] /\ request'[r] = Idle
      /\ \A q \in Requests \ {r} : request'[q] = request[q]
  BY IdleTyped, StepTyped DEF Done
<1>3. TypeOK'
  BY <1>1, <1>2, UpdateTyped DEF TypeOK
<1>4. Addressed' /\ Unique' /\ \A m \in Invitations : Exists(m) => Exists(m)'
  BY <1>1, UpdateSeen, TableStep
<1>5. Known'
  BY <1>2, <1>4, KnownStep, IdleTyped DEF Reading
<1>6. ConsumedOnce'
  BY ConsumedWrite
<1> QED
  BY <1>3, <1>4, <1>5, <1>6

THEOREM NextInv == IInv /\ [Next]_vars => IInv'
<1> SUFFICES ASSUME IInv, [Next]_vars PROVE IInv'
  OBVIOUS
<1> USE DEF IInv
<1>1. ASSUME NEW r \in Requests, NEW i \in Invitees, CreateCheck(r, i) PROVE IInv'
  <2> DEFINE x == [Idle EXCEPT !.pc = "find", !.to = i]
  <2>1. x \in Request /\ x.pc = "find" /\ x.to = i
    BY IdleTyped DEF Request
  <2>2. request' \in [Requests -> Request] /\ request'[r] = x
        /\ \A q \in Requests \ {r} : request'[q] = request[q]
    BY <1>1, <2>1, StepTyped DEF CreateCheck
  <2>3. request'[r].to \in Invitees /\ request'[r].pc \notin Reading
    BY <2>1, <2>2 DEF Reading
  <2>4. UNCHANGED <<invitation, member, issued, removals, history>>
    BY <1>1 DEF CreateCheck
  <2> HIDE DEF x
  <2> QED
    BY <2>2, <2>3, <2>4, ReadStep
<1>2. ASSUME NEW r \in Requests, CreateFind(r) PROVE IInv'
  <2>1. request[r].to \in Invitees /\ request[r] \in Request
    BY <1>2 DEF CreateFind, Known, TypeOK
  <2>2. CASE Step(r, [request[r] EXCEPT !.pc = "insert"])
    <3> DEFINE x == [request[r] EXCEPT !.pc = "insert"]
    <3>1. x \in Request /\ x.pc = "insert" /\ x.to \in Invitees
      BY <2>1 DEF Request
    <3>2. request' \in [Requests -> Request] /\ request'[r] = x
          /\ \A q \in Requests \ {r} : request'[q] = request[q]
      BY <2>2, <3>1, StepTyped
    <3> QED
      BY <1>2, <3>1, <3>2, ReadStep DEF CreateFind, Reading
  <2>3. CASE Done(r)
    <3>1. request' \in [Requests -> Request] /\ request'[r] = Idle
          /\ \A q \in Requests \ {r} : request'[q] = request[q]
      BY <2>3, IdleTyped, StepTyped DEF Done
    <3> QED
      BY <1>2, <3>1, ReadStep, IdleTyped DEF CreateFind, Reading
  <2>4. ASSUME NEW n \in Pending(request[r].to), At(r, "regenerate", n) PROVE IInv'
    <3>1. n \in Invitations /\ invitation[n].st = "PENDING"
      BY DEF Pending
    <3> QED
      BY <1>2, <2>4, <3>1, AtTyped, ReadStep DEF CreateFind, Reading, Exists
  <2> QED
    BY <1>2, <2>2, <2>3, <2>4 DEF CreateFind
<1>3. ASSUME NEW r \in Requests, Insert(r) PROVE IInv'
  <2> DEFINE i == request[r].to
  <2>1. i \in Invitees
    BY <1>3 DEF Insert, Known
  <2>2. request' \in [Requests -> Request] /\ request'[r] = Idle
        /\ \A q \in Requests \ {r} : request'[q] = request[q]
    BY <1>3, IdleTyped, StepTyped DEF Insert, Done
  <2>3. CASE UNCHANGED <<invitation, issued>>
    BY <1>3, <2>2, <2>3, ReadStep, IdleTyped DEF Insert, Reading, history
  <2>4. ASSUME NEW n \in Invitations, ~Exists(n), MayBePending(n, i), NewToken,
               invitation' = [invitation EXCEPT ![n] =
                 [st |-> "PENDING", of |-> i, tok |-> issued', live |-> TRUE]]
        PROVE  IInv'
    <3>1. issued' \in 0..MaxTokens
      BY <2>4, BoundAssumption DEF NewToken, TypeOK
    <3>2. invitation' \in [Invitations -> Row]
      BY <2>1, <2>4, <3>1 DEF TypeOK, Row
    <3>3. TypeOK'
      BY <1>3, <2>2, <3>1, <3>2 DEF Insert, TypeOK, history
    <3>4. /\ \A m \in Invitations \ {n} : invitation'[m] = invitation[m]
          /\ invitation'[n].st = "PENDING" /\ invitation'[n].of = i
      BY <2>4 DEF TypeOK
    <3>5. Addressed' /\ Unique' /\ \A m \in Invitations : Exists(m) => Exists(m)'
      BY <2>1, <2>4, <3>4, TableStep DEF MayBePending
    <3>6. Known'
      BY <2>2, <3>5, KnownStep, IdleTyped DEF Reading
    <3>7. ConsumedOnce'
      BY <1>3, <2>4, <3>4 DEF Insert, ConsumedOnce, Exists, history
    <3> QED
      BY <3>3, <3>5, <3>6, <3>7
  <2> QED
    BY <1>3, <2>3, <2>4 DEF Insert
<1>4. ASSUME NEW r \in Requests, Regenerate(r) PROVE IInv'
  <2> DEFINE n == request[r].row
             row == [invitation[n] EXCEPT !.tok = issued', !.live = TRUE]
  <2>1. n \in Invitations /\ Exists(n) /\ request[r].pc \in Reading
    BY <1>4 DEF Regenerate, Known, Reading
  <2>2. issued' \in 0..MaxTokens
    BY <1>4, BoundAssumption DEF Regenerate, NewToken, TypeOK
  <2>3. row \in Row /\ row.st = invitation[n].st /\ row.of = invitation[n].of
    BY <2>1, <2>2 DEF TypeOK, Row
  <2>4. CASE invitation[n].st = "ACCEPTED"
    (* regenerated over an acceptance: the row is stale *)
    <3>1. Update(r, row) /\ Done(r) /\ UNCHANGED <<member, removals, admitted, late>>
      BY <1>4 DEF Regenerate
    <3>2. n \in stale' /\ request[r].st \in {"PENDING", "EXPIRED"}
      BY <2>1, <2>4, <3>1, UpdateSeen DEF Known
    <3>3. request' \in [Requests -> Request] /\ request'[r] = Idle
          /\ \A q \in Requests \ {r} : request'[q] = request[q]
      BY <3>1, IdleTyped, StepTyped DEF Done
    <3>4. TypeOK'
      BY <2>1, <2>2, <2>3, <3>1, <3>3, UpdateTyped DEF TypeOK
    <3>5. row.of \in Invitees
      BY <2>1, <2>3 DEF Addressed
    <3>6. Addressed' /\ Unique' /\ \A m \in Invitations : Exists(m) => Exists(m)'
      <4>1. /\ \A m \in Invitations \ {n} : invitation'[m] = invitation[m]
            /\ invitation'[n].st = "ACCEPTED" /\ invitation'[n].of = row.of
        BY <2>1, <2>3, <2>4, <3>1, UpdateSeen
      <4> QED
        BY <2>1, <3>5, <4>1, TableStep
    <3>7. Known'
      BY <3>3, <3>6, KnownStep, IdleTyped DEF Reading
    <3>8. ConsumedOnce'
      BY <2>1, <3>1, <3>2, UpdateSeen DEF ConsumedOnce
    <3> QED
      BY <3>4, <3>6, <3>7, <3>8
  <2>5. CASE invitation[n].st # "ACCEPTED"
    <3>1. row.st # "FREE"
      BY <2>1, <2>3 DEF Exists
    <3>2. row.st = "PENDING" => Pending(row.of) \subseteq {n}
      BY <2>1, <2>3, PendingAlone
    <3> QED
      BY <1>4, <2>1, <2>2, <2>3, <2>5, <3>1, <3>2, WriteStep DEF Regenerate
  <2> QED
    BY <2>4, <2>5
<1>5. ASSUME NEW r \in Requests, NEW n \in Invitations,
             RevokeRead(r, n) \/ ResendRead(r, n) \/ AcceptLookup(r, n)
      PROVE  IInv'
  <2>1. PICK pc \in Reading : At(r, pc, n)
    BY <1>5 DEF RevokeRead, ResendRead, AcceptLookup, Reading
  <2>2. invitation[n].st \in {"PENDING", "EXPIRED"}
        /\ UNCHANGED <<invitation, member, issued, removals, history>>
    BY <1>5 DEF RevokeRead, ResendRead, AcceptLookup
  <2> QED
    BY <2>1, <2>2, AtTyped, ReadStep DEF Reading, Exists
<1>6. ASSUME NEW r \in Requests, NEW s \in {"REVOKED", "EXPIRED"},
             request[r].pc \in Reading, Done(r),
             Update(r, [invitation[request[r].row] EXCEPT !.st = s]),
             UNCHANGED <<member, issued, removals, admitted, late>>
      PROVE  IInv'
  <2> DEFINE n == request[r].row
             row == [invitation[n] EXCEPT !.st = s]
  <2>1. n \in Invitations /\ issued' \in 0..MaxTokens
    BY <1>6 DEF Known, TypeOK
  <2>2. row \in Row /\ row.st = s /\ row.of = invitation[n].of
    BY <2>1 DEF TypeOK, Row
  <2> QED
    BY <1>6, <2>1, <2>2, WriteStep
<1>7. ASSUME NEW r \in Requests, Revoke(r) PROVE IInv'
  BY <1>6, <1>7 DEF Revoke, Reading
<1>8. ASSUME NEW r \in Requests, MarkExpired(r) PROVE IInv'
  BY <1>6, <1>8 DEF MarkExpired, Reading
<1>9. ASSUME NEW r \in Requests, Resend(r) PROVE IInv'
  <2> DEFINE n == request[r].row
             i == invitation[n].of
             row == [st |-> "PENDING", of |-> i, tok |-> issued', live |-> TRUE]
  <2>1. n \in Invitations /\ request[r].pc \in Reading /\ i \in Invitees
    BY <1>9 DEF Resend, Known, Reading, Addressed
  <2>2. CASE UNCHANGED <<invitation, issued, stale>>
    <3>1. request' \in [Requests -> Request] /\ request'[r] = Idle
          /\ \A q \in Requests \ {r} : request'[q] = request[q]
      BY <1>9, IdleTyped, StepTyped DEF Resend, Done
    <3> QED
      BY <1>9, <2>2, <3>1, ReadStep, IdleTyped DEF Resend, Reading, history
  <2>3. CASE MayBePending(n, i) /\ NewToken /\ Update(r, row)
    <3>1. issued' \in 0..MaxTokens
      BY <2>3, BoundAssumption DEF NewToken, TypeOK
    <3>2. row \in Row
      BY <2>1, <3>1 DEF Row
    <3> QED
      BY <1>9, <2>1, <2>3, <3>1, <3>2, WriteStep DEF Resend, MayBePending
  <2> QED
    BY <1>9, <2>2, <2>3 DEF Resend
<1>10. ASSUME NEW r \in Requests, AcceptMember(r) PROVE IInv'
  <2>1. request[r] \in Request /\ request[r].row \in Invitations
        /\ Exists(request[r].row) /\ request[r].st \in {"PENDING", "EXPIRED"}
    BY <1>10 DEF AcceptMember, Known, Reading, TypeOK
  <2>2. CASE Done(r)
    <3>1. request' \in [Requests -> Request] /\ request'[r] = Idle
          /\ \A q \in Requests \ {r} : request'[q] = request[q]
      BY <2>2, IdleTyped, StepTyped DEF Done
    <3> QED
      BY <1>10, <3>1, ReadStep, IdleTyped DEF AcceptMember, Reading
  <2>3. CASE Step(r, [request[r] EXCEPT !.pc = "commit"])
    <3> DEFINE x == [request[r] EXCEPT !.pc = "commit"]
    <3>1. x \in Request /\ x.pc = "commit" /\ x.row = request[r].row /\ x.st = request[r].st
      BY <2>1 DEF Request
    <3>2. request' \in [Requests -> Request] /\ request'[r] = x
          /\ \A q \in Requests \ {r} : request'[q] = request[q]
      BY <2>3, <3>1, StepTyped
    <3> QED
      BY <1>10, <2>1, <3>1, <3>2, ReadStep DEF AcceptMember
  <2> QED
    BY <1>10, <2>2, <2>3 DEF AcceptMember
<1>11. ASSUME NEW r \in Requests, AcceptCommit(r) PROVE IInv'
  <2> DEFINE n == request[r].row
             row == [invitation[n] EXCEPT !.st = "ACCEPTED"]
  <2>1. n \in Invitations /\ Exists(n) /\ request[r].st \in {"PENDING", "EXPIRED"}
        /\ invitation[n].of \in Invitees
    BY <1>11 DEF AcceptCommit, Known, Reading, Addressed
  <2>2. request' \in [Requests -> Request] /\ request'[r] = Idle
        /\ \A q \in Requests \ {r} : request'[q] = request[q]
    BY <1>11, IdleTyped, StepTyped DEF AcceptCommit, Done
  <2>3. CASE UNCHANGED <<invitation, member, history>>
    BY <1>11, <2>2, <2>3, ReadStep, IdleTyped DEF AcceptCommit, Reading
  <2>4. CASE Admit(r) /\ Update(r, row)
    <3>1. row \in Row /\ row.st = "ACCEPTED" /\ row.of = invitation[n].of
          /\ row.tok = invitation[n].tok
      BY <2>1 DEF TypeOK, Row
    <3>2. TypeOK'
      <4>1. invitation' \in [Invitations -> Row] /\ stale' \in SUBSET Invitations
        BY <2>1, <2>4, <3>1, UpdateTyped
      <4>2. member' \in SUBSET Invitees /\ late' \in SUBSET Invitations
            /\ admitted' \in [Invitations -> SUBSET (0..MaxTokens)]
        <5>1. request[r].tok \in 0..MaxTokens
          BY DEF TypeOK, Request
        <5> QED
          BY <2>1, <2>4, <5>1 DEF Admit, TypeOK
      <4> QED
        BY <1>11, <2>2, <4>1, <4>2 DEF AcceptCommit, TypeOK
    <3>3. Addressed' /\ Unique' /\ \A m \in Invitations : Exists(m) => Exists(m)'
      <4>1. /\ \A m \in Invitations \ {n} : invitation'[m] = invitation[m]
            /\ invitation'[n].st = "ACCEPTED" /\ invitation'[n].of = invitation[n].of
        BY <2>1, <2>4, <3>1, UpdateSeen
      <4> QED
        BY <2>1, <4>1, TableStep
    <3>4. Known'
      BY <2>2, <3>3, KnownStep, IdleTyped DEF Reading
    <3>5. ASSUME NEW m \in Invitations, m \notin stale'
          PROVE  admitted'[m] = IF invitation'[m].st = "ACCEPTED"
                                  THEN {invitation'[m].tok} ELSE {}
      <4>1. m \notin stale
        BY <2>1, <2>4, <3>5, UpdateSeen
      <4>2. CASE m = n
        <5>1. invitation[n].st \in {"PENDING", "EXPIRED"}
              /\ invitation[n].tok = request[r].tok /\ invitation'[n] = row
          BY <2>1, <2>4, <3>5, <4>2, UpdateSeen
        <5>2. admitted[n] = {}
          BY <2>1, <4>1, <4>2, <5>1 DEF ConsumedOnce
        <5>3. admitted'[n] = {request[r].tok}
          BY <2>1, <2>4, <5>2 DEF Admit, TypeOK
        <5> QED
          BY <3>1, <4>2, <5>1, <5>3
      <4>3. CASE m # n
        <5>1. admitted'[m] = admitted[m] /\ invitation'[m] = invitation[m]
          BY <2>1, <2>4, <4>3, UpdateSeen DEF Admit, TypeOK
        <5> QED
          BY <4>1, <5>1 DEF ConsumedOnce
      <4> QED
        BY <4>2, <4>3
    <3> QED
      BY <3>2, <3>3, <3>4, <3>5 DEF ConsumedOnce
  <2> QED
    BY <1>11, <2>3, <2>4 DEF AcceptCommit
<1>12. ASSUME NEW i \in Invitees, Remove(i) PROVE IInv'
  <2>1. TypeOK'
    BY <1>12, BoundAssumption DEF Remove, TypeOK, history
  <2> QED
    BY <1>12, <2>1
    DEF Remove, history, Known, Addressed, Unique, ConsumedOnce, Exists, Pending
<1>13. ASSUME NEW n \in Invitations, Expire(n) PROVE IInv'
  <2>1. /\ invitation' \in [Invitations -> Row]
        /\ \A m \in Invitations : /\ invitation'[m].st = invitation[m].st
                                  /\ invitation'[m].of = invitation[m].of
                                  /\ invitation'[m].tok = invitation[m].tok
    BY <1>13 DEF Expire, TypeOK, Row
  <2>2. TypeOK'
    BY <1>13, <2>1 DEF Expire, TypeOK, history
  <2>3. Known' /\ Addressed' /\ ConsumedOnce'
    BY <1>13, <2>1 DEF Expire, history, Known, Addressed, ConsumedOnce, Exists
  <2>4. \A i \in Invitees : Pending(i)' = Pending(i)
    BY <2>1 DEF Pending
  <2> QED
    BY <2>2, <2>3, <2>4 DEF Unique
<1>14. CASE UNCHANGED vars
  BY <1>14 DEF vars, history, TypeOK, Known, Addressed, Unique, ConsumedOnce, Exists, Pending
<1> QED
  BY <1>1, <1>2, <1>3, <1>4, <1>5, <1>7, <1>8, <1>9, <1>10, <1>11, <1>12, <1>13, <1>14
  DEF Next

(* IInv is an invariant. *)
THEOREM Invariance == Spec => []IInv
BY InitInv, NextInv, PTL DEF Spec

(* Types of the table, the requests and the histories. *)
THEOREM TypeCorrect == Spec => []TypeOK
<1>1. IInv => TypeOK
  BY DEF IInv
<1> QED
  BY Invariance, <1>1, PTL

(* acceptInvitation: an invitation admits once, by its last token, and     *)
(* exactly the accepted ones have, unless an update by id overwrote a      *)
(* change it had not seen.                                                 *)
THEOREM InvitationConsumedOnce == Spec => []ConsumedOnce
<1>1. IInv => ConsumedOnce
  BY DEF IInv
<1> QED
  BY Invariance, <1>1, PTL

(* The partial unique index is kept by every write: one pending row.       *)
THEOREM PendingIsUnique == Spec => []OnePending
<1>1. ASSUME Unique PROVE OnePending
  <2> SUFFICES ASSUME NEW i \in Invitees PROVE Cardinality(Pending(i)) <= 1
    BY DEF OnePending
  <2>1. CASE Pending(i) = {}
    BY <2>1, FS_EmptySet
  <2>2. CASE Pending(i) # {}
    <3>1. PICK n \in Pending(i) : TRUE
      BY <2>2
    <3>2. Pending(i) = {n}
      BY <1>1, <3>1 DEF Unique
    <3> QED
      BY <3>2, FS_Singleton
  <2> QED
    BY <2>1, <2>2
<1>2. IInv => OnePending
  BY <1>1 DEF IInv
<1> QED
  BY Invariance, <1>2, PTL

(* Accepted and revoked are final, whatever requests interleave: the row   *)
(* changes again only under a request that read it before.                 *)
THEOREM FinalStatusKept == Spec => FinalStatus
<1> DEFINE Final ==
      \A n \in Invitations :
        invitation[n].st \in {"ACCEPTED", "REVOKED"} /\ n \notin stale' =>
          invitation'[n].st = invitation[n].st
<1>1. ASSUME IInv, [Next]_vars PROVE [Final]_vars
  <2> SUFFICES ASSUME NEW n \in Invitations, n \notin stale',
                      invitation[n].st \in {"ACCEPTED", "REVOKED"}, Next
               PROVE  invitation'[n].st = invitation[n].st
    BY <1>1
  <2>1. ASSUME NEW r \in Requests, NEW row, Update(r, row), request[r].pc \in Reading
        PROVE  invitation'[n] = invitation[n]
    <3>1. request[r].row \in Invitations /\ request[r].st \in {"PENDING", "EXPIRED"}
      BY <1>1, <2>1 DEF IInv, Known
    <3>2. n # request[r].row
      BY <1>1, <2>1, <3>1, UpdateSeen DEF IInv
    <3> QED
      BY <1>1, <2>1, <3>1, <3>2, UpdateSeen DEF IInv
  <2>2. ASSUME NEW r \in Requests,
               Regenerate(r) \/ Revoke(r) \/ Resend(r) \/ MarkExpired(r) \/ AcceptCommit(r)
        PROVE  invitation'[n] = invitation[n]
    BY <2>1, <2>2 DEF Regenerate, Revoke, Resend, MarkExpired, AcceptCommit, Reading
  <2>3. ASSUME NEW r \in Requests, Insert(r)
        PROVE  invitation'[n] = invitation[n]
    BY <1>1, <2>3 DEF Insert, Exists, IInv, TypeOK
  <2>4. ASSUME NEW r \in Requests,
               \/ \E i \in Invitees : CreateCheck(r, i)
               \/ CreateFind(r) \/ AcceptMember(r)
               \/ \E m \in Invitations :
                    RevokeRead(r, m) \/ ResendRead(r, m) \/ AcceptLookup(r, m)
        PROVE  invitation'[n] = invitation[n]
    BY <2>4 DEF CreateCheck, CreateFind, AcceptMember, RevokeRead, ResendRead, AcceptLookup
  <2>5. ASSUME NEW i \in Invitees, Remove(i) PROVE invitation'[n] = invitation[n]
    BY <2>5 DEF Remove
  <2>6. ASSUME NEW m \in Invitations, Expire(m)
        PROVE  invitation'[n].st = invitation[n].st
    BY <1>1, <2>6 DEF Expire, IInv, TypeOK, Row
  <2> QED
    BY <2>2, <2>3, <2>4, <2>5, <2>6 DEF Next
<1>2. Spec => [][Final]_vars
  BY Invariance, <1>1, PTL DEF Spec
<1> QED
  BY <1>2 DEF FinalStatus

-----------------------------------------------------------------------------
(* The knowledge base of a team.  What follows is about K!Spec alone, and     *)
(* names it shares with the module above are parameters of it like the others. *)

CONSTANTS Slots, Attempts, MaxWrites, MaxFaults
VARIABLES writes, faults

K == INSTANCE KnowledgeBase

KbBounds == {Attempts, MaxWrites, MaxFaults} \subseteq Nat /\ None \notin Texts

(* The conjuncts of TypeOK, by component. *)
RunType == [pc : {"idle", "read", "wipe", "store", "done"}, text : Texts \cup {None},
            i : {1} \cup K!Indices]
JobType == [st : {"none", "waiting", "active", "kept"}, by : Slots \cup {None},
            throws : 0..Attempts, stalled : BOOLEAN]
TablesTyped ==
  /\ article \in Texts \cup {None} /\ embedding \in [K!Indices -> Texts \cup {None}]
  /\ writer \in [Requests -> {"idle", "clear", "queue"}] /\ writes \in 0..MaxWrites
JobTyped == embedJob \in JobType /\ embedder \in [Slots -> RunType]
HistoryTyped == faults \in 0..MaxFaults /\ ignored \in BOOLEAN /\ broken \in BOOLEAN

(* A run that has read its text is at one of its chunks. *)
AtChunk(e) ==
  /\ e.pc \in {"wipe", "store"} => e.text \in Texts
  /\ e.pc = "store" => e.i \in 1..Chunks[e.text]
RunsAtChunks == \A w \in Slots : AtChunk(embedder[w])

(* Unless a run was left beside the next, who runs holds the job. *)
OneRun == ~broken => \A w \in Slots : embedder[w].pc # "idle" => K!Holds(w)

(* While no edit is under way, a run has the text of the article, and has      *)
(* stored the chunks before the one it is at and none else; and once no run is *)
(* under way or awaited, the article is embedded.                              *)
Clean == ~ignored /\ ~broken /\ article \in Texts /\ \A r \in Requests : writer[r] = "idle"
UpTo(i) == \A j \in K!Indices : embedding[j] = IF j < i THEN article ELSE None
RunRight(e) ==
  /\ e.pc = "wipe" => e.text = article
  /\ e.pc = "store" => e.text = article /\ UpTo(e.i)
  /\ e.pc = "done" => UpTo(Chunks[article] + 1)
RunsRight == Clean => \A w \in Slots : RunRight(embedder[w])
NoneRuns == \A w \in Slots : embedder[w].pc = "idle"
RestRight == Clean /\ NoneRuns /\ embedJob.st # "waiting" => UpTo(Chunks[article] + 1)

KbTyped == TablesTyped /\ JobTyped /\ HistoryTyped
KbInv == KbTyped /\ RunsAtChunks /\ OneRun /\ RunsRight /\ RestRight

LEMMA KbTypes == KbTyped <=> K!TypeOK
BY DEF KbTyped, TablesTyped, JobTyped, HistoryTyped, K!TypeOK, RunType, JobType, K!Texts, Texts

LEMMA IndicesAre ==
  /\ \A t \in Texts : \A i \in 1..Chunks[t] : i \in K!Indices
  /\ K!Indices \subseteq Nat \ {0}
BY ChunksAssumption DEF K!Indices, K!Texts, Texts

LEMMA IdleRun ==
  /\ K!Idle \in RunType /\ K!Idle.pc = "idle" /\ AtChunk(K!Idle) /\ RunRight(K!Idle)
  /\ [K!Idle EXCEPT !.pc = "read"] \in RunType
BY DEF K!Idle, RunType, AtChunk, RunRight

LEMMA KbNats == KbBounds => Attempts \in Nat /\ MaxWrites \in Nat /\ MaxFaults \in Nat
BY DEF KbBounds

LEMMA NoJobTyped ==
  ASSUME KbBounds
  PROVE  /\ K!NoJob \in JobType /\ K!NoJob.st = "none"
         /\ [K!NoJob EXCEPT !.st = "waiting"] \in JobType
<1>1. 0 \in 0..Attempts
  BY DEF KbBounds
<1>2. K!NoJob \in JobType /\ K!NoJob.st = "none"
  BY <1>1 DEF K!NoJob, JobType
<1> QED
  BY <1>2 DEF JobType

LEMMA KbInitially == ASSUME KbBounds, K!Init PROVE KbInv
<1>1. TablesTyped
  BY DEF K!Init, TablesTyped, K!Empty, KbBounds
<1>2. JobTyped
  BY IdleRun, NoJobTyped DEF K!Init, JobTyped
<1>3. HistoryTyped
  <2>1. faults \in 0..MaxFaults
    BY KbNats DEF K!Init
  <2> QED
    BY <2>1 DEF K!Init, HistoryTyped
<1>4. \A w \in Slots : embedder[w] = K!Idle
  BY DEF K!Init
<1>5. RunsAtChunks /\ OneRun
  BY <1>4, IdleRun DEF RunsAtChunks, OneRun
<1>6. ~Clean
  BY DEF K!Init, Clean, KbBounds
<1> QED
  BY <1>1, <1>2, <1>3, <1>5, <1>6 DEF KbInv, KbTyped, RunsRight, RestRight

(* What Chunk makes of a run whose text is t. *)
LEMMA ChunkIs ==
  ASSUME JobTyped, NEW w \in Slots, embedder[w].text \in Texts, NEW i \in Nat \ {0},
         NEW e, e = K!Chunk(w, i)
  PROVE  /\ e \in RunType /\ AtChunk(e) /\ e.text = embedder[w].text
         /\ i <= Chunks[embedder[w].text] => e.pc = "store" /\ e.i = i
         /\ ~(i <= Chunks[embedder[w].text]) => e.pc = "done"
<1> DEFINE s == embedder[w]
<1>1. s \in RunType /\ Chunks[s.text] \in Nat
  BY ChunksAssumption DEF JobTyped
<1>2. CASE i <= Chunks[s.text]
  <2>1. e = [s EXCEPT !.pc = "store", !.i = i]
    BY <1>2 DEF K!Chunk
  <2>2. i \in 1..Chunks[s.text] /\ i \in K!Indices
    BY <1>1, <1>2, IndicesAre
  <2> QED
    BY <1>1, <1>2, <2>1, <2>2 DEF RunType, AtChunk
<1>3. CASE ~(i <= Chunks[s.text])
  <2>1. e = [s EXCEPT !.pc = "done"]
    BY <1>3 DEF K!Chunk
  <2> QED
    BY <1>1, <1>3, <2>1 DEF RunType, AtChunk
<1> QED
  BY <1>2, <1>3

(* A step after which an edit is under way, the article is gone or the run    *)
(* is excused owes the article nothing.                                       *)
LEMMA NotClean == ASSUME ~Clean' PROVE RunsRight' /\ RestRight'
BY DEF RunsRight, RestRight

LEMMA StartsEdit ==
  ASSUME KbBounds, KbInv, NEW r \in Requests,
         K!CreateArticle(r) \/ K!UpdateArticle(r) \/ K!ReindexArticle(r) \/ K!Clear(r)
  PROVE  KbInv'
<1>1. UNCHANGED <<embedJob, embedder, faults, ignored, broken>>
  BY DEF K!CreateArticle, K!UpdateArticle, K!ReindexArticle, K!Clear
<1>2. PICK pc \in {"clear", "queue"} : writer' = [writer EXCEPT ![r] = pc]
  BY DEF K!CreateArticle, K!UpdateArticle, K!ReindexArticle, K!Clear, K!Goto
<1>3. TablesTyped'
  <2>1. writer' \in [Requests -> {"idle", "clear", "queue"}]
    BY <1>2 DEF KbInv, KbTyped, TablesTyped
  <2>2. article' \in Texts \cup {None} /\ writes' \in 0..MaxWrites
    BY DEF KbInv, KbTyped, TablesTyped, K!CreateArticle, K!UpdateArticle, K!ReindexArticle,
       K!Clear, K!Write, KbBounds, K!Texts, Texts
  <2>3. embedding' \in [K!Indices -> Texts \cup {None}]
    BY DEF KbInv, KbTyped, TablesTyped, K!CreateArticle, K!UpdateArticle, K!ReindexArticle,
       K!Clear, K!Empty
  <2> QED
    BY <2>1, <2>2, <2>3 DEF TablesTyped
<1>4. ~Clean'
  BY <1>2 DEF Clean, KbInv, KbTyped, TablesTyped
<1>5. JobTyped' /\ RunsAtChunks' /\ OneRun'
  BY <1>1 DEF KbInv, KbTyped, JobTyped, RunsAtChunks, OneRun, K!Holds
<1>6. HistoryTyped'
  BY <1>1 DEF KbInv, KbTyped, HistoryTyped
<1> QED
  BY <1>3, <1>4, <1>5, <1>6, NotClean DEF KbInv, KbTyped

LEMMA Enqueues == ASSUME KbBounds, KbInv, NEW r \in Requests, K!Enqueue(r) PROVE KbInv'
<1>1. TablesTyped'
  BY DEF K!Enqueue, K!Goto, KbInv, KbTyped, TablesTyped
<1>2. JobTyped' /\ HistoryTyped'
  BY NoJobTyped DEF K!Enqueue, KbInv, KbTyped, JobTyped, HistoryTyped
<1>3. RunsAtChunks'
  BY DEF K!Enqueue, KbInv, RunsAtChunks
<1>4. OneRun'
  <2>1. CASE embedJob.st = "none"
    BY <2>1 DEF K!Enqueue, KbInv, OneRun, K!Holds
  <2>2. CASE embedJob.st # "none"
    BY <2>2 DEF K!Enqueue, KbInv, OneRun, K!Holds
  <2> QED
    BY <2>1, <2>2
<1>5. RunsRight' /\ RestRight'
  <2>1. CASE ~Clean'
    BY <2>1, NotClean
  <2>2. CASE Clean'
    <3>1. embedJob.st \in {"none", "waiting"} /\ ~broken
      BY <2>2 DEF K!Enqueue, Clean
    <3>2. embedJob'.st = "waiting"
      BY <3>1 DEF K!Enqueue, K!NoJob
    <3>3. \A w \in Slots : embedder'[w].pc = "idle"
      BY <3>1 DEF KbInv, OneRun, K!Holds, K!Enqueue
    <3> QED
      BY <3>2, <3>3 DEF RunsRight, RestRight, RunRight
  <2> QED
    BY <2>1, <2>2
<1> QED
  BY <1>1, <1>2, <1>3, <1>4, <1>5 DEF KbInv, KbTyped

LEMMA Failed == ASSUME KbBounds, HistoryTyped, K!Fail PROVE faults' \in 0..MaxFaults
BY DEF KbBounds, HistoryTyped, K!Fail

LEMMA RequestFailed ==
  ASSUME KbBounds, KbInv, NEW r \in Requests, K!RequestFails(r) PROVE KbInv'
<1>1. TablesTyped'
  BY DEF K!RequestFails, K!Goto, KbInv, KbTyped, TablesTyped
<1>2. JobTyped' /\ RunsAtChunks' /\ OneRun'
  BY DEF K!RequestFails, KbInv, KbTyped, JobTyped, RunsAtChunks, OneRun
<1>3. HistoryTyped'
  BY Failed DEF K!RequestFails, KbInv, KbTyped, HistoryTyped
<1>4. ~Clean'
  BY DEF K!RequestFails, Clean
<1> QED
  BY <1>1, <1>2, <1>3, <1>4, NotClean DEF KbInv, KbTyped

LEMMA Deleted == ASSUME KbBounds, KbInv, K!DeleteArticle PROVE KbInv'
<1>1. TablesTyped'
  BY DEF K!DeleteArticle, KbInv, KbTyped, TablesTyped, K!Empty
<1>2. JobTyped' /\ RunsAtChunks' /\ OneRun' /\ HistoryTyped'
  BY DEF K!DeleteArticle, KbInv, KbTyped, JobTyped, RunsAtChunks, OneRun, K!Holds, HistoryTyped
<1>3. ~Clean'
  BY DEF K!DeleteArticle, Clean, KbBounds
<1> QED
  BY <1>1, <1>2, <1>3, NotClean DEF KbInv, KbTyped

LEMMA Taken == ASSUME KbBounds, KbInv, NEW w \in Slots, K!Take(w) PROVE KbInv'
<1>1. /\ embedder' = [embedder EXCEPT ![w] = [K!Idle EXCEPT !.pc = "read"]]
      /\ embedJob' = [embedJob EXCEPT !.st = "active", !.by = w]
  BY DEF K!Take, K!Run
<1>2. embedder'[w].pc = "read" /\ \A v \in Slots \ {w} : embedder'[v] = embedder[v]
  BY <1>1 DEF KbInv, KbTyped, JobTyped, K!Idle
<1>3. TablesTyped' /\ HistoryTyped'
  BY DEF K!Take, KbInv, KbTyped, TablesTyped, HistoryTyped
<1>4. JobTyped'
  BY <1>1, IdleRun DEF KbInv, KbTyped, JobTyped, JobType
<1>5. RunsAtChunks'
  BY <1>2 DEF KbInv, RunsAtChunks, AtChunk
<1>6. OneRun'
  <2> SUFFICES ASSUME ~broken', NEW v \in Slots, embedder'[v].pc # "idle" PROVE K!Holds(v)'
    BY DEF OneRun
  <2>1. v = w
    BY <1>2 DEF K!Take, KbInv, OneRun, K!Holds
  <2> QED
    BY <1>1, <2>1 DEF KbInv, KbTyped, JobTyped, JobType, K!Holds
<1>7. RunsRight'
  <2>1. \A v \in Slots : ~broken => embedder'[v].pc \in {"idle", "read"}
    BY <1>2 DEF K!Take, KbInv, OneRun, K!Holds
  <2> QED
    BY <2>1 DEF RunsRight, Clean, RunRight, K!Take
<1>8. RestRight'
  BY <1>2 DEF RestRight, NoneRuns
<1> QED
  BY <1>3, <1>4, <1>5, <1>6, <1>7, <1>8 DEF KbInv, KbTyped

(* A run that goes on: its slot is e from then on, the queue is unchanged.    *)
LEMMA RunGoesOn ==
  ASSUME KbInv, NEW w \in Slots, embedder[w].pc # "idle", NEW e \in RunType,
         embedder' = [embedder EXCEPT ![w] = e], embedJob' = embedJob, broken' = broken,
         e.pc # "idle", AtChunk(e)
  PROVE  /\ JobTyped' /\ RunsAtChunks' /\ OneRun' /\ RestRight'
         /\ embedder'[w] = e
         /\ \A v \in Slots \ {w} : ~broken => embedder'[v].pc = "idle"
<1>1. embedder'[w] = e /\ \A v \in Slots \ {w} : embedder'[v] = embedder[v]
  BY DEF KbInv, KbTyped, JobTyped
<1>2. JobTyped'
  BY DEF KbInv, KbTyped, JobTyped
<1>3. RunsAtChunks'
  BY <1>1 DEF KbInv, RunsAtChunks
<1>4. OneRun'
  BY <1>1 DEF KbInv, OneRun, K!Holds
<1>5. RestRight'
  BY <1>1 DEF RestRight, NoneRuns
<1>6. \A v \in Slots \ {w} : ~broken => embedder'[v].pc = "idle"
  BY <1>1 DEF KbInv, OneRun, K!Holds
<1> QED
  BY <1>1, <1>2, <1>3, <1>4, <1>5, <1>6

LEMMA ReadText == ASSUME KbBounds, KbInv, NEW w \in Slots, K!Read(w) PROVE KbInv'
<1> DEFINE e == IF article = None THEN [embedder[w] EXCEPT !.pc = "done"]
                ELSE [embedder[w] EXCEPT !.pc = "wipe", !.text = article]
<1>1. embedder' = [embedder EXCEPT ![w] = e] /\ embedder[w].pc = "read" /\ embedder[w] \in RunType
  BY DEF K!Read, K!Run, KbInv, KbTyped, JobTyped
<1>2. /\ e \in RunType /\ e.pc # "idle" /\ AtChunk(e)
      /\ article \in Texts => e.pc = "wipe" /\ e.text = article
  BY <1>1 DEF KbInv, KbTyped, TablesTyped, RunType, AtChunk, KbBounds
<1> HIDE DEF e
<1>3. TablesTyped' /\ HistoryTyped' /\ UNCHANGED <<article, embedding, embedJob, broken>>
  BY DEF K!Read, KbInv, KbTyped, TablesTyped, HistoryTyped
<1>4. /\ JobTyped' /\ RunsAtChunks' /\ OneRun' /\ RestRight' /\ embedder'[w] = e
      /\ \A v \in Slots \ {w} : ~broken => embedder'[v].pc = "idle"
  BY <1>1, <1>2, <1>3, RunGoesOn
<1>5. RunsRight'
  BY <1>2, <1>3, <1>4 DEF RunsRight, Clean, RunRight
<1> QED
  BY <1>3, <1>4, <1>5 DEF KbInv, KbTyped

LEMMA Wiped == ASSUME KbBounds, KbInv, NEW w \in Slots, K!Wipe(w) PROVE KbInv'
<1>1. /\ embedder' = [embedder EXCEPT ![w] = K!Chunk(w, 1)]
      /\ embedder[w].pc = "wipe" /\ embedder[w].text \in Texts
  BY DEF K!Wipe, K!Run, KbInv, RunsAtChunks, AtChunk
<1>2. PICK e : e = K!Chunk(w, 1)
  OBVIOUS
<1>3. /\ e \in RunType /\ AtChunk(e) /\ e.text = embedder[w].text
      /\ 1 <= Chunks[embedder[w].text] => e.pc = "store" /\ e.i = 1
      /\ ~(1 <= Chunks[embedder[w].text]) => e.pc = "done"
  BY <1>1, <1>2, ChunkIs DEF KbInv, KbTyped
<1>4. /\ HistoryTyped' /\ UNCHANGED <<article, writer, embedJob, broken, ignored>>
      /\ embedding' = K!Empty
  BY DEF K!Wipe, KbInv, KbTyped, HistoryTyped
<1>5. TablesTyped'
  BY DEF K!Wipe, KbInv, KbTyped, TablesTyped, K!Empty
<1>6. /\ JobTyped' /\ RunsAtChunks' /\ OneRun' /\ RestRight' /\ embedder'[w] = e
      /\ \A v \in Slots \ {w} : ~broken => embedder'[v].pc = "idle"
  BY <1>1, <1>2, <1>3, <1>4, RunGoesOn
<1>7. RunsRight'
  <2> SUFFICES ASSUME Clean', NEW v \in Slots PROVE RunRight(embedder[v])'
    BY DEF RunsRight
  <2>1. Clean
    BY <1>4 DEF Clean
  <2>2. embedder[w].text = article /\ Chunks[article] \in Nat
    BY <1>1, <2>1, ChunksAssumption DEF KbInv, RunsRight, RunRight
  <2>3. \A j \in K!Indices : embedding'[j] = None /\ j \in Nat \ {0}
    BY <1>4, IndicesAre DEF K!Empty
  <2>4. CASE v = w
    <3>1. CASE 1 <= Chunks[article]
      BY <1>3, <1>4, <1>6, <2>2, <2>3, <2>4, <3>1 DEF RunRight, UpTo
    <3>2. CASE ~(1 <= Chunks[article])
      <4>1. e.pc = "done" /\ Chunks[article'] + 1 = 1
        BY <1>3, <1>4, <2>2, <3>2
      <4> QED
        BY <1>6, <2>3, <2>4, <4>1 DEF RunRight, UpTo
    <3> QED
      BY <3>1, <3>2
  <2>5. CASE v # w
    BY <1>6, <2>1, <2>5 DEF RunRight, Clean
  <2> QED
    BY <2>4, <2>5
<1> QED
  BY <1>4, <1>5, <1>6, <1>7 DEF KbInv, KbTyped

LEMMA StoredTyped ==
  ASSUME TablesTyped, NEW i \in K!Indices, NEW t \in Texts
  PROVE  K!Stored(i, t) \in [K!Indices -> Texts \cup {None}]
BY DEF TablesTyped, K!Stored

LEMMA StoredChunk == ASSUME KbBounds, KbInv, NEW w \in Slots, K!Store(w) PROVE KbInv'
<1>1. /\ embedder' = [embedder EXCEPT ![w] = K!AfterChunk(w)] /\ embedder[w].pc = "store"
      /\ embedder[w].text \in Texts /\ embedder[w].i \in 1..Chunks[embedder[w].text]
      /\ embedding' = K!Stored(embedder[w].i, embedder[w].text)
  BY DEF K!Store, K!Run, KbInv, RunsAtChunks, AtChunk
<1>2. PICK i \in Nat \ {0} : i = embedder[w].i
  BY <1>1, ChunksAssumption
<1>3. PICK e : e = K!Chunk(w, i + 1)
  OBVIOUS
<1>4. /\ e \in RunType /\ AtChunk(e) /\ e.text = embedder[w].text
      /\ i + 1 <= Chunks[embedder[w].text] => e.pc = "store" /\ e.i = i + 1
      /\ ~(i + 1 <= Chunks[embedder[w].text]) => e.pc = "done"
  BY <1>1, <1>3, ChunkIs DEF KbInv, KbTyped
<1>5. HistoryTyped' /\ UNCHANGED <<article, writer, embedJob, broken, ignored>>
  BY DEF K!Store, KbInv, KbTyped, HistoryTyped
<1>6. TablesTyped'
  <2>1. embedding' \in [K!Indices -> Texts \cup {None}]
    BY <1>1, StoredTyped, IndicesAre DEF KbInv, KbTyped
  <2> QED
    BY <2>1 DEF K!Store, KbInv, KbTyped, TablesTyped
<1>7. /\ JobTyped' /\ RunsAtChunks' /\ OneRun' /\ RestRight' /\ embedder'[w] = e
      /\ \A v \in Slots \ {w} : ~broken => embedder'[v].pc = "idle"
  <2>1. embedder' = [embedder EXCEPT ![w] = e] /\ e.pc # "idle"
    BY <1>1, <1>2, <1>3, <1>4 DEF K!AfterChunk
  <2> QED
    BY <1>1, <1>4, <1>5, <2>1, RunGoesOn
<1>8. RunsRight'
  <2> SUFFICES ASSUME Clean', NEW v \in Slots PROVE RunRight(embedder[v])'
    BY DEF RunsRight
  <2>1. Clean
    BY <1>5 DEF Clean
  <2>2. /\ embedder[w].text = article /\ article \in Texts /\ Chunks[article] \in Nat
        /\ \A j \in K!Indices : embedding[j] = IF j < i THEN article ELSE None
    BY <1>1, <1>2, <2>1, ChunksAssumption DEF KbInv, RunsRight, RunRight, UpTo, Clean
  <2>3. i <= Chunks[article] /\ i \in K!Indices
    BY <1>1, <1>2, <2>2, IndicesAre
  <2>4. embedding' = [embedding EXCEPT ![i] = article]
    <3>1. embedding[i] = None
      BY <2>2, <2>3
    <3> QED
      BY <1>1, <1>2, <2>2, <3>1 DEF K!Stored, KbBounds
  <2>5. \A j \in K!Indices : embedding'[j] = IF j < i + 1 THEN article ELSE None
    <3> SUFFICES ASSUME NEW j \in K!Indices
                 PROVE  embedding'[j] = IF j < i + 1 THEN article ELSE None
      OBVIOUS
    <3>1. DOMAIN embedding = K!Indices
      BY DEF KbInv, KbTyped, TablesTyped
    <3>2. j \in Nat /\ embedding[j] = IF j < i THEN article ELSE None
      BY <2>2, IndicesAre
    <3>3. embedding'[j] = IF j = i THEN article ELSE embedding[j]
      BY <2>4, <3>1
    <3> QED
      BY <3>2, <3>3
  <2>6. CASE v = w
    <3>1. CASE i + 1 <= Chunks[article]
      BY <1>4, <1>5, <1>7, <2>2, <2>5, <2>6, <3>1 DEF RunRight, UpTo
    <3>2. CASE ~(i + 1 <= Chunks[article])
      <4>1. e.pc = "done" /\ Chunks[article'] + 1 = i + 1 /\ article' = article
        BY <1>4, <1>5, <2>2, <2>3, <3>2
      <4> QED
        BY <1>7, <2>5, <2>6, <4>1 DEF RunRight, UpTo
    <3> QED
      BY <3>1, <3>2
  <2>7. CASE v # w
    BY <1>7, <2>1, <2>7 DEF RunRight, Clean
  <2> QED
    BY <2>6, <2>7
<1> QED
  BY <1>5, <1>6, <1>7, <1>8 DEF KbInv, KbTyped

LEMMA StoreFailed == ASSUME KbBounds, KbInv, NEW w \in Slots, K!StoreFails(w) PROVE KbInv'
<1>1. /\ embedder' = [embedder EXCEPT ![w] = K!AfterChunk(w)] /\ embedder[w].pc = "store"
      /\ embedder[w].text \in Texts /\ embedder[w].i \in 1..Chunks[embedder[w].text]
  BY DEF K!StoreFails, K!Run, KbInv, RunsAtChunks, AtChunk
<1>2. PICK i \in Nat \ {0} : i = embedder[w].i
  BY <1>1, ChunksAssumption
<1>3. PICK e : e = K!Chunk(w, i + 1)
  OBVIOUS
<1>4. e \in RunType /\ AtChunk(e)
  BY <1>1, <1>3, ChunkIs DEF KbInv, KbTyped
<1>5. embedder' = [embedder EXCEPT ![w] = e]
  BY <1>1, <1>2, <1>3 DEF K!AfterChunk
<1>6. TablesTyped' /\ broken' /\ embedJob' = embedJob
  BY DEF K!StoreFails, KbInv, KbTyped, TablesTyped
<1>7. HistoryTyped'
  BY Failed DEF K!StoreFails, KbInv, KbTyped, HistoryTyped
<1>8. JobTyped' /\ RunsAtChunks'
  BY <1>4, <1>5, <1>6 DEF KbInv, KbTyped, JobTyped, RunsAtChunks
<1>9. OneRun' /\ ~Clean'
  BY <1>6 DEF OneRun, Clean
<1> QED
  BY <1>6, <1>7, <1>8, <1>9, NotClean DEF KbInv, KbTyped

(* The slot of a run that ends is idle.  *)
LEMMA SlotEmptied ==
  ASSUME KbInv, NEW w \in Slots, embedder' = [embedder EXCEPT ![w] = K!Idle]
  PROVE  /\ embedder' \in [Slots -> RunType] /\ RunsAtChunks'
         /\ embedder'[w].pc = "idle" /\ \A v \in Slots \ {w} : embedder'[v] = embedder[v]
<1>1. embedder'[w] = K!Idle /\ \A v \in Slots \ {w} : embedder'[v] = embedder[v]
  BY DEF KbInv, KbTyped, JobTyped
<1> QED
  BY <1>1, IdleRun DEF KbInv, KbTyped, JobTyped, RunsAtChunks

LEMMA KeptTyped ==
  ASSUME KbInv
  PROVE  [embedJob EXCEPT !.st = "kept", !.by = None] \in JobType
BY DEF KbInv, KbTyped, JobTyped, JobType

LEMMA Finished == ASSUME KbBounds, KbInv, NEW w \in Slots, K!Finish(w) PROVE KbInv'
<1>1. embedder' = [embedder EXCEPT ![w] = K!Idle] /\ embedder[w].pc = "done"
  BY DEF K!Finish, K!Run
<1>2. /\ embedder' \in [Slots -> RunType] /\ RunsAtChunks'
      /\ embedder'[w].pc = "idle" /\ \A v \in Slots \ {w} : embedder'[v] = embedder[v]
  BY <1>1, SlotEmptied
<1>3. /\ TablesTyped' /\ HistoryTyped'
      /\ UNCHANGED <<article, embedding, writer, broken, ignored>>
  BY DEF K!Finish, KbInv, KbTyped, TablesTyped, HistoryTyped
<1>4. JobTyped'
  BY <1>2, KeptTyped DEF K!Finish, K!Keep, KbInv, KbTyped, JobTyped
<1>5. ~broken => \A v \in Slots : embedder'[v].pc = "idle"
  BY <1>1, <1>2 DEF KbInv, OneRun, K!Holds
<1>6. OneRun' /\ RunsRight'
  BY <1>3, <1>5 DEF OneRun, RunsRight, RunRight, Clean
<1>7. RestRight'
  BY <1>1, <1>3 DEF KbInv, RunsRight, RunRight, RestRight, Clean, UpTo
<1> QED
  BY <1>2, <1>3, <1>4, <1>6, <1>7 DEF KbInv, KbTyped

LEMMA Thrown == ASSUME KbBounds, KbInv, NEW w \in Slots, K!Throw(w) PROVE KbInv'
<1>1. embedder' = [embedder EXCEPT ![w] = K!Idle] /\ K!Holds(w)
  BY DEF K!Throw, K!Run
<1>2. /\ embedder' \in [Slots -> RunType] /\ RunsAtChunks'
      /\ embedder'[w].pc = "idle" /\ \A v \in Slots \ {w} : embedder'[v] = embedder[v]
  BY <1>1, SlotEmptied
<1>3. TablesTyped' /\ UNCHANGED <<article, embedding, writer, ignored>>
  BY DEF K!Throw, KbInv, KbTyped, TablesTyped
<1>4. HistoryTyped'
  BY Failed DEF K!Throw, KbInv, KbTyped, HistoryTyped
<1>5. ~broken => \A v \in Slots : embedder'[v].pc = "idle"
  BY <1>1, <1>2 DEF KbInv, OneRun, K!Holds
<1>6. CASE embedJob.throws + 1 < Attempts
  <2>1. /\ embedJob' = [embedJob EXCEPT !.st = "waiting", !.by = None, !.throws = @ + 1]
        /\ broken' = broken
    BY <1>6 DEF K!Throw
  <2>2. embedJob' \in JobType /\ embedJob'.st = "waiting"
    <3>1. embedJob \in JobType /\ embedJob.throws + 1 \in 0..Attempts
      BY <1>6, KbNats DEF KbInv, KbTyped, JobTyped, JobType
    <3> QED
      BY <2>1, <3>1 DEF JobType
  <2>3. JobTyped'
    BY <1>2, <2>2 DEF JobTyped
  <2>4. OneRun' /\ RunsRight' /\ RestRight'
    BY <1>5, <2>1, <2>2 DEF OneRun, RunsRight, RunRight, RestRight, Clean
  <2> QED
    BY <1>2, <1>3, <1>4, <2>3, <2>4 DEF KbInv, KbTyped
<1>7. CASE ~(embedJob.throws + 1 < Attempts)
  <2>1. embedJob' \in JobType /\ broken'
    BY <1>7, KeptTyped DEF K!Throw, K!Keep
  <2>2. JobTyped' /\ OneRun' /\ ~Clean'
    BY <1>2, <2>1 DEF JobTyped, OneRun, Clean
  <2> QED
    BY <1>2, <1>3, <1>4, <2>2, NotClean DEF KbInv, KbTyped
<1> QED
  BY <1>6, <1>7

LEMMA Stalled ==
  ASSUME KbBounds, KbInv, NEW w \in Slots, NEW dead \in BOOLEAN, K!Stall(w, dead) PROVE KbInv'
<1>1. TablesTyped' /\ UNCHANGED <<article, embedding, writer, ignored>>
  BY DEF K!Stall, KbInv, KbTyped, TablesTyped
<1>2. HistoryTyped'
  BY Failed DEF K!Stall, KbInv, KbTyped, HistoryTyped
<1>3. /\ embedder' \in [Slots -> RunType] /\ RunsAtChunks'
      /\ dead => embedder'[w].pc = "idle" /\ \A v \in Slots \ {w} : embedder'[v] = embedder[v]
  <2>1. CASE dead
    <3>1. embedder' = [embedder EXCEPT ![w] = K!Idle]
      BY <2>1 DEF K!Stall
    <3> QED
      BY <3>1, SlotEmptied
  <2>2. CASE ~dead
    BY <2>2 DEF K!Stall, KbInv, KbTyped, JobTyped, RunsAtChunks
  <2> QED
    BY <2>1, <2>2
<1>4. /\ embedJob' \in JobType
      /\ ~embedJob.stalled => embedJob'.st = "waiting"
  <2>1. CASE embedJob.stalled
    BY <2>1, KeptTyped DEF K!Stall, K!Keep
  <2>2. CASE ~embedJob.stalled
    BY <2>2 DEF K!Stall, KbInv, KbTyped, JobTyped, JobType
  <2> QED
    BY <2>1, <2>2
<1>5. JobTyped'
  BY <1>3, <1>4 DEF JobTyped
<1>6. CASE broken'
  <2>1. OneRun' /\ ~Clean'
    BY <1>6 DEF OneRun, Clean
  <2> QED
    BY <1>1, <1>2, <1>3, <1>5, <2>1, NotClean DEF KbInv, KbTyped
<1>7. CASE ~broken'
  <2>1. ~broken /\ dead /\ ~embedJob.stalled
    BY <1>7 DEF K!Stall
  <2>2. \A v \in Slots : embedder'[v].pc = "idle"
    BY <1>3, <2>1 DEF K!Stall, KbInv, OneRun, K!Holds
  <2>3. OneRun' /\ RunsRight' /\ RestRight'
    BY <1>4, <2>1, <2>2 DEF OneRun, RunsRight, RunRight, RestRight
  <2> QED
    BY <1>1, <1>2, <1>3, <1>5, <2>3 DEF KbInv, KbTyped
<1> QED
  BY <1>6, <1>7

LEMMA Evicted == ASSUME KbBounds, KbInv, K!Evict PROVE KbInv'
<1>1. TablesTyped' /\ HistoryTyped' /\ RunsAtChunks'
  BY DEF K!Evict, KbInv, KbTyped, TablesTyped, HistoryTyped, RunsAtChunks
<1>2. JobTyped'
  BY NoJobTyped DEF K!Evict, KbInv, KbTyped, JobTyped
<1>3. OneRun'
  BY DEF K!Evict, KbInv, OneRun, K!Holds
<1>4. RunsRight' /\ RestRight'
  BY DEF K!Evict, KbInv, RunsRight, RunRight, RestRight, Clean, NoneRuns, UpTo
<1> QED
  BY <1>1, <1>2, <1>3, <1>4 DEF KbInv, KbTyped

LEMMA KbStepwise == ASSUME KbBounds, KbInv, [K!Next]_K!vars PROVE KbInv'
<1>1. CASE UNCHANGED K!vars
  BY <1>1 DEF K!vars, KbInv, KbTyped, TablesTyped, JobTyped, HistoryTyped, RunsAtChunks, OneRun,
     RunsRight, RunRight, RestRight, Clean, NoneRuns, UpTo, K!Holds
<1>2. CASE K!Next
  BY <1>2, StartsEdit, Enqueues, RequestFailed, Deleted, Taken, ReadText, Wiped, StoredChunk,
     StoreFailed, Finished, Thrown, Stalled, Evicted DEF K!Next, K!Work
<1> QED
  BY <1>1, <1>2

LEMMA KbInvariant == ASSUME KbBounds PROVE K!Spec => []KbInv
BY KbInitially, KbStepwise, PTL DEF K!Spec

(* Types of the tables, the queue and the requests, for any texts, requests, *)
(* slots and bounds.                                                         *)
THEOREM KnowledgeTypeCorrect == ASSUME KbBounds PROVE K!Spec => []K!TypeOK
<1>1. KbInv => K!TypeOK
  BY KbTypes DEF KbInv
<1> QED
  BY <1>1, KbInvariant, PTL

(* processKbEmbeddingJob: however many users edit an article and however its *)
(* job is repeated, what is stored at rest is the last text, all of it and   *)
(* nothing older, but for an ignored add and the faults nobody makes up for. *)
THEOREM EmbeddingsOfLastText == ASSUME KbBounds PROVE K!Spec => []RestingIsEmbedded
<1>1. ASSUME KbInv PROVE RestingIsEmbedded
  <2> SUFFICES ASSUME AtRest, article \in Texts, ~ignored, ~broken PROVE Embedded
    BY DEF RestingIsEmbedded
  <2>1. Clean /\ NoneRuns
    BY <1>1 DEF AtRest, Clean, NoneRuns, KbInv, KbTyped, TablesTyped, JobTyped
  <2>2. UpTo(Chunks[article] + 1) /\ Chunks[article] \in Nat
    BY <1>1, <2>1, ChunksAssumption DEF KbInv, RestRight, AtRest
  <2>3. DOMAIN embedding = K!Indices /\ K!Indices \subseteq Nat
    BY <1>1, IndicesAre DEF KbInv, KbTyped, TablesTyped
  <2> QED
    <3> SUFFICES ASSUME NEW i \in K!Indices
                 PROVE  IF i <= Chunks[article] THEN embedding[i] = article
                        ELSE embedding[i] \notin Texts
      BY <2>3 DEF Embedded
    <3>1. embedding[i] = IF i < Chunks[article] + 1 THEN article ELSE None
      BY <2>2 DEF UpTo
    <3>2. i < Chunks[article] + 1 <=> i <= Chunks[article]
      BY <2>2, <2>3
    <3> QED
      BY <3>1, <3>2 DEF KbBounds
<1>2. KbInv => RestingIsEmbedded
  BY <1>1
<1> QED
  BY <1>2, KbInvariant, PTL
=============================================================================

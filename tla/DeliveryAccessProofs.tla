------------------------ MODULE DeliveryAccessProofs ------------------------
(***************************************************************************)
(* Theorems about DeliveryAccess, for any licences, installs, purchases,   *)
(* caps and number of requests in flight.                                  *)
(***************************************************************************)
EXTENDS DeliveryAccess, FiniteSetTheorems, TLAPS

-----------------------------------------------------------------------------
(* Type correctness. *)

Coherent(q) ==
    /\ q \in RequestRow
    /\ q.step \in {"claim", "key", "seat", "count", "write"} => q.lic \in Licences
    /\ q.step \in {"find", "claim", "seat", "count", "write"} => q.install \in Installs
    /\ q.outcome = "granted" => q.lic \in Licences
    /\ q.step \notin {"reply", "done"} => q.outcome = "none"

LEMMA CoherentRequest == ASSUME TypeOK, NEW r \in Requests PROVE Coherent(req[r])
BY DEF TypeOK, Coherent

\* The requests stay well typed when one of them moves on.
LEMMA GoType ==
    ASSUME TypeOK, NEW r \in Requests, NEW q, Coherent(q), Go(r, q)
    PROVE  req' \in [Requests -> RequestRow] /\ \A s \in Requests : Coherent(req'[s])
<1>1. req' = [req EXCEPT ![r] = q] /\ req \in [Requests -> RequestRow]
  BY DEF Go, TypeOK
<1>2. \A s \in Requests : Coherent(req[s])
  BY CoherentRequest
<1>3. q \in RequestRow
  BY DEF Coherent
<1>4. req' \in [Requests -> RequestRow]
  BY <1>1, <1>3
<1>5. ASSUME NEW s \in Requests PROVE Coherent(req'[s])
  <2>1. CASE s = r
    BY <1>1, <2>1
  <2>2. CASE s # r
    BY <1>1, <1>2, <2>2
  <2>3. QED
    BY <2>1, <2>2
<1>6. QED
  BY <1>4, <1>5

LEMMA NoRequestType == Coherent(NoRequest)
BY DEF Coherent, NoRequest, RequestRow, Steps, SeatStates, Outcomes, MaybeLicence

LEMMA ReplyType ==
    ASSUME NEW q, Coherent(q), NEW outcome \in Outcomes,
           outcome = "granted" => q.lic \in Licences
    PROVE  Coherent(Reply(q, outcome)) /\ Reply(q, outcome).step = "reply"
BY DEF Coherent, RequestRow, Steps, Reply

\* A row of license_activations is rewritten, never removed.
RowsStay == \A i \in Installs : activation[i] # NoActivation => activation'[i] # NoActivation

LEMMA NotAnActivation == NoActivation \notin Activation
BY AccessAssumption DEF NoActivation, Activation

LEMMA ClaimsStay ==
    ASSUME TypeOK, RowsStay, UNCHANGED req
    PROVE  \A r \in Requests : At(r, "claim")' => (activation[req[r].install] # NoActivation)'
BY DEF TypeOK, RowsStay, At

\* The rows and the history of a step that only moves a request.
LEMMA OnlyMoves ==
    ASSUME TypeOK, NEW r \in Requests, NEW q, Coherent(q), Go(r, q), UNCHANGED <<rows, history>>,
           q.step = "claim" => activation[q.install] # NoActivation
    PROVE  TypeOK'
<1>1. req' \in [Requests -> RequestRow] /\ \A s \in Requests : Coherent(req'[s])
  BY GoType
<1>2. ASSUME NEW s \in Requests, req'[s].step = "claim"
      PROVE  activation'[req'[s].install] # NoActivation
  BY <1>2 DEF TypeOK, Go, At, rows
<1>3. QED
  BY <1>1, <1>2 DEF TypeOK, Coherent, rows, history, At

LEMMA PurchaseType == ASSUME TypeOK, NEW p \in Purchases, Purchase(p) PROVE TypeOK'
<1>1. BoughtFrom[p] \in Installs /\ Bought[p] \in Licences
  BY AccessAssumption
<1>2. CASE FindActivation(p)
  BY <1>2 DEF FindActivation, TypeOK, history, At
<1>3. CASE Arm(p)
  <2>1. arming' \in [Purchases -> {"idle", "insert", "update", "done"}]
    BY <1>3 DEF Arm, TypeOK
  <2>5. [NoActivation EXCEPT !.lic = Bought[p]] \in Activation
    BY <1>1 DEF NoActivation, Activation
  <2>2. activation' \in [Installs -> Activation \cup {NoActivation}] /\ RowsStay
    BY <1>1, <1>3, <2>5, NotAnActivation DEF Arm, TypeOK, RowsStay
  <2>3. armed' \in [Installs -> Nat]
    BY <1>1, <1>3 DEF Arm, TypeOK
  <2>4. QED
    BY <1>3, <2>1, <2>2, <2>3, ClaimsStay DEF Arm, TypeOK
<1>4. CASE LoseArming(p)
  BY <1>4 DEF LoseArming, TypeOK, history, At
<1>5. QED
  BY <1>2, <1>3, <1>4 DEF Purchase

LEMMA ExpireType == ASSUME TypeOK, NEW i \in Installs, Expire(i) PROVE TypeOK'
<1>1. activation[i] \in Activation
  BY DEF Expire, TypeOK
<1>2. [activation[i] EXCEPT !.expired = TRUE] \in Activation
  BY <1>1 DEF Activation
<1>3. activation' \in [Installs -> Activation \cup {NoActivation}]
  BY <1>2 DEF Expire, TypeOK
<1>4. RowsStay
  BY <1>2, NotAnActivation DEF Expire, TypeOK, RowsStay
<1>5. QED
  BY <1>3, <1>4, ClaimsStay DEF Expire, TypeOK, history

LEMMA WriteSeatType ==
    ASSUME TypeOK, NEW l \in Licences, NEW i \in Installs, NEW s \in SeatStates,
           WriteSeat(l, i, s)
    PROVE  /\ seat' \in [Licences \X Installs -> SeatStates]
           /\ steady' \in [Requests -> SUBSET Licences]
BY DEF WriteSeat, TypeOK

LEMMA AdministrationType == ASSUME TypeOK, Administration PROVE TypeOK'
<1>1. ASSUME NEW l \in Licences, ChangeStatus(l) PROVE TypeOK'
  <2>1. usable' \subseteq Licences
    BY <1>1 DEF ChangeStatus, TypeOK
  <2>2. seen' \in [Requests -> SUBSET Licences]
    BY <1>1, <2>1 DEF ChangeStatus, TypeOK
  <2>3. QED
    BY <1>1, <2>1, <2>2 DEF ChangeStatus, TypeOK, At
<1>2. ASSUME NEW l \in Licences, NEW n \in Caps, EditCap(l, n) PROVE TypeOK'
  BY <1>2, AccessAssumption DEF EditCap, TypeOK, At
<1>3. ASSUME NEW l \in Licences, NEW i \in Installs, Release(l, i) PROVE TypeOK'
  <2>1. "none" \in SeatStates
    BY DEF SeatStates
  <2>2. /\ seat' \in [Licences \X Installs -> SeatStates]
        /\ steady' \in [Requests -> SUBSET Licences]
    BY <1>3, <2>1, WriteSeatType DEF Release
  <2>3. ASSUME NEW r \in Requests PROVE Coherent(req'[r])
    <3>1. Coherent(req[r])
      BY CoherentRequest
    <3>2. req'[r] = [req[r] EXCEPT !.current = FALSE] \/ req'[r] = req[r]
      BY <1>3 DEF Release
    <3>3. QED
      BY <3>1, <3>2 DEF Coherent, RequestRow
  <2>4. req' \in [Requests -> RequestRow]
    BY <1>3, <2>3 DEF Release, Coherent
  <2>5. ASSUME NEW r \in Requests, req'[r].step = "claim"
        PROVE  activation'[req'[r].install] # NoActivation
    BY <1>3, <2>5 DEF Release, TypeOK, At, RequestRow
  <2>6. QED
    BY <1>3, <2>2, <2>3, <2>4, <2>5 DEF Release, TypeOK, Coherent, At
<1>4. QED
  BY <1>1, <1>2, <1>3 DEF Administration

LEMMA BeginType ==
    ASSUME TypeOK, NEW r \in Requests, NEW q, Coherent(q), Begin(r, q), q.step # "claim"
    PROVE  TypeOK'
<1>1. req' \in [Requests -> RequestRow] /\ \A s \in Requests : Coherent(req'[s])
  BY GoType DEF Begin
<1>2. seen' \in [Requests -> SUBSET Licences] /\ steady' \in [Requests -> SUBSET Licences]
  BY DEF Begin, TypeOK
<1>3. ASSUME NEW s \in Requests, req'[s].step = "claim"
      PROVE  activation'[req'[s].install] # NoActivation
  BY <1>3 DEF Begin, TypeOK, Go, At, rows
<1>4. QED
  BY <1>1, <1>2, <1>3 DEF Begin, TypeOK, Coherent, rows, At

LEMMA FinishType ==
    ASSUME TypeOK, NEW r \in Requests, NEW q, Coherent(q), Finish(r, q), q.step # "claim"
    PROVE  TypeOK'
<1>1. req' \in [Requests -> RequestRow] /\ \A s \in Requests : Coherent(req'[s])
  BY GoType DEF Finish
<1>2. seen' \in [Requests -> SUBSET Licences] /\ steady' \in [Requests -> SUBSET Licences]
  BY DEF Finish, TypeOK
<1>3. ASSUME NEW s \in Requests, req'[s].step = "claim"
      PROVE  activation'[req'[s].install] # NoActivation
  BY <1>3 DEF Finish, TypeOK, Go, At, rows
<1>4. QED
  BY <1>1, <1>2, <1>3 DEF Finish, TypeOK, Coherent, rows, At

LEMMA OpenType ==
    ASSUME TypeOK, NEW r \in Requests,
           \/ \E key \in Presented, i \in Via, own \in From : OpenSession(r, key, i, own)
           \/ \E l \in Refreshed, own \in From : RefreshSession(r, l, own)
    PROVE  TypeOK'
<1>1. ASSUME NEW key \in Presented, NEW i \in Via, NEW own \in From, OpenSession(r, key, i, own)
      PROVE  TypeOK'
  <2> DEFINE q == [NoRequest EXCEPT !.install = i, !.own = own, !.lic = key,
                     !.step = IF key = NoLicence /\ i # NoInstall THEN "find" ELSE "resolve"]
  <2>1. key \in MaybeLicence /\ i \in Installs \cup {NoInstall} /\ own \in BOOLEAN
    BY AccessAssumption DEF MaybeLicence
  <2>2. Coherent(q)
    BY <2>1 DEF Coherent, NoRequest, RequestRow, Steps, SeatStates, Outcomes, MaybeLicence
  <2>3. Begin(r, q) /\ q.step # "claim"
    BY <1>1 DEF OpenSession, NoRequest
  <2> HIDE DEF q
  <2>4. QED
    BY <2>2, <2>3, BeginType
<1>2. ASSUME NEW l \in Refreshed, NEW own \in From, RefreshSession(r, l, own) PROVE TypeOK'
  <2> DEFINE q == [NoRequest EXCEPT !.own = own, !.lic = l, !.step = "key"]
  <2>1. l \in Licences /\ own \in BOOLEAN
    BY AccessAssumption
  <2>2. Coherent(q)
    BY <2>1 DEF Coherent, NoRequest, RequestRow, Steps, SeatStates, Outcomes, MaybeLicence
  <2>3. Begin(r, q) /\ q.step # "claim"
    BY <1>2 DEF RefreshSession, NoRequest
  <2> HIDE DEF q
  <2>4. QED
    BY <2>2, <2>3, BeginType
<1>3. QED
  BY <1>1, <1>2

LEMMA ClaimType == ASSUME TypeOK, NEW r \in Requests, FindClaim(r) \/ TakeClaim(r) PROVE TypeOK'
<1>1. Coherent(req[r])
  BY CoherentRequest
<1>2. CASE FindClaim(r)
  <2> DEFINE i == req[r].install
             taken == [req[r] EXCEPT !.step = "claim", !.lic = activation[i].lic]
             passed == [req[r] EXCEPT !.step = "resolve"]
  <2>1. i \in Installs /\ req[r].outcome = "none"
    BY <1>1, <1>2 DEF FindClaim, At, Coherent
  <2>2. Redeemable(activation[i]) =>
          Coherent(taken) /\ taken.install = i /\ activation[i] # NoActivation
    <3>1. Redeemable(activation[i]) =>
            activation[i].lic \in Licences /\ activation[i] # NoActivation
      BY <2>1 DEF Redeemable, TypeOK, Activation
    <3>2. QED
      BY <1>1, <2>1, <3>1 DEF Coherent, RequestRow, Steps, MaybeLicence
  <2>3. Coherent(passed) /\ passed.step = "resolve"
    BY <1>1, <2>1 DEF Coherent, RequestRow, Steps
  <2>4. (Go(r, taken) /\ Redeemable(activation[i])) \/ Go(r, passed)
    BY <1>2 DEF FindClaim
  <2>5. UNCHANGED <<rows, history>>
    BY <1>2 DEF FindClaim
  <2> HIDE DEF taken, passed
  <2>6. QED
    BY <2>2, <2>3, <2>4, <2>5, OnlyMoves
<1>3. CASE TakeClaim(r)
  <2> DEFINE i == req[r].install
             taken == [req[r] EXCEPT !.step = "key", !.activated = TRUE]
             passed == [req[r] EXCEPT !.step = "resolve", !.lic = NoLicence]
  <2>1. i \in Installs /\ req[r].lic \in Licences /\ req[r].outcome = "none"
    BY <1>1, <1>3 DEF TakeClaim, At, Coherent
  <2>2. Coherent(taken) /\ taken.step = "key"
    BY <1>1, <2>1 DEF Coherent, RequestRow, Steps
  <2>3. Coherent(passed) /\ passed.step = "resolve"
    BY <1>1, <2>1 DEF Coherent, RequestRow, Steps, MaybeLicence
  <2>4. PICK q : /\ Go(r, q) /\ Coherent(q) /\ q.step \in {"key", "resolve"}
                 /\ activation' \in {activation, [activation EXCEPT ![i].claimed = TRUE]}
                 /\ won' \in {won, [won EXCEPT ![i] = won[i] + 1]}
    <3>1. CASE Go(r, taken)
      BY <1>3, <2>2, <3>1 DEF TakeClaim
    <3>2. CASE Go(r, passed)
      BY <1>3, <2>3, <3>2 DEF TakeClaim
    <3>3. QED
      BY <1>3, <3>1, <3>2 DEF TakeClaim
  <2> HIDE DEF taken, passed
  <2>5. req' \in [Requests -> RequestRow] /\ \A s \in Requests : Coherent(req'[s])
    BY <2>4, GoType
  <2>6. activation' \in [Installs -> Activation \cup {NoActivation}] /\ RowsStay
    <3>1. activation[i] \in Activation
      BY <1>3, <2>1 DEF TakeClaim, TypeOK
    <3>2. [activation[i] EXCEPT !.claimed = TRUE] \in Activation
      BY <3>1 DEF Activation
    <3>3. CASE activation' = activation
      BY <3>3 DEF TypeOK, RowsStay
    <3>4. CASE activation' = [activation EXCEPT ![i].claimed = TRUE]
      BY <2>1, <3>2, <3>4, NotAnActivation DEF TypeOK, RowsStay
    <3>5. QED
      BY <2>4, <3>3, <3>4
  <2>7. ASSUME NEW s \in Requests, req'[s].step = "claim"
        PROVE  activation'[req'[s].install] # NoActivation
    BY <2>4, <2>6, <2>7, CoherentRequest DEF TypeOK, RowsStay, Go, At, Coherent
  <2>8. won' \in [Installs -> Nat]
    BY <2>1, <2>4 DEF TypeOK
  <2>9. QED
    BY <1>3, <2>5, <2>6, <2>7, <2>8 DEF TakeClaim, TypeOK, Coherent, At
<1>4. QED
  BY <1>2, <1>3

LEMMA KeyType == ASSUME TypeOK, NEW r \in Requests, KeyFor(r) PROVE TypeOK'
<1> DEFINE kept == [req[r] EXCEPT !.step = "resolve"]
           dropped == [req[r] EXCEPT !.step = "resolve", !.lic = NoLicence, !.activated = FALSE]
<1>1. Coherent(req[r]) /\ req[r].outcome = "none"
  BY CoherentRequest DEF KeyFor, At, Coherent
<1>2. Coherent(kept) /\ Coherent(dropped) /\ kept.step # "claim" /\ dropped.step # "claim"
  BY <1>1 DEF Coherent, RequestRow, Steps, MaybeLicence
<1>3. Go(r, kept) \/ Go(r, dropped)
  BY DEF KeyFor
<1>4. UNCHANGED <<rows, history>>
  BY DEF KeyFor
<1> HIDE DEF kept, dropped
<1>5. QED
  BY <1>2, <1>3, <1>4, OnlyMoves

LEMMA ResolveType == ASSUME TypeOK, NEW r \in Requests, Resolve(r) PROVE TypeOK'
<1> DEFINE q == req[r]
           capped == [q EXCEPT !.step = "seat", !.cap = cap[q.lic]]
<1>1. Coherent(q) /\ q.outcome = "none"
  BY CoherentRequest DEF Resolve, At, Coherent
<1>2. PICK n : /\ Go(r, n) /\ Coherent(n) /\ n.step # "claim"
  <2>1. CASE q.lic = NoLicence
    BY <1>1, <2>1, ReplyType DEF Resolve, Outcomes
  <2>2. CASE q.lic # NoLicence /\ ~Admits(q.lic, q.own)
    BY <1>1, <2>2, ReplyType DEF Resolve, Outcomes
  <2>3. CASE q.lic # NoLicence /\ Admits(q.lic, q.own) /\ cap[q.lic] > 0 /\ q.install # NoInstall
    <3>1. q.lic \in Licences /\ q.install \in Installs
      BY <1>1, <2>3 DEF Coherent, RequestRow, MaybeLicence
    <3>2. cap[q.lic] \in Nat
      BY <3>1, AccessAssumption DEF TypeOK
    <3>3. Coherent(capped) /\ capped.step = "seat"
      BY <1>1, <3>1, <3>2 DEF Coherent, RequestRow, Steps
    <3>4. Go(r, capped)
      BY <2>3 DEF Resolve
    <3> HIDE DEF capped
    <3>5. QED
      BY <3>3, <3>4
  <2>4. CASE /\ q.lic # NoLicence /\ Admits(q.lic, q.own)
             /\ ~(cap[q.lic] > 0 /\ q.install # NoInstall)
    <3>1. q.lic \in Licences
      BY <1>1, <2>4 DEF Coherent, RequestRow, MaybeLicence
    <3>2. Coherent(Reply(q, "granted")) /\ Reply(q, "granted").step # "claim"
      BY <1>1, <3>1, ReplyType DEF Outcomes
    <3>3. Go(r, Reply(q, "granted"))
      BY <2>4 DEF Resolve
    <3>4. QED
      BY <3>2, <3>3
  <2>5. QED
    BY <2>1, <2>2, <2>3, <2>4
<1>3. req' \in [Requests -> RequestRow] /\ \A s \in Requests : Coherent(req'[s])
  BY <1>2, GoType
<1>4. ASSUME NEW s \in Requests, req'[s].step = "claim"
      PROVE  activation'[req'[s].install] # NoActivation
  BY <1>2, <1>4 DEF TypeOK, Go, At, rows, Resolve
<1>5. welcome' \subseteq Licences \X (Installs \cup {NoInstall})
  BY <1>1 DEF Resolve, TypeOK, Coherent, RequestRow
<1>6. QED
  BY <1>3, <1>4, <1>5 DEF Resolve, TypeOK, Coherent, At, rows

LEMMA SeatType ==
    ASSUME TypeOK, NEW r \in Requests, FindSeat(r) \/ CountSeats(r)
    PROVE  TypeOK'
<1> DEFINE q == req[r]
           row == seat[<<q.lic, q.install>>]
           turned == TurnsAway(q.found, activeCount(q.lic), q.cap)
           found == [q EXCEPT !.step = "count", !.found = row, !.current = row # "none"]
           counted == [q EXCEPT !.step = "write", !.turned = turned]
<1>1. Coherent(q) /\ q.outcome = "none" /\ q.lic \in Licences /\ q.install \in Installs
  BY CoherentRequest DEF FindSeat, CountSeats, At, Coherent
<1>2. row \in SeatStates
  BY <1>1 DEF TypeOK
<1>3. Coherent(found) /\ found.step # "claim"
  BY <1>1, <1>2 DEF Coherent, RequestRow, Steps
<1>4. Coherent(counted) /\ counted.step # "claim"
  <2>1. turned \in BOOLEAN
    BY DEF TurnsAway
  <2> HIDE DEF turned
  <2>2. QED
    BY <1>1, <2>1 DEF Coherent, RequestRow, Steps
<1>5. Coherent(Reply(q, "granted")) /\ Reply(q, "granted").step # "claim"
  BY <1>1, ReplyType DEF Outcomes
<1>6. Go(r, found) \/ Go(r, counted) \/ Go(r, Reply(q, "granted"))
  BY DEF FindSeat, CountSeats
<1>7. UNCHANGED <<rows, history>>
  BY DEF FindSeat, CountSeats
<1> HIDE DEF found, counted
<1>8. QED
  BY <1>3, <1>4, <1>5, <1>6, <1>7, OnlyMoves

LEMMA RecordType == ASSUME TypeOK, NEW r \in Requests, RecordSeat(r) PROVE TypeOK'
<1> DEFINE q == req[r]
           outcome == IF q.turned THEN "capped" ELSE "granted"
<1>1. Coherent(q) /\ q.lic \in Licences /\ q.install \in Installs
  BY CoherentRequest DEF RecordSeat, At, Coherent
<1>2. Coherent(Reply(q, outcome)) /\ Reply(q, outcome).step = "reply"
  <2>1. outcome \in Outcomes
    BY DEF Outcomes
  <2> HIDE DEF outcome
  <2>2. QED
    BY <1>1, <2>1, ReplyType
<1>3. Go(r, Reply(q, outcome))
  BY DEF RecordSeat
<1>4. req' \in [Requests -> RequestRow] /\ \A s \in Requests : Coherent(req'[s])
  BY <1>2, <1>3, GoType
<1>5. ASSUME NEW s \in Requests, req'[s].step = "claim"
      PROVE  activation'[req'[s].install] # NoActivation
  BY <1>2, <1>3, <1>5 DEF TypeOK, Go, At, RecordSeat
<1>6. /\ seat' \in [Licences \X Installs -> SeatStates]
      /\ steady' \in [Requests -> SUBSET Licences]
  <2>1. CASE \E s \in SeatStates : WriteSeat(q.lic, q.install, s)
    BY <1>1, <2>1, WriteSeatType
  <2>2. CASE UNCHANGED <<seat, steady>>
    BY <2>2 DEF TypeOK
  <2>3. QED
    BY <2>1, <2>2 DEF RecordSeat, SeatStates
<1>7. QED
  BY <1>4, <1>5, <1>6 DEF RecordSeat, TypeOK, Coherent, At

LEMMA AnswerType ==
    ASSUME TypeOK, NEW r \in Requests, Respond(r) \/ Fail(r)
    PROVE  TypeOK'
<1>1. Coherent(req[r])
  BY CoherentRequest
<1>2. CASE Respond(r)
  <2>1. PICK handed \in MaybeLicence :
          Finish(r, [NoRequest EXCEPT !.step = "done", !.lic = req[r].lic,
                       !.activated = req[r].activated, !.outcome = req[r].outcome,
                       !.handed = handed])
    BY <1>1, <1>2 DEF Respond, Coherent, RequestRow, MaybeLicence
  <2> DEFINE q == [NoRequest EXCEPT !.step = "done", !.lic = req[r].lic,
                     !.activated = req[r].activated, !.outcome = req[r].outcome,
                     !.handed = handed]
  <2>2. Coherent(q) /\ q.step # "claim"
    <3>1. /\ req[r].lic \in MaybeLicence /\ req[r].activated \in BOOLEAN
          /\ req[r].outcome \in Outcomes /\ "none" \in SeatStates /\ "done" \in Steps
          /\ req[r].outcome = "granted" => req[r].lic \in Licences
      BY <1>1 DEF Coherent, RequestRow, SeatStates, Steps
    <3>2. /\ q \in RequestRow /\ q.step = "done"
          /\ q.outcome = req[r].outcome /\ q.lic = req[r].lic
      BY <3>1 DEF NoRequest, RequestRow
    <3> HIDE DEF q
    <3>3. QED
      BY <3>1, <3>2 DEF Coherent
  <2>3. Finish(r, q)
    BY <2>1
  <2> HIDE DEF q
  <2>4. QED
    BY <2>2, <2>3, FinishType
<1>3. CASE Fail(r)
  <2> DEFINE q == [NoRequest EXCEPT !.step = "done", !.outcome = "failed"]
  <2>1. Coherent(q) /\ q.step # "claim"
    BY DEF Coherent, NoRequest, RequestRow, Steps, SeatStates, MaybeLicence, Outcomes
  <2>2. Finish(r, q)
    BY <1>3 DEF Fail
  <2> HIDE DEF q
  <2>3. QED
    BY <2>1, <2>2, FinishType
<1>4. QED
  BY <1>2, <1>3

LEMMA RequestType == ASSUME TypeOK, NEW r \in Requests, Request(r) PROVE TypeOK'
BY OpenType, ClaimType, KeyType, ResolveType, SeatType, RecordType, AnswerType DEF Request

LEMMA TypeStep == TypeOK /\ [Next]_vars => TypeOK'
<1> SUFFICES ASSUME TypeOK, [Next]_vars PROVE TypeOK'
  OBVIOUS
<1>1. CASE UNCHANGED vars
  BY <1>1 DEF vars, rows, history, TypeOK, At
<1>2. CASE Next
  BY <1>2, PurchaseType, ExpireType, AdministrationType, RequestType DEF Next
<1>3. QED
  BY <1>1, <1>2

LEMMA TypeInit == Init => TypeOK
<1>1. Coherent(NoRequest) /\ NoRequest.step = "idle"
  BY NoRequestType DEF NoRequest
<1>2. FirstCap \in [Licences -> Nat]
  BY AccessAssumption
<1>3. QED
  BY <1>1, <1>2, AccessAssumption DEF Init, TypeOK, Coherent, SeatStates, At

\* Rows, requests and histories keep their types whatever interleaves; a
\* request that takes a claim or a seat always knows for whom.
THEOREM TypeCorrect == Spec => []TypeOK
BY TypeInit, TypeStep, PTL DEF Spec

-----------------------------------------------------------------------------
(* Claims. An unclaimed row is an arming not yet redeemed. *)

Unspent(i) == activation[i] # NoActivation /\ ~activation[i].claimed

Accounted ==
    \A i \in Installs : won[i] <= armed[i] /\ (Unspent(i) => won[i] < armed[i])

ClaimIInv == TypeOK /\ Accounted

LEMMA ClaimFrame ==
    ASSUME Accounted, UNCHANGED <<activation, armed, won>>
    PROVE  Accounted'
BY DEF Accounted, Unspent

LEMMA ArmAccounted == ASSUME ClaimIInv, NEW p \in Purchases, Arm(p) PROVE Accounted'
<1> SUFFICES ASSUME NEW i \in Installs
             PROVE  (won[i] <= armed[i] /\ (Unspent(i) => won[i] < armed[i]))'
  BY DEF Accounted
<1>1. /\ won[i] \in Nat /\ armed[i] \in Nat /\ won' = won
      /\ won[i] <= armed[i] /\ (Unspent(i) => won[i] < armed[i])
  BY DEF ClaimIInv, TypeOK, Accounted, Arm
<1>2. \/ armed'[i] = armed[i] /\ activation'[i] = activation[i]
      \/ armed'[i] = armed[i] + 1
  BY DEF Arm, ClaimIInv, TypeOK
<1>3. QED
  BY <1>1, <1>2 DEF Unspent

LEMMA ExpireAccounted == ASSUME ClaimIInv, NEW j \in Installs, Expire(j) PROVE Accounted'
<1> SUFFICES ASSUME NEW i \in Installs
             PROVE  (won[i] <= armed[i] /\ (Unspent(i) => won[i] < armed[i]))'
  BY DEF Accounted
<1>1. armed' = armed /\ won' = won
  BY DEF Expire, history
<1>2. activation'[i] = activation[i] \/ (i = j /\ activation[i] \in Activation)
  BY DEF Expire, ClaimIInv, TypeOK
<1>3. Unspent(i)' => Unspent(i)
  <2>1. CASE i = j /\ activation[i] \in Activation
    BY <2>1, NotAnActivation DEF Expire, Unspent, Activation, ClaimIInv, TypeOK
  <2>2. CASE activation'[i] = activation[i]
    BY <2>2 DEF Unspent
  <2>3. QED
    BY <1>2, <2>1, <2>2
<1>4. QED
  BY <1>1, <1>3 DEF ClaimIInv, Accounted

LEMMA TakeAccounted == ASSUME ClaimIInv, NEW r \in Requests, TakeClaim(r) PROVE Accounted'
<1>1. PICK j \in Installs : j = req[r].install /\ activation[j] \in Activation
  BY DEF TakeClaim, At, ClaimIInv, TypeOK
<1>2. CASE /\ Takes(activation[j]) /\ activation' = [activation EXCEPT ![j].claimed = TRUE]
           /\ won' = [won EXCEPT ![j] = won[j] + 1]
  <2>1. /\ activation' = [activation EXCEPT ![j].claimed = TRUE]
        /\ won' = [won EXCEPT ![j] = @ + 1] /\ armed' = armed
    BY <1>2 DEF TakeClaim
  <2>2. Unspent(j) /\ ~Unspent(j)'
    <3>1. Unspent(j)
      BY <1>1, <1>2, NotAnActivation DEF Unspent, Takes
    <3>2. activation'[j].claimed = TRUE
      BY <1>1, <2>1 DEF ClaimIInv, TypeOK, Activation
    <3>3. QED
      BY <3>1, <3>2 DEF Unspent
  <2>3. ASSUME NEW i \in Installs
        PROVE  (won[i] <= armed[i] /\ (Unspent(i) => won[i] < armed[i]))'
    <3>1. /\ won[i] \in Nat /\ armed[i] \in Nat
          /\ won[i] <= armed[i] /\ (Unspent(i) => won[i] < armed[i])
      BY DEF ClaimIInv, TypeOK, Accounted
    <3>2. CASE i = j
      <4>1. won'[i] = won[i] + 1 /\ armed'[i] = armed[i] /\ won[i] < armed[i] /\ ~Unspent(i)'
        BY <2>1, <2>2, <3>1, <3>2 DEF ClaimIInv, TypeOK
      <4>2. QED
        BY <3>1, <4>1
    <3>3. CASE i # j
      BY <2>1, <3>1, <3>3 DEF ClaimIInv, TypeOK, Unspent
    <3>4. QED
      BY <3>2, <3>3
  <2>4. QED
    BY <2>3 DEF Accounted
<1>3. CASE won' = won
  <2>1. /\ armed' = armed
        /\ activation' \in {activation, [activation EXCEPT ![j].claimed = TRUE]}
    BY <1>1 DEF TakeClaim
  <2>2. ASSUME NEW i \in Installs
        PROVE  Unspent(i)' => Unspent(i)
    <3>1. CASE activation' = activation
      BY <3>1 DEF Unspent
    <3>2. CASE activation' = [activation EXCEPT ![j].claimed = TRUE]
      BY <1>1, <3>2, NotAnActivation DEF Unspent, Activation, ClaimIInv, TypeOK
    <3>3. QED
      BY <2>1, <3>1, <3>2
  <2>3. QED
    BY <1>3, <2>1, <2>2 DEF ClaimIInv, Accounted
<1>4. QED
  BY <1>1, <1>2, <1>3 DEF TakeClaim

LEMMA ClaimStep == ClaimIInv /\ [Next]_vars => ClaimIInv'
<1> SUFFICES ASSUME ClaimIInv, [Next]_vars PROVE Accounted'
  BY TypeStep DEF ClaimIInv
<1>1. Accounted
  BY DEF ClaimIInv
<1>2. CASE UNCHANGED vars
  BY <1>1, <1>2, ClaimFrame DEF vars, rows, history
<1>3. ASSUME NEW p \in Purchases, Purchase(p) PROVE Accounted'
  <2>1. CASE Arm(p)
    BY <2>1, ArmAccounted
  <2>2. CASE FindActivation(p) \/ LoseArming(p)
    BY <1>1, <2>2, ClaimFrame DEF FindActivation, LoseArming, history
  <2>3. QED
    BY <1>3, <2>1, <2>2 DEF Purchase
<1>4. ASSUME NEW i \in Installs, Expire(i) PROVE Accounted'
  BY <1>4, ExpireAccounted
<1>5. CASE Administration
  BY <1>1, <1>5, ClaimFrame DEF Administration, ChangeStatus, EditCap, Release
<1>6. ASSUME NEW r \in Requests, Request(r) PROVE Accounted'
  <2>1. CASE TakeClaim(r)
    BY <2>1, TakeAccounted
  <2>2. CASE /\ ~TakeClaim(r)
    <3>1. UNCHANGED <<activation, armed, won>>
      BY <1>6, <2>2 DEF Request, OpenSession, RefreshSession, Begin, FindClaim, KeyFor, Resolve,
         FindSeat, CountSeats, RecordSeat, Respond, Fail, Finish, rows, history
    <3>2. QED
      BY <1>1, <3>1, ClaimFrame
  <2>3. QED
    BY <2>1, <2>2
<1>7. QED
  BY <1>2, <1>3, <1>4, <1>5, <1>6 DEF Next

\* An install id never redeems more keys than purchases were armed for it:
\* the conditional update is the lock, however many tabs and re-armings race.
THEOREM ClaimsAreSingleUse == Spec => []ClaimsWithinArmings
<1>1. Init => ClaimIInv
  BY TypeInit DEF Init, ClaimIInv, Accounted, Unspent
<1>2. ClaimIInv => ClaimsWithinArmings
  BY DEF ClaimIInv, Accounted, ClaimsWithinArmings
<1>3. QED
  BY <1>1, <1>2, ClaimStep, PTL DEF Spec

-----------------------------------------------------------------------------
(* Keys. What a request holds of a licence, it saw usable. *)

KeySeen(q, licences) ==
    /\ q.step \in {"seat", "count", "write"} => q.lic \in licences
    /\ (q.step \in {"reply", "done"} /\ q.outcome = "granted") => q.lic \in licences
    /\ (q.step \notin {"find", "claim", "key"} /\ q.activated) => q.lic \in licences
    /\ q.step \in {"find", "claim"} => ~q.activated
    /\ q.handed # NoLicence => q.step = "done" /\ q.activated /\ q.handed = q.lic

KeysSeen ==
    \A r \in Requests : (InFlight(r) => usable \subseteq seen[r]) /\ KeySeen(req[r], seen[r])

KeyIInv == TypeOK /\ KeysSeen

\* A request in flight moves on, and nothing else changes what was seen.
LEMMA KeyGo ==
    ASSUME KeyIInv, NEW r \in Requests, InFlight(r), NEW q, Go(r, q),
           UNCHANGED <<usable, seen>>, KeySeen(q, seen[r])
    PROVE  KeysSeen'
<1> SUFFICES ASSUME NEW s \in Requests
             PROVE  ((InFlight(s) => usable \subseteq seen[s]) /\ KeySeen(req[s], seen[s]))'
  BY DEF KeysSeen
<1>1. (InFlight(s) => usable \subseteq seen[s]) /\ KeySeen(req[s], seen[s])
  BY DEF KeyIInv, KeysSeen
<1>2. CASE s = r
  <2>1. req'[s] = q /\ usable' = usable /\ seen'[s] = seen[r] /\ usable \subseteq seen[r]
    BY <1>1, <1>2 DEF Go, KeyIInv, TypeOK
  <2>2. QED
    BY <2>1 DEF KeySeen, InFlight
<1>3. CASE s # r
  <2>1. req'[s] = req[s] /\ usable' = usable /\ seen'[s] = seen[s]
    BY <1>3 DEF Go, KeyIInv, TypeOK
  <2>2. QED
    BY <1>1, <2>1 DEF KeySeen, InFlight
<1>4. QED
  BY <1>2, <1>3

LEMMA KeyFrame == ASSUME KeysSeen, UNCHANGED <<usable, seen, req>> PROVE KeysSeen'
BY DEF KeysSeen, KeySeen, InFlight

LEMMA KeyAdministration == ASSUME KeyIInv, Administration PROVE KeysSeen'
<1>1. ASSUME NEW l \in Licences, ChangeStatus(l) PROVE KeysSeen'
  <2> SUFFICES ASSUME NEW s \in Requests
               PROVE  ((InFlight(s) => usable \subseteq seen[s]) /\ KeySeen(req[s], seen[s]))'
    BY DEF KeysSeen
  <2>1. seen[s] \subseteq seen'[s] /\ (InFlight(s) => usable' \subseteq seen'[s]) /\ req' = req
    BY <1>1 DEF ChangeStatus, KeyIInv, TypeOK
  <2>2. KeySeen(req[s], seen[s])
    BY DEF KeyIInv, KeysSeen
  <2>3. QED
    BY <2>1, <2>2 DEF KeySeen, InFlight
<1>2. ASSUME NEW l \in Licences, NEW n \in Caps, EditCap(l, n) PROVE KeysSeen'
  BY <1>2, KeyFrame DEF EditCap, KeyIInv
<1>3. ASSUME NEW l \in Licences, NEW i \in Installs, Release(l, i) PROVE KeysSeen'
  <2> SUFFICES ASSUME NEW s \in Requests
               PROVE  ((InFlight(s) => usable \subseteq seen[s]) /\ KeySeen(req[s], seen[s]))'
    BY DEF KeysSeen
  <2>1. req'[s] = [req[s] EXCEPT !.current = FALSE] \/ req'[s] = req[s]
    BY <1>3 DEF Release
  <2>2. req[s] \in RequestRow /\ UNCHANGED <<usable, seen>>
    BY <1>3 DEF KeyIInv, TypeOK, Release
  <2>3. (InFlight(s) => usable \subseteq seen[s]) /\ KeySeen(req[s], seen[s])
    BY DEF KeyIInv, KeysSeen
  <2>4. /\ req'[s].step = req[s].step /\ req'[s].lic = req[s].lic
        /\ req'[s].outcome = req[s].outcome /\ req'[s].activated = req[s].activated
        /\ req'[s].handed = req[s].handed
    BY <2>1, <2>2 DEF RequestRow
  <2>5. QED
    BY <2>2, <2>3, <2>4 DEF KeySeen, InFlight
<1>4. QED
  BY <1>1, <1>2, <1>3 DEF Administration

LEMMA KeyBegin ==
    ASSUME KeyIInv, NEW r \in Requests, NEW q, Begin(r, q),
           q.step \in {"find", "key", "resolve"}, ~q.activated, q.handed = NoLicence
    PROVE  KeysSeen'
<1> SUFFICES ASSUME NEW s \in Requests
             PROVE  ((InFlight(s) => usable \subseteq seen[s]) /\ KeySeen(req[s], seen[s]))'
  BY DEF KeysSeen
<1>1. usable' = usable
  BY DEF Begin, rows
<1>2. CASE s = r
  <2>1. req'[s] = q /\ seen'[s] = usable
    BY <1>2 DEF Begin, Go, KeyIInv, TypeOK
  <2>2. QED
    BY <1>1, <2>1 DEF KeySeen, InFlight
<1>3. CASE s # r
  <2>1. req'[s] = req[s] /\ seen'[s] = seen[s]
    BY <1>3 DEF Begin, Go, KeyIInv, TypeOK
  <2>2. QED
    BY <1>1, <2>1 DEF KeySeen, InFlight, KeyIInv, KeysSeen
<1>4. QED
  BY <1>2, <1>3

LEMMA KeyFinish ==
    ASSUME KeyIInv, NEW r \in Requests, NEW q, Finish(r, q), q.step = "done",
           KeySeen(q, seen[r] \cap {q.lic})
    PROVE  KeysSeen'
<1> SUFFICES ASSUME NEW s \in Requests
             PROVE  ((InFlight(s) => usable \subseteq seen[s]) /\ KeySeen(req[s], seen[s]))'
  BY DEF KeysSeen
<1>1. usable' = usable
  BY DEF Finish, rows
<1>2. CASE s = r
  <2>1. req'[s] = q /\ seen'[s] = seen[r] \cap {q.lic}
    BY <1>2 DEF Finish, Go, KeyIInv, TypeOK
  <2>2. QED
    BY <2>1 DEF KeySeen, InFlight
<1>3. CASE s # r
  <2>1. req'[s] = req[s] /\ seen'[s] = seen[s]
    BY <1>3 DEF Finish, Go, KeyIInv, TypeOK
  <2>2. QED
    BY <1>1, <2>1 DEF KeySeen, InFlight, KeyIInv, KeysSeen
<1>4. QED
  BY <1>2, <1>3

LEMMA KeyOpen ==
    ASSUME KeyIInv, NEW r \in Requests,
           \/ \E key \in Presented, i \in Via, own \in From : OpenSession(r, key, i, own)
           \/ \E l \in Refreshed, own \in From : RefreshSession(r, l, own)
    PROVE  KeysSeen'
<1>1. PICK q : /\ Begin(r, q) /\ q.step \in {"find", "key", "resolve"}
               /\ ~q.activated /\ q.handed = NoLicence
  <2>1. ASSUME NEW key, NEW i, NEW own, OpenSession(r, key, i, own)
        PROVE  \E q : /\ Begin(r, q) /\ q.step \in {"find", "key", "resolve"}
                      /\ ~q.activated /\ q.handed = NoLicence
    <3> DEFINE q == [NoRequest EXCEPT !.install = i, !.own = own, !.lic = key,
                       !.step = IF key = NoLicence /\ i # NoInstall THEN "find" ELSE "resolve"]
    <3>1. Begin(r, q)
      BY <2>1 DEF OpenSession
    <3>2. /\ q.step \in {"find", "key", "resolve"} /\ ~q.activated
          /\ q.handed = NoLicence
      BY DEF NoRequest
    <3> HIDE DEF q
    <3>3. QED
      BY <3>1, <3>2
  <2>2. ASSUME NEW l, NEW own, RefreshSession(r, l, own)
        PROVE  \E q : /\ Begin(r, q) /\ q.step \in {"find", "key", "resolve"}
                      /\ ~q.activated /\ q.handed = NoLicence
    <3> DEFINE q == [NoRequest EXCEPT !.own = own, !.lic = l, !.step = "key"]
    <3>1. Begin(r, q)
      BY <2>2 DEF RefreshSession
    <3>2. /\ q.step \in {"find", "key", "resolve"} /\ ~q.activated
          /\ q.handed = NoLicence
      BY DEF NoRequest
    <3> HIDE DEF q
    <3>3. QED
      BY <3>1, <3>2
  <2>3. QED
    BY <2>1, <2>2
<1>2. QED
  BY <1>1, KeyBegin

LEMMA KeyMoves ==
    ASSUME KeyIInv, NEW r \in Requests,
           FindClaim(r) \/ TakeClaim(r) \/ KeyFor(r) \/ FindSeat(r) \/ CountSeats(r) \/ RecordSeat(r)
    PROVE  KeysSeen'
<1> DEFINE held == req[r]
<1>1. /\ held \in RequestRow /\ InFlight(r) /\ KeySeen(held, seen[r])
      /\ usable \subseteq seen[r] /\ held.handed = NoLicence
  BY DEF KeyIInv, TypeOK, KeysSeen, KeySeen, FindClaim, TakeClaim, KeyFor, FindSeat, CountSeats,
         RecordSeat, At, InFlight
<1>2. UNCHANGED <<usable, seen>>
  BY DEF FindClaim, TakeClaim, KeyFor, FindSeat, CountSeats, RecordSeat, rows, history
<1>3. PICK q : Go(r, q) /\ KeySeen(q, seen[r])
  <2>1. ASSUME NEW q, Go(r, q), KeySeen(q, seen[r])
        PROVE  \E n : Go(r, n) /\ KeySeen(n, seen[r])
    BY <2>1
  <2>2. CASE FindClaim(r)
    <3> DEFINE taken == [held EXCEPT !.step = "claim", !.lic = activation[held.install].lic]
               passed == [held EXCEPT !.step = "resolve"]
    <3>1. KeySeen(taken, seen[r]) /\ KeySeen(passed, seen[r])
      BY <1>1, <2>2 DEF KeySeen, RequestRow, FindClaim, At
    <3>2. Go(r, taken) \/ Go(r, passed)
      BY <2>2 DEF FindClaim
    <3> HIDE DEF taken, passed
    <3>3. QED
      BY <3>1, <3>2
  <2>3. CASE TakeClaim(r)
    <3> DEFINE taken == [held EXCEPT !.step = "key", !.activated = TRUE]
               passed == [held EXCEPT !.step = "resolve", !.lic = NoLicence]
    <3>1. KeySeen(taken, seen[r]) /\ KeySeen(passed, seen[r])
      BY <1>1, <2>3 DEF KeySeen, RequestRow, TakeClaim, At
    <3>2. Go(r, taken) \/ Go(r, passed)
      BY <2>3 DEF TakeClaim
    <3> HIDE DEF taken, passed
    <3>3. QED
      BY <3>1, <3>2
  <2>4. CASE KeyFor(r)
    <3> DEFINE kept == [held EXCEPT !.step = "resolve"]
               dropped == [held EXCEPT !.step = "resolve", !.lic = NoLicence, !.activated = FALSE]
    <3>1. /\ held.lic \in usable => KeySeen(kept, seen[r])
          /\ KeySeen(dropped, seen[r])
      BY <1>1, <2>4 DEF KeySeen, RequestRow, KeyFor, At
    <3>2. (held.lic \in usable /\ Go(r, kept)) \/ Go(r, dropped)
      BY <2>4 DEF KeyFor
    <3> HIDE DEF kept, dropped
    <3>3. QED
      BY <3>1, <3>2
  <2>5. CASE FindSeat(r) \/ CountSeats(r) \/ RecordSeat(r)
    <3> DEFINE row == seat[<<held.lic, held.install>>]
               turned == TurnsAway(held.found, activeCount(held.lic), held.cap)
               found == [held EXCEPT !.step = "count", !.found = row, !.current = row # "none"]
               counted == [held EXCEPT !.step = "write", !.turned = turned]
    <3>1. KeySeen(Reply(held, "granted"), seen[r]) /\ KeySeen(Reply(held, "capped"), seen[r])
      BY <1>1, <2>5 DEF KeySeen, RequestRow, FindSeat, CountSeats, RecordSeat, At, Reply
    <3> HIDE DEF row, turned
    <3>2. KeySeen(found, seen[r]) /\ KeySeen(counted, seen[r])
      BY <1>1, <2>5 DEF KeySeen, RequestRow, FindSeat, CountSeats, RecordSeat, At
    <3>3. \/ Go(r, found) \/ Go(r, counted)
          \/ Go(r, Reply(held, "granted")) \/ Go(r, Reply(held, "capped"))
      BY <2>5 DEF FindSeat, CountSeats, RecordSeat, row, turned
    <3> HIDE DEF found, counted
    <3>4. QED
      BY <3>1, <3>2, <3>3
  <2>6. QED
    BY <2>2, <2>3, <2>4, <2>5
<1>4. QED
  BY <1>1, <1>2, <1>3, KeyGo

LEMMA KeyResolve == ASSUME KeyIInv, NEW r \in Requests, Resolve(r) PROVE KeysSeen'
<1> DEFINE held == req[r]
           capped == [held EXCEPT !.step = "seat", !.cap = cap[held.lic]]
<1>1. /\ held \in RequestRow /\ InFlight(r) /\ KeySeen(held, seen[r]) /\ held.step = "resolve"
      /\ usable \subseteq seen[r] /\ held.handed = NoLicence
  BY DEF KeyIInv, TypeOK, KeysSeen, KeySeen, Resolve, At, InFlight
<1>2. UNCHANGED <<usable, seen>>
  BY DEF Resolve, rows
<1>3. KeySeen(Reply(held, "anonymous"), seen[r]) /\ KeySeen(Reply(held, "refused"), seen[r])
  BY <1>1 DEF KeySeen, RequestRow, Reply
<1>4. Admits(held.lic, held.own) =>
        KeySeen(capped, seen[r]) /\ KeySeen(Reply(held, "granted"), seen[r])
  BY <1>1 DEF KeySeen, RequestRow, Reply, Admits
<1>5. \/ Go(r, Reply(held, "anonymous")) \/ Go(r, Reply(held, "refused"))
      \/ /\ Admits(held.lic, held.own)
         /\ Go(r, capped) \/ Go(r, Reply(held, "granted"))
  BY DEF Resolve
<1> HIDE DEF capped
<1>6. QED
  BY <1>1, <1>2, <1>3, <1>4, <1>5, KeyGo

LEMMA KeyAnswer ==
    ASSUME KeyIInv, NEW r \in Requests, Respond(r) \/ Fail(r)
    PROVE  KeysSeen'
<1>1. req[r] \in RequestRow /\ KeySeen(req[r], seen[r])
  BY DEF KeyIInv, TypeOK, KeysSeen
<1>2. CASE Respond(r)
  <2>1. PICK handed \in {req[r].lic, NoLicence} :
          /\ handed # NoLicence => req[r].activated
          /\ Finish(r, [NoRequest EXCEPT !.step = "done", !.lic = req[r].lic,
                          !.activated = req[r].activated, !.outcome = req[r].outcome,
                          !.handed = handed])
    BY <1>2 DEF Respond
  <2> DEFINE q == [NoRequest EXCEPT !.step = "done", !.lic = req[r].lic,
                     !.activated = req[r].activated, !.outcome = req[r].outcome,
                     !.handed = handed]
  <2>2. /\ q.step = "done" /\ q.lic = req[r].lic /\ q.activated = req[r].activated
        /\ q.outcome = req[r].outcome /\ q.handed = handed
    BY DEF NoRequest
  <2>3. Finish(r, q) /\ req[r].step = "reply"
    BY <1>2, <2>1 DEF Respond, At
  <2> HIDE DEF q
  <2>4. KeySeen(q, seen[r] \cap {q.lic})
    BY <1>1, <2>1, <2>2, <2>3 DEF KeySeen
  <2>5. QED
    BY <2>2, <2>3, <2>4, KeyFinish
<1>3. CASE Fail(r)
  <2> DEFINE q == [NoRequest EXCEPT !.step = "done", !.outcome = "failed"]
  <2>1. KeySeen(q, seen[r] \cap {q.lic}) /\ q.step = "done"
    BY DEF NoRequest, KeySeen
  <2>2. Finish(r, q)
    BY <1>3 DEF Fail
  <2> HIDE DEF q
  <2>3. QED
    BY <2>1, <2>2, KeyFinish
<1>4. QED
  BY <1>2, <1>3

LEMMA KeyStep == KeyIInv /\ [Next]_vars => KeyIInv'
<1> SUFFICES ASSUME KeyIInv, [Next]_vars PROVE KeysSeen'
  BY TypeStep DEF KeyIInv
<1>1. CASE UNCHANGED vars
  BY <1>1, KeyFrame DEF vars, rows, history, KeyIInv
<1>2. ASSUME NEW p \in Purchases, Purchase(p) PROVE KeysSeen'
  BY <1>2, KeyFrame DEF Purchase, FindActivation, Arm, LoseArming, history, KeyIInv
<1>3. ASSUME NEW i \in Installs, Expire(i) PROVE KeysSeen'
  BY <1>3, KeyFrame DEF Expire, history, KeyIInv
<1>4. CASE Administration
  BY <1>4, KeyAdministration
<1>5. ASSUME NEW r \in Requests, Request(r) PROVE KeysSeen'
  BY <1>5, KeyOpen, KeyMoves, KeyResolve, KeyAnswer DEF Request
<1>6. QED
  BY <1>1, <1>2, <1>3, <1>4, <1>5 DEF Next

\* No session is granted and no key handed over for a licence that was at no
\* moment of the request usable: revocation takes effect on the next request,
\* whatever claims, refresh tokens or keys are still around.
THEOREM GrantedWhileUsable == Spec => []OnlyWhileUsable
<1>1. Init => KeyIInv
  BY TypeInit DEF Init, KeyIInv, KeysSeen, KeySeen, NoRequest, InFlight
<1>2. KeyIInv => OnlyWhileUsable
  BY DEF KeyIInv, KeysSeen, KeySeen, OnlyWhileUsable, At
<1>3. QED
  BY <1>1, <1>2, KeyStep, PTL DEF Spec

-----------------------------------------------------------------------------
(* How a request comes to a seat. *)

SeatSteps == {"seat", "count", "write"}
SameSeat(p, q) == q.lic = p.lic /\ q.install = p.install

Course(r, q) ==
    \/ q.step \notin SeatSteps
    \/ /\ Resolve(r) /\ Admits(req[r].lic, req[r].own) /\ q.step = "seat"
       /\ SameSeat(req[r], q) /\ q.install \in Installs /\ q.cap = cap[q.lic]
    \/ /\ FindSeat(r) /\ q.step = "count" /\ SameSeat(req[r], q) /\ q.cap = req[r].cap
       /\ q.found = seat[<<q.lic, q.install>>]
    \/ /\ CountSeats(r) /\ q.step = "write" /\ SameSeat(req[r], q) /\ q.cap = req[r].cap
       /\ q.found = req[r].found
       /\ q.turned = TurnsAway(q.found, activeCount(q.lic), q.cap)

LEMMA CourseOfBegin ==
    ASSUME NEW r \in Requests,
           \/ \E key \in Presented, i \in Via, own \in From : OpenSession(r, key, i, own)
           \/ \E l \in Refreshed, own \in From : RefreshSession(r, l, own)
    PROVE  \E q : Go(r, q) /\ Course(r, q)
<1>1. ASSUME NEW key, NEW i, NEW own, OpenSession(r, key, i, own)
      PROVE  \E q : Go(r, q) /\ Course(r, q)
  <2> DEFINE q == [NoRequest EXCEPT !.install = i, !.own = own, !.lic = key,
                     !.step = IF key = NoLicence /\ i # NoInstall THEN "find" ELSE "resolve"]
  <2>1. Go(r, q)
    BY <1>1 DEF OpenSession, Begin
  <2>2. q.step \notin SeatSteps
    BY DEF NoRequest, SeatSteps
  <2> HIDE DEF q
  <2>3. QED
    BY <2>1, <2>2 DEF Course
<1>2. ASSUME NEW l, NEW own, RefreshSession(r, l, own)
      PROVE  \E q : Go(r, q) /\ Course(r, q)
  <2> DEFINE q == [NoRequest EXCEPT !.own = own, !.lic = l, !.step = "key"]
  <2>1. Go(r, q)
    BY <1>2 DEF RefreshSession, Begin
  <2>2. q.step \notin SeatSteps
    BY DEF NoRequest, SeatSteps
  <2> HIDE DEF q
  <2>3. QED
    BY <2>1, <2>2 DEF Course
<1>3. QED
  BY <1>1, <1>2

LEMMA CourseOfKey ==
    ASSUME TypeOK, NEW r \in Requests,
           \/ FindClaim(r) \/ TakeClaim(r) \/ KeyFor(r) \/ RecordSeat(r) \/ Respond(r) \/ Fail(r)
    PROVE  \E q : Go(r, q) /\ Course(r, q)
<1> DEFINE held == req[r]
<1>1. held \in RequestRow
  BY DEF TypeOK
<1>2. ASSUME NEW q, Go(r, q), q.step \notin SeatSteps
      PROVE  \E n : Go(r, n) /\ Course(r, n)
  BY <1>2 DEF Course
<1>3. CASE FindClaim(r)
  <2> DEFINE taken == [held EXCEPT !.step = "claim", !.lic = activation[held.install].lic]
             passed == [held EXCEPT !.step = "resolve"]
  <2>1. taken.step \notin SeatSteps /\ passed.step \notin SeatSteps
    BY <1>1 DEF RequestRow, SeatSteps
  <2>2. Go(r, taken) \/ Go(r, passed)
    BY <1>3 DEF FindClaim
  <2> HIDE DEF taken, passed
  <2>3. QED
    BY <1>2, <2>1, <2>2
<1>4. CASE TakeClaim(r)
  <2> DEFINE taken == [held EXCEPT !.step = "key", !.activated = TRUE]
             passed == [held EXCEPT !.step = "resolve", !.lic = NoLicence]
  <2>1. taken.step \notin SeatSteps /\ passed.step \notin SeatSteps
    BY <1>1 DEF RequestRow, SeatSteps
  <2>2. Go(r, taken) \/ Go(r, passed)
    BY <1>4 DEF TakeClaim
  <2> HIDE DEF taken, passed
  <2>3. QED
    BY <1>2, <2>1, <2>2
<1>5. CASE KeyFor(r)
  <2> DEFINE kept == [held EXCEPT !.step = "resolve"]
             dropped == [held EXCEPT !.step = "resolve", !.lic = NoLicence, !.activated = FALSE]
  <2>1. kept.step \notin SeatSteps /\ dropped.step \notin SeatSteps
    BY <1>1 DEF RequestRow, SeatSteps
  <2>2. Go(r, kept) \/ Go(r, dropped)
    BY <1>5 DEF KeyFor
  <2> HIDE DEF kept, dropped
  <2>3. QED
    BY <1>2, <2>1, <2>2
<1>6. CASE RecordSeat(r)
  <2> DEFINE q == Reply(held, IF held.turned THEN "capped" ELSE "granted")
  <2>1. q.step \notin SeatSteps
    BY <1>1 DEF RequestRow, SeatSteps, Reply
  <2>2. Go(r, q)
    BY <1>6 DEF RecordSeat
  <2> HIDE DEF q
  <2>3. QED
    BY <1>2, <2>1, <2>2
<1>7. CASE Respond(r)
  <2>1. PICK handed :
          Go(r, [NoRequest EXCEPT !.step = "done", !.lic = held.lic,
                   !.activated = held.activated, !.outcome = held.outcome,
                   !.handed = handed])
    BY <1>7 DEF Respond, Finish
  <2> DEFINE q == [NoRequest EXCEPT !.step = "done", !.lic = held.lic,
                     !.activated = held.activated, !.outcome = held.outcome,
                     !.handed = handed]
  <2>2. q.step \notin SeatSteps
    BY DEF NoRequest, SeatSteps
  <2>3. Go(r, q)
    BY <2>1
  <2> HIDE DEF q
  <2>4. QED
    BY <1>2, <2>2, <2>3
<1>8. CASE Fail(r)
  <2> DEFINE q == [NoRequest EXCEPT !.step = "done", !.outcome = "failed"]
  <2>1. q.step \notin SeatSteps
    BY DEF NoRequest, SeatSteps
  <2>2. Go(r, q)
    BY <1>8 DEF Fail, Finish
  <2> HIDE DEF q
  <2>3. QED
    BY <1>2, <2>1, <2>2
<1>9. QED
  BY <1>3, <1>4, <1>5, <1>6, <1>7, <1>8

LEMMA CourseOfSeat ==
    ASSUME TypeOK, NEW r \in Requests, Resolve(r) \/ FindSeat(r) \/ CountSeats(r)
    PROVE  \E q : Go(r, q) /\ Course(r, q)
<1> DEFINE held == req[r]
           row == seat[<<held.lic, held.install>>]
           turned == TurnsAway(held.found, activeCount(held.lic), held.cap)
           capped == [held EXCEPT !.step = "seat", !.cap = cap[held.lic]]
           found == [held EXCEPT !.step = "count", !.found = row, !.current = row # "none"]
           counted == [held EXCEPT !.step = "write", !.turned = turned]
<1>1. held \in RequestRow
  BY DEF TypeOK
<1>2. ASSUME NEW o PROVE Course(r, Reply(held, o))
  BY <1>1 DEF Course, RequestRow, SeatSteps, Reply
<1>3. CASE Resolve(r)
  <2>1. CASE Go(r, capped) /\ Admits(held.lic, held.own) /\ held.install # NoInstall
    <3>1. held.install \in Installs
      BY <1>1, <2>1 DEF RequestRow
    <3>2. Course(r, capped)
      BY <1>1, <1>3, <2>1, <3>1 DEF Course, RequestRow, SameSeat
    <3> HIDE DEF capped
    <3>3. QED
      BY <2>1, <3>2
  <2>2. CASE \E o : Go(r, Reply(held, o))
    BY <1>2, <2>2
  <2>3. QED
    BY <1>3, <2>1, <2>2 DEF Resolve
<1>4. CASE FindSeat(r)
  <2>1. Course(r, found)
    <3> HIDE DEF row
    <3>1. /\ found.step = "count" /\ SameSeat(held, found) /\ found.cap = held.cap
          /\ found.found = row
      BY <1>1 DEF RequestRow, SameSeat
    <3> HIDE DEF found
    <3>2. QED
      BY <1>4, <3>1 DEF Course, row, SameSeat
  <2>2. Go(r, found) \/ Go(r, Reply(held, "granted"))
    BY <1>4 DEF FindSeat
  <2> HIDE DEF found
  <2>3. QED
    BY <1>2, <2>1, <2>2
<1>5. CASE CountSeats(r)
  <2>1. Course(r, counted)
    <3> HIDE DEF turned
    <3>1. /\ counted.step = "write" /\ SameSeat(held, counted) /\ counted.cap = held.cap
          /\ counted.found = held.found /\ counted.turned = turned
      BY <1>1 DEF RequestRow, SameSeat
    <3> HIDE DEF counted
    <3>2. QED
      BY <1>5, <3>1 DEF Course, turned, SameSeat
  <2>2. Go(r, counted) \/ Go(r, Reply(held, "granted"))
    BY <1>5 DEF CountSeats
  <2> HIDE DEF counted
  <2>3. QED
    BY <1>2, <2>1, <2>2
<1>6. QED
  BY <1>3, <1>4, <1>5

LEMMA CourseOfRequest ==
    ASSUME TypeOK, NEW r \in Requests, Request(r)
    PROVE  \E q : Go(r, q) /\ Course(r, q)
BY CourseOfBegin, CourseOfKey, CourseOfSeat DEF Request

-----------------------------------------------------------------------------
(* Seats. A request on its way to a seat was welcome. *)

Invited(q, pairs) == q.step \in SeatSteps => <<q.lic, q.install>> \in pairs

WelcomeIInv == TypeOK /\ OnlyWelcomeSeats /\ \A r \in Requests : Invited(req[r], welcome)

\* Welcomes only accumulate, and a seat appears only where RecordSeat puts it.
LEMMA WelcomeRequest ==
    ASSUME WelcomeIInv, NEW r \in Requests, Request(r)
    PROVE  WelcomeIInv'
<1>1. TypeOK'
  BY RequestType DEF WelcomeIInv
<1>2. PICK q : Go(r, q) /\ Course(r, q)
  BY CourseOfRequest DEF WelcomeIInv
<1>3. welcome \subseteq welcome'
  BY DEF Request, OpenSession, RefreshSession, Begin, FindClaim, TakeClaim, KeyFor, Resolve,
     FindSeat, CountSeats, RecordSeat, Respond, Fail, Finish, history
<1>4. ASSUME NEW s \in Requests PROVE Invited(req'[s], welcome')
  <2>1. Invited(req[s], welcome)
    BY DEF WelcomeIInv
  <2>2. CASE s # r
    BY <1>2, <1>3, <2>1, <2>2 DEF Go, Invited, WelcomeIInv, TypeOK
  <2>3. CASE s = r
    <3>1. req'[s] = q
      BY <1>2, <2>3 DEF Go, WelcomeIInv, TypeOK
    <3>2. CASE Resolve(r) /\ Admits(req[r].lic, req[r].own) /\ SameSeat(req[r], q)
      BY <3>1, <3>2 DEF Invited, Resolve, Admits, SameSeat
    <3>3. CASE req[r].step \in SeatSteps /\ SameSeat(req[r], q)
      BY <1>3, <2>1, <2>3, <3>1, <3>3 DEF Invited, SameSeat
    <3>4. CASE q.step \notin SeatSteps
      BY <3>1, <3>4 DEF Invited
    <3>5. QED
      BY <1>2, <3>2, <3>3, <3>4 DEF Course, FindSeat, CountSeats, At, SeatSteps
  <2>4. QED
    BY <2>2, <2>3
<1>5. ASSUME NEW l \in Licences, NEW i \in Installs, seat'[<<l, i>>] # "none"
      PROVE  <<l, i>> \in welcome'
  <2>1. seat[<<l, i>>] # "none" => <<l, i>> \in welcome
    BY DEF WelcomeIInv, OnlyWelcomeSeats
  <2>2. CASE RecordSeat(r)
    <3>1. <<req[r].lic, req[r].install>> \in welcome
      BY <2>2 DEF WelcomeIInv, Invited, RecordSeat, At, SeatSteps
    <3>2. seat'[<<l, i>>] = seat[<<l, i>>] \/ <<l, i>> = <<req[r].lic, req[r].install>>
      BY <2>2 DEF RecordSeat, WriteSeat, WelcomeIInv, TypeOK
    <3>3. QED
      BY <1>3, <1>5, <2>1, <3>1, <3>2
  <2>3. CASE ~RecordSeat(r)
    <3>1. seat' = seat
      BY <2>3 DEF Request, OpenSession, RefreshSession, Begin, FindClaim, TakeClaim, KeyFor,
         Resolve, FindSeat, CountSeats, Respond, Fail, Finish, rows
    <3>2. QED
      BY <1>3, <1>5, <2>1, <3>1
  <2>4. QED
    BY <2>2, <2>3
<1>6. QED
  BY <1>1, <1>4, <1>5 DEF WelcomeIInv, OnlyWelcomeSeats

LEMMA WelcomeFrame ==
    ASSUME WelcomeIInv, TypeOK', UNCHANGED <<seat, req, welcome>>
    PROVE  WelcomeIInv'
BY DEF WelcomeIInv, OnlyWelcomeSeats, Invited

LEMMA WelcomeRelease ==
    ASSUME WelcomeIInv, TypeOK', NEW l \in Licences, NEW i \in Installs, Release(l, i)
    PROVE  WelcomeIInv'
<1>1. ASSUME NEW s \in Requests PROVE Invited(req'[s], welcome')
  <2>1. Invited(req[s], welcome) /\ req[s] \in RequestRow /\ welcome' = welcome
    BY DEF WelcomeIInv, TypeOK, Release
  <2>2. req'[s] = [req[s] EXCEPT !.current = FALSE] \/ req'[s] = req[s]
    BY DEF Release
  <2>3. QED
    BY <2>1, <2>2 DEF Invited, RequestRow
<1>2. ASSUME NEW m \in Licences, NEW j \in Installs, seat'[<<m, j>>] # "none"
      PROVE  <<m, j>> \in welcome'
  BY <1>2 DEF Release, WriteSeat, WelcomeIInv, TypeOK, OnlyWelcomeSeats
<1>3. QED
  BY <1>1, <1>2 DEF WelcomeIInv, OnlyWelcomeSeats

LEMMA WelcomeStep == WelcomeIInv /\ [Next]_vars => WelcomeIInv'
<1> SUFFICES ASSUME WelcomeIInv, [Next]_vars PROVE WelcomeIInv'
  OBVIOUS
<1>1. TypeOK'
  BY TypeStep DEF WelcomeIInv
<1>2. CASE UNCHANGED vars
  BY <1>1, <1>2, WelcomeFrame DEF vars, rows, history
<1>3. ASSUME NEW p \in Purchases, Purchase(p) PROVE WelcomeIInv'
  BY <1>1, <1>3, WelcomeFrame DEF Purchase, FindActivation, Arm, LoseArming, history
<1>4. ASSUME NEW i \in Installs, Expire(i) PROVE WelcomeIInv'
  BY <1>1, <1>4, WelcomeFrame DEF Expire, history
<1>5. CASE Administration
  BY <1>1, <1>5, WelcomeFrame, WelcomeRelease DEF Administration, ChangeStatus, EditCap
<1>6. ASSUME NEW r \in Requests, Request(r) PROVE WelcomeIInv'
  BY <1>6, WelcomeRequest
<1>7. QED
  BY <1>2, <1>3, <1>4, <1>5, <1>6 DEF Next

\* A revoked, expired or wrong-domain key never takes a seat, so a leaked key
\* cannot use up its owner's installs.
THEOREM SeatsAreWelcome == Spec => []OnlyWelcomeSeats
<1>1. Init => WelcomeIInv
  BY TypeInit DEF Init, WelcomeIInv, OnlyWelcomeSeats, Invited, NoRequest, SeatSteps
<1>2. WelcomeIInv => OnlyWelcomeSeats
  BY DEF WelcomeIInv
<1>3. QED
  BY <1>1, <1>2, WelcomeStep, PTL DEF Spec

-----------------------------------------------------------------------------
(* A seat that is held is not refused. *)

Deciding == {"find", "claim", "key", "resolve", "seat", "count"}

\* Until the cap is decided the licences in S have this install's seat active;
\* a request that found its seat active, or whose licence is in S, is let in.
Watched(q, S, seats) ==
    /\ q.step \in Deciding =>
          \A l \in S : q.install \in Installs /\ seats[<<l, q.install>>] = "active"
    /\ (q.step = "count" /\ q.lic \in S) => q.found = "active"
    /\ (q.step = "write" /\ q.turned) => q.lic \notin S
    /\ q.outcome = "capped" => q.lic \notin S

AllWatched == \A r \in Requests : Watched(req[r], steady[r], seat)
SteadyIInv == TypeOK /\ AllWatched

LEMMA SteadyFrame == ASSUME AllWatched, UNCHANGED <<seat, steady, req>> PROVE AllWatched'
BY DEF AllWatched, Watched

\* A request moves on without touching a seat.
LEMMA SteadyGo ==
    ASSUME SteadyIInv, NEW r \in Requests, NEW q, Go(r, q), UNCHANGED <<seat, steady>>,
           Watched(q, steady[r], seat)
    PROVE  AllWatched'
<1> SUFFICES ASSUME NEW s \in Requests PROVE Watched(req'[s], steady'[s], seat')
  BY DEF AllWatched, Watched
<1>1. seat' = seat /\ steady'[s] = steady[s] /\ Watched(req[s], steady[s], seat)
  BY DEF SteadyIInv, AllWatched
<1>2. req'[s] = IF s = r THEN q ELSE req[s]
  BY DEF Go, SteadyIInv, TypeOK
<1>3. QED
  BY <1>1, <1>2

\* A seat that stops being active leaves the watch of the requests it concerns.
LEMMA SteadyWrite ==
    ASSUME SteadyIInv, NEW l \in Licences, NEW i \in Installs, NEW s \in SeatStates,
           WriteSeat(l, i, s), NEW r \in Requests
    PROVE  Watched(req[r], steady'[r], seat') /\ steady'[r] \subseteq steady[r]
<1>1. Watched(req[r], steady[r], seat) /\ req[r] \in RequestRow
  BY DEF SteadyIInv, AllWatched, TypeOK
<1>2. steady'[r] = IF Undecided(r) /\ req[r].install = i /\ s # "active"
                   THEN steady[r] \ {l} ELSE steady[r]
  BY DEF WriteSeat
<1>3. ASSUME req[r].step \in Deciding, NEW k \in steady'[r]
      PROVE  req[r].install \in Installs /\ seat'[<<k, req[r].install>>] = "active"
  <2>1. req[r].install \in Installs /\ seat[<<k, req[r].install>>] = "active" /\ k \in Licences
    BY <1>1, <1>2, <1>3 DEF Watched, SteadyIInv, TypeOK
  <2>2. Undecided(r)
    BY <1>3 DEF Undecided, InFlight, Deciding
  <2>3. CASE k = l /\ req[r].install = i
    <3>1. s = "active"
      BY <1>2, <1>3, <2>2, <2>3
    <3>2. seat'[<<l, i>>] = s
      BY DEF WriteSeat, SteadyIInv, TypeOK
    <3>3. QED
      BY <2>1, <2>3, <3>1, <3>2
  <2>4. CASE ~(k = l /\ req[r].install = i)
    <3>1. seat'[<<k, req[r].install>>] = seat[<<k, req[r].install>>]
      BY <2>1, <2>4 DEF WriteSeat, SteadyIInv, TypeOK
    <3>2. QED
      BY <2>1, <3>1
  <2>5. QED
    BY <2>3, <2>4
<1>4. QED
  BY <1>1, <1>2, <1>3 DEF Watched

LEMMA SteadyAdministration == ASSUME SteadyIInv, Administration PROVE AllWatched'
<1>1. ASSUME NEW l \in Licences, ChangeStatus(l) PROVE AllWatched'
  BY <1>1, SteadyFrame DEF ChangeStatus, SteadyIInv
<1>2. ASSUME NEW l \in Licences, NEW n \in Caps, EditCap(l, n) PROVE AllWatched'
  BY <1>2, SteadyFrame DEF EditCap, SteadyIInv
<1>3. ASSUME NEW l \in Licences, NEW i \in Installs, Release(l, i) PROVE AllWatched'
  <2> SUFFICES ASSUME NEW r \in Requests PROVE Watched(req'[r], steady'[r], seat')
    BY DEF AllWatched, Watched
  <2>1. "none" \in SeatStates
    BY DEF SeatStates
  <2>2. Watched(req[r], steady'[r], seat')
    BY <1>3, <2>1, SteadyWrite DEF Release
  <2>3. req[r] \in RequestRow
    BY DEF SteadyIInv, TypeOK
  <2>4. req'[r] = [req[r] EXCEPT !.current = FALSE] \/ req'[r] = req[r]
    BY <1>3 DEF Release
  <2>5. /\ req'[r].step = req[r].step /\ req'[r].lic = req[r].lic
        /\ req'[r].install = req[r].install /\ req'[r].found = req[r].found
        /\ req'[r].turned = req[r].turned /\ req'[r].outcome = req[r].outcome
    BY <2>3, <2>4 DEF RequestRow
  <2>6. QED
    BY <2>2, <2>5 DEF Watched
<1>4. QED
  BY <1>1, <1>2, <1>3 DEF Administration

LEMMA SteadyBegin ==
    ASSUME SteadyIInv, NEW r \in Requests, NEW q, Begin(r, q),
           q.step \in {"find", "key", "resolve"}, q.outcome = "none",
           q.install \in Installs \cup {NoInstall}
    PROVE  AllWatched'
<1> SUFFICES ASSUME NEW s \in Requests PROVE Watched(req'[s], steady'[s], seat')
  BY DEF AllWatched, Watched
<1>1. seat' = seat /\ Watched(req[s], steady[s], seat)
  BY DEF Begin, rows, SteadyIInv, AllWatched
<1>2. CASE s = r
  <2>1. /\ req'[s] = q
        /\ steady'[s] = {l \in Licences : q.install # NoInstall /\ seat[<<l, q.install>>] = "active"}
    BY <1>2 DEF Begin, Go, SteadyIInv, TypeOK
  <2>2. QED
    BY <1>1, <2>1 DEF Watched
<1>3. CASE s # r
  <2>1. req'[s] = req[s] /\ steady'[s] = steady[s]
    BY <1>3 DEF Begin, Go, SteadyIInv, TypeOK
  <2>2. QED
    BY <1>1, <2>1
<1>4. QED
  BY <1>2, <1>3

LEMMA SteadyFinish ==
    ASSUME SteadyIInv, NEW r \in Requests, NEW q, Finish(r, q), q.step = "done",
           q.outcome = "capped" => q.lic \notin steady[r]
    PROVE  AllWatched'
<1> SUFFICES ASSUME NEW s \in Requests PROVE Watched(req'[s], steady'[s], seat')
  BY DEF AllWatched, Watched
<1>1. seat' = seat /\ Watched(req[s], steady[s], seat)
  BY DEF Finish, rows, SteadyIInv, AllWatched
<1>2. CASE s = r
  <2>1. req'[s] = q /\ steady'[s] = steady[r] \cap {q.lic}
    BY <1>2 DEF Finish, Go, SteadyIInv, TypeOK
  <2>2. QED
    BY <2>1 DEF Watched, Deciding
<1>3. CASE s # r
  <2>1. req'[s] = req[s] /\ steady'[s] = steady[s]
    BY <1>3 DEF Finish, Go, SteadyIInv, TypeOK
  <2>2. QED
    BY <1>1, <2>1
<1>4. QED
  BY <1>2, <1>3

LEMMA SteadyOpen ==
    ASSUME SteadyIInv, NEW r \in Requests,
           \/ \E key \in Presented, i \in Via, own \in From : OpenSession(r, key, i, own)
           \/ \E l \in Refreshed, own \in From : RefreshSession(r, l, own)
    PROVE  AllWatched'
<1>1. ASSUME NEW key \in Presented, NEW i \in Via, NEW own \in From, OpenSession(r, key, i, own)
      PROVE  AllWatched'
  <2> DEFINE q == [NoRequest EXCEPT !.install = i, !.own = own, !.lic = key,
                     !.step = IF key = NoLicence /\ i # NoInstall THEN "find" ELSE "resolve"]
  <2>1. /\ q.step \in {"find", "key", "resolve"} /\ q.outcome = "none"
        /\ q.install \in Installs \cup {NoInstall}
    BY AccessAssumption DEF NoRequest
  <2>2. Begin(r, q)
    BY <1>1 DEF OpenSession
  <2> HIDE DEF q
  <2>3. QED
    BY <2>1, <2>2, SteadyBegin
<1>2. ASSUME NEW l \in Refreshed, NEW own \in From, RefreshSession(r, l, own) PROVE AllWatched'
  <2> DEFINE q == [NoRequest EXCEPT !.own = own, !.lic = l, !.step = "key"]
  <2>1. /\ q.step \in {"find", "key", "resolve"} /\ q.outcome = "none"
        /\ q.install \in Installs \cup {NoInstall}
    BY DEF NoRequest
  <2>2. Begin(r, q)
    BY <1>2 DEF RefreshSession
  <2> HIDE DEF q
  <2>3. QED
    BY <2>1, <2>2, SteadyBegin
<1>3. QED
  BY <1>1, <1>2

LEMMA SteadyMoves ==
    ASSUME SteadyIInv, NEW r \in Requests,
           FindClaim(r) \/ TakeClaim(r) \/ KeyFor(r) \/ Resolve(r) \/ FindSeat(r) \/ CountSeats(r)
    PROVE  AllWatched'
<1> DEFINE held == req[r]
           S == steady[r]
<1>1. held \in RequestRow /\ Watched(held, S, seat) /\ held.step \in Deciding /\ held.outcome = "none"
  BY DEF SteadyIInv, TypeOK, AllWatched, FindClaim, TakeClaim, KeyFor, Resolve, FindSeat,
         CountSeats, At, Deciding
<1>2. UNCHANGED <<seat, steady>>
  BY DEF FindClaim, TakeClaim, KeyFor, Resolve, FindSeat, CountSeats, rows, history
<1>3. ASSUME NEW q, Go(r, q), q.install = held.install, q.step \in Deciding \ {"count"},
             q.outcome = "none"
      PROVE  AllWatched'
  <2>1. Watched(q, S, seat)
    BY <1>1, <1>3 DEF Watched, Deciding
  <2>2. QED
    BY <1>2, <1>3, <2>1, SteadyGo
<1>4. ASSUME NEW o, Go(r, Reply(held, o)), o # "capped" PROVE AllWatched'
  <2>1. Watched(Reply(held, o), S, seat)
    BY <1>1, <1>4 DEF Watched, Reply, RequestRow, Deciding
  <2>2. QED
    BY <1>2, <1>4, <2>1, SteadyGo
<1>5. CASE FindClaim(r)
  <2> DEFINE taken == [held EXCEPT !.step = "claim", !.lic = activation[held.install].lic]
             passed == [held EXCEPT !.step = "resolve"]
  <2>1. /\ taken.step = "claim" /\ taken.install = held.install /\ taken.outcome = "none"
        /\ passed.step = "resolve" /\ passed.install = held.install /\ passed.outcome = "none"
    BY <1>1 DEF RequestRow
  <2>2. Go(r, taken) \/ Go(r, passed)
    BY <1>5 DEF FindClaim
  <2> HIDE DEF taken, passed
  <2>3. QED
    BY <1>3, <2>1, <2>2 DEF Deciding
<1>6. CASE TakeClaim(r)
  <2> DEFINE taken == [held EXCEPT !.step = "key", !.activated = TRUE]
             passed == [held EXCEPT !.step = "resolve", !.lic = NoLicence]
  <2>1. /\ taken.step = "key" /\ taken.install = held.install /\ taken.outcome = "none"
        /\ passed.step = "resolve" /\ passed.install = held.install /\ passed.outcome = "none"
    BY <1>1 DEF RequestRow
  <2>2. Go(r, taken) \/ Go(r, passed)
    BY <1>6 DEF TakeClaim
  <2> HIDE DEF taken, passed
  <2>3. QED
    BY <1>3, <2>1, <2>2 DEF Deciding
<1>7. CASE KeyFor(r)
  <2> DEFINE kept == [held EXCEPT !.step = "resolve"]
             dropped == [held EXCEPT !.step = "resolve", !.lic = NoLicence, !.activated = FALSE]
  <2>1. /\ kept.step = "resolve" /\ kept.install = held.install /\ kept.outcome = "none"
        /\ dropped.step = "resolve" /\ dropped.install = held.install /\ dropped.outcome = "none"
    BY <1>1 DEF RequestRow
  <2>2. Go(r, kept) \/ Go(r, dropped)
    BY <1>7 DEF KeyFor
  <2> HIDE DEF kept, dropped
  <2>3. QED
    BY <1>3, <2>1, <2>2 DEF Deciding
<1>8. CASE Resolve(r)
  <2> DEFINE capped == [held EXCEPT !.step = "seat", !.cap = cap[held.lic]]
  <2>1. capped.step = "seat" /\ capped.install = held.install /\ capped.outcome = "none"
    BY <1>1 DEF RequestRow
  <2>2. \/ Go(r, Reply(held, "anonymous")) \/ Go(r, Reply(held, "refused"))
        \/ Go(r, Reply(held, "granted")) \/ Go(r, capped)
    BY <1>8 DEF Resolve
  <2> HIDE DEF capped
  <2>3. QED
    BY <1>3, <1>4, <2>1, <2>2 DEF Deciding
<1>9. CASE FindSeat(r)
  <2> DEFINE row == seat[<<held.lic, held.install>>]
             found == [held EXCEPT !.step = "count", !.found = row, !.current = row # "none"]
  <2>1. held.lic \in S => row = "active"
    BY <1>1 DEF Watched
  <2> HIDE DEF row
  <2>2. Watched(found, S, seat)
    BY <1>1, <2>1 DEF Watched, RequestRow, Deciding
  <2>3. Go(r, found) \/ Go(r, Reply(held, "granted"))
    BY <1>9 DEF FindSeat, row
  <2> HIDE DEF found
  <2>4. QED
    BY <1>2, <1>4, <2>2, <2>3, SteadyGo
<1>10. CASE CountSeats(r)
  <2> DEFINE turned == TurnsAway(held.found, activeCount(held.lic), held.cap)
             counted == [held EXCEPT !.step = "write", !.turned = turned]
  <2>1. turned => held.lic \notin S
    BY <1>1, <1>10 DEF Watched, TurnsAway, CountSeats, At
  <2>2. turned \in BOOLEAN
    BY DEF TurnsAway
  <2> HIDE DEF turned
  <2>3. Watched(counted, S, seat)
    BY <1>1, <2>1, <2>2 DEF Watched, RequestRow, Deciding
  <2>4. Go(r, counted) \/ Go(r, Reply(held, "granted"))
    BY <1>10 DEF CountSeats, turned
  <2> HIDE DEF counted
  <2>5. QED
    BY <1>2, <1>4, <2>3, <2>4, SteadyGo
<1>11. QED
  BY <1>5, <1>6, <1>7, <1>8, <1>9, <1>10

LEMMA SteadyRecord == ASSUME SteadyIInv, NEW r \in Requests, RecordSeat(r) PROVE AllWatched'
<1> DEFINE held == req[r]
           s == IF held.turned THEN "blocked" ELSE "active"
           answer == Reply(held, IF held.turned THEN "capped" ELSE "granted")
<1>1. /\ held \in RequestRow /\ held.lic \in Licences /\ held.install \in Installs
      /\ held.turned => held.lic \notin steady[r]
  BY DEF SteadyIInv, TypeOK, AllWatched, Watched, RecordSeat, At
<1>2. /\ answer.step = "reply" /\ answer.lic = held.lic
      /\ answer.outcome = "capped" => held.turned
  BY <1>1 DEF RequestRow, Reply
<1>3. Go(r, answer) /\ (WriteSeat(held.lic, held.install, s) \/ UNCHANGED <<seat, steady>>)
  BY DEF RecordSeat
<1>4. s \in SeatStates
  BY DEF SeatStates
<1> HIDE DEF s, answer
<1>5. ASSUME NEW m \in Requests PROVE Watched(req'[m], steady'[m], seat')
  <2>1. Watched(req[m], steady'[m], seat') /\ steady'[m] \subseteq steady[m]
    BY <1>1, <1>3, <1>4, SteadyWrite DEF SteadyIInv, AllWatched
  <2>2. req'[m] = IF m = r THEN answer ELSE req[m]
    BY <1>3 DEF Go, SteadyIInv, TypeOK
  <2>3. QED
    BY <1>1, <1>2, <2>1, <2>2 DEF Watched, Deciding
<1>6. QED
  BY <1>5 DEF AllWatched, Watched

LEMMA SteadyAnswer == ASSUME SteadyIInv, NEW r \in Requests, Respond(r) \/ Fail(r) PROVE AllWatched'
<1>1. CASE Respond(r)
  <2>1. PICK handed :
          Finish(r, [NoRequest EXCEPT !.step = "done", !.lic = req[r].lic,
                       !.activated = req[r].activated, !.outcome = req[r].outcome,
                       !.handed = handed])
    BY <1>1 DEF Respond
  <2> DEFINE q == [NoRequest EXCEPT !.step = "done", !.lic = req[r].lic,
                     !.activated = req[r].activated, !.outcome = req[r].outcome,
                     !.handed = handed]
  <2>2. q.step = "done" /\ q.lic = req[r].lic /\ q.outcome = req[r].outcome
    BY DEF NoRequest
  <2>3. Finish(r, q)
    BY <2>1
  <2> HIDE DEF q
  <2>4. QED
    BY <2>2, <2>3, SteadyFinish DEF SteadyIInv, AllWatched, Watched
<1>2. CASE Fail(r)
  <2> DEFINE q == [NoRequest EXCEPT !.step = "done", !.outcome = "failed"]
  <2>1. q.step = "done" /\ q.outcome = "failed"
    BY DEF NoRequest
  <2>2. Finish(r, q)
    BY <1>2 DEF Fail
  <2> HIDE DEF q
  <2>3. QED
    BY <2>1, <2>2, SteadyFinish
<1>3. QED
  BY <1>1, <1>2

LEMMA SteadyStep == SteadyIInv /\ [Next]_vars => SteadyIInv'
<1> SUFFICES ASSUME SteadyIInv, [Next]_vars PROVE AllWatched'
  BY TypeStep DEF SteadyIInv
<1>1. CASE UNCHANGED vars
  BY <1>1, SteadyFrame DEF vars, rows, history, SteadyIInv
<1>2. ASSUME NEW p \in Purchases, Purchase(p) PROVE AllWatched'
  BY <1>2, SteadyFrame DEF Purchase, FindActivation, Arm, LoseArming, history, SteadyIInv
<1>3. ASSUME NEW i \in Installs, Expire(i) PROVE AllWatched'
  BY <1>3, SteadyFrame DEF Expire, history, SteadyIInv
<1>4. CASE Administration
  BY <1>4, SteadyAdministration
<1>5. ASSUME NEW r \in Requests, Request(r) PROVE AllWatched'
  BY <1>5, SteadyOpen, SteadyMoves, SteadyRecord, SteadyAnswer DEF Request
<1>6. QED
  BY <1>1, <1>2, <1>3, <1>4, <1>5 DEF Next

\* An install whose seat stays active until the cap is decided is never turned
\* away, however many others race it and wherever the cap is moved meanwhile.
THEOREM SeatsAreKept == Spec => []KnownSeatServed
<1>1. Init => SteadyIInv
  BY TypeInit DEF Init, SteadyIInv, AllWatched, Watched, NoRequest
<1>2. SteadyIInv => KnownSeatServed
  BY DEF SteadyIInv, AllWatched, Watched, KnownSeatServed
<1>3. QED
  BY <1>1, <1>2, SteadyStep, PTL DEF Spec

-----------------------------------------------------------------------------
(* The race.  A request heads for a seat once it is let in and its write is    *)
(* not out yet, or once it found the seat active; the seats taken and headed   *)
(* for are what the cap bounds.                                                *)

Heading(q, l, i) ==
    /\ q.lic = l /\ q.install = i
    /\ \/ q.step = "count" /\ q.found = "active"
       \/ q.step = "write" /\ ~q.turned

Active(l) == {i \in Installs : seat[<<l, i>>] = "active"}
Headed(l) == {i \in Installs : \E r \in Requests : Heading(req[r], l, i)}
Taken(l) == Active(l) \cup Headed(l)

RaceBound(l) == Cardinality(Taken(l)) <= topCap[l] + Cardinality(Requests) - 1

\* The caps requests carry, and the caps in force, were once set.
CapsWereSet ==
    /\ \A l \in Licences : cap[l] <= topCap[l]
    /\ \A r \in Requests : req[r].step \in SeatSteps => req[r].cap <= topCap[req[r].lic]

RaceIInv == TypeOK /\ CapsWereSet /\ \A l \in Licences : RaceBound(l)

LEMMA RequestsCounted == Cardinality(Requests) \in Nat \ {0}
BY AccessAssumption, FS_CardinalityType, FS_EmptySet

LEMMA TakenFinite ==
    ASSUME NEW S \in SUBSET Installs
    PROVE  IsFiniteSet(S) /\ Cardinality(S) \in Nat
BY AccessAssumption, FS_Subset, FS_CardinalityType

\* Seats taken and headed for that do not grow stay within a cap that does not shrink.
LEMMA RaceKept ==
    ASSUME RaceIInv, NEW l \in Licences, Taken(l)' \subseteq Taken(l),
           topCap'[l] \in Nat, topCap[l] <= topCap'[l]
    PROVE  RaceBound(l)'
<1>1. Taken(l) \in SUBSET Installs /\ Taken(l)' \in SUBSET Installs
  BY DEF Taken, Active, Headed
<1>2. Cardinality(Taken(l)') <= Cardinality(Taken(l))
  BY <1>1, TakenFinite, FS_Subset
<1>3. Cardinality(Taken(l)) \in Nat /\ Cardinality(Taken(l)') \in Nat
  BY <1>1, TakenFinite
<1>4. topCap[l] \in Nat /\ Cardinality(Taken(l)) <= topCap[l] + Cardinality(Requests) - 1
  BY DEF RaceIInv, TypeOK, RaceBound
<1>5. Cardinality(Taken(l)') <= topCap'[l] + Cardinality(Requests) - 1
  BY <1>2, <1>3, <1>4, RequestsCounted
<1>6. QED
  BY <1>5 DEF RaceBound

\* At most one install is headed for by each of these requests.
LEMMA HeadedFew ==
    ASSUME NEW rs, NEW l
    PROVE  Cardinality({i \in Installs : \E r \in Requests : Heading(rs[r], l, i)})
             <= Cardinality(Requests)
<1> DEFINE headed == {i \in Installs : \E r \in Requests : Heading(rs[r], l, i)}
           heads == {r \in Requests : \E i \in Installs : Heading(rs[r], l, i)}
           f == [r \in heads |-> rs[r].install]
<1>1. f \in Surjection(heads, headed)
  <2>1. f \in [heads -> headed]
    BY DEF Heading
  <2>2. \A i \in headed : \E r \in heads : f[r] = i
    BY DEF Heading
  <2>3. QED
    BY <2>1, <2>2 DEF Surjection
<1>2. heads \in SUBSET Requests /\ headed \in SUBSET Installs
  OBVIOUS
<1> HIDE DEF heads, headed, f
<1>3. IsFiniteSet(heads) /\ Cardinality(heads) <= Cardinality(Requests)
  BY <1>2, AccessAssumption, FS_Subset
<1>4. Cardinality(headed) <= Cardinality(heads)
  BY <1>1, <1>3, FS_Surjection
<1>5. Cardinality(heads) \in Nat /\ Cardinality(headed) \in Nat
  BY <1>2, <1>3, FS_CardinalityType, TakenFinite
<1>6. Cardinality(headed) <= Cardinality(Requests)
  BY <1>3, <1>4, <1>5, RequestsCounted
<1>7. QED
  BY <1>6 DEF headed

\* Where there was room for one more, each request in flight may still take one.
LEMMA RaceAdmitted ==
    ASSUME TypeOK, NEW l \in Licences, UNCHANGED <<seat, topCap>>,
           activeCount(l) < topCap[l]
    PROVE  RaceBound(l)'
<1>1. Active(l)' = Active(l) /\ Active(l) \in SUBSET Installs /\ Headed(l)' \in SUBSET Installs
  BY DEF Active, Headed
<1>2. Cardinality(Headed(l)') <= Cardinality(Requests)
  BY HeadedFew DEF Headed
<1>3. Cardinality(Active(l)) <= topCap[l] - 1 /\ topCap'[l] = topCap[l] /\ topCap[l] \in Nat
  <2>1. Cardinality(Active(l)) \in Nat /\ activeCount(l) = Cardinality(Active(l))
    BY <1>1, TakenFinite DEF Active, activeCount
  <2>2. topCap[l] \in Nat
    BY DEF TypeOK
  <2>3. QED
    BY <2>1, <2>2
<1>4. Cardinality(Active(l) \cup Headed(l)') <= Cardinality(Active(l)) + Cardinality(Headed(l)')
  <2>1. IsFiniteSet(Active(l)) /\ IsFiniteSet(Headed(l)') /\ IsFiniteSet(Active(l) \cap Headed(l)')
    BY <1>1, TakenFinite
  <2>2. /\ Cardinality(Active(l) \cup Headed(l)') =
             Cardinality(Active(l)) + Cardinality(Headed(l)') - Cardinality(Active(l) \cap Headed(l)')
    BY <2>1, FS_Union
  <2>3. /\ Cardinality(Active(l)) \in Nat /\ Cardinality(Headed(l)') \in Nat
        /\ Cardinality(Active(l) \cap Headed(l)') \in Nat
    BY <2>1, FS_CardinalityType
  <2>4. QED
    BY <2>2, <2>3
<1>5. Cardinality(Active(l)) \in Nat /\ Cardinality(Headed(l)') \in Nat
      /\ Cardinality(Active(l) \cup Headed(l)') \in Nat
  BY <1>1, TakenFinite
<1>6. Cardinality(Active(l) \cup Headed(l)') <= topCap'[l] + Cardinality(Requests) - 1
  BY <1>2, <1>3, <1>4, <1>5, RequestsCounted
<1>7. QED
  BY <1>1, <1>6 DEF RaceBound, Taken

LEMMA RaceFrame ==
    ASSUME RaceIInv, UNCHANGED <<cap, seat, req, topCap>>
    PROVE  CapsWereSet' /\ \A l \in Licences : RaceBound(l)'
BY DEF RaceIInv, CapsWereSet, RaceBound, Taken, Active, Headed

LEMMA RaceAdministration ==
    ASSUME RaceIInv, TypeOK', Administration
    PROVE  CapsWereSet' /\ \A l \in Licences : RaceBound(l)'
<1>1. ASSUME NEW l \in Licences, ChangeStatus(l)
      PROVE  CapsWereSet' /\ \A k \in Licences : RaceBound(k)'
  BY <1>1, RaceFrame DEF ChangeStatus
<1>2. ASSUME NEW l \in Licences, NEW n \in Caps, EditCap(l, n)
      PROVE  CapsWereSet' /\ \A k \in Licences : RaceBound(k)'
  <2>1. n \in Nat
    BY AccessAssumption
  <2>2. ASSUME NEW k \in Licences
        PROVE  topCap'[k] \in Nat /\ topCap[k] <= topCap'[k] /\ cap'[k] <= topCap'[k]
    BY <1>2, <2>1, AccessAssumption DEF EditCap, RaceIInv, CapsWereSet, TypeOK
  <2>3. CapsWereSet'
    <3>1. ASSUME NEW r \in Requests, req[r].step \in SeatSteps
          PROVE  req[r].cap <= topCap'[req[r].lic]
      <4> DEFINE c == req[r].cap
                 k == req[r].lic
      <4>1. /\ req[r].lic \in Licences /\ req[r].cap \in Nat
            /\ req[r].cap <= topCap[req[r].lic] /\ topCap[req[r].lic] \in Nat
        BY <3>1 DEF RaceIInv, CapsWereSet, TypeOK, SeatSteps, RequestRow
      <4>2. QED
        BY <2>2, <4>1
    <3>2. QED
      BY <1>2, <2>2, <3>1 DEF EditCap, CapsWereSet
  <2>4. ASSUME NEW k \in Licences PROVE RaceBound(k)'
    <3>1. Taken(k)' \subseteq Taken(k)
      BY <1>2 DEF EditCap, Taken, Active, Headed
    <3>2. QED
      BY <2>2, <3>1, RaceKept
  <2>5. QED
    BY <2>3, <2>4
<1>3. ASSUME NEW l \in Licences, NEW i \in Installs, Release(l, i)
      PROVE  CapsWereSet' /\ \A k \in Licences : RaceBound(k)'
  <2>1. ASSUME NEW r \in Requests
        PROVE  /\ req'[r].step = req[r].step /\ req'[r].lic = req[r].lic
               /\ req'[r].install = req[r].install /\ req'[r].cap = req[r].cap
               /\ req'[r].found = req[r].found /\ req'[r].turned = req[r].turned
    <3>1. req'[r] = [req[r] EXCEPT !.current = FALSE] \/ req'[r] = req[r]
      BY <1>3 DEF Release
    <3>2. req[r] \in RequestRow
      BY DEF RaceIInv, TypeOK
    <3>3. QED
      BY <3>1, <3>2 DEF RequestRow
  <2>2. CapsWereSet'
    BY <1>3, <2>1 DEF Release, CapsWereSet, RaceIInv
  <2>3. ASSUME NEW k \in Licences PROVE RaceBound(k)'
    <3>1. Headed(k)' = Headed(k)
      BY <2>1 DEF Headed, Heading
    <3>2. Active(k)' \subseteq Active(k)
      BY <1>3 DEF Active, Release, WriteSeat, RaceIInv, TypeOK
    <3>3. topCap' = topCap /\ topCap[k] \in Nat
      BY <1>3 DEF Release, RaceIInv, TypeOK
    <3>4. QED
      BY <3>1, <3>2, <3>3, RaceKept DEF Taken
  <2>4. QED
    BY <2>2, <2>3
<1>4. QED
  BY <1>1, <1>2, <1>3 DEF Administration

\* A request changes no cap, and only RecordSeat changes a seat.
LEMMA SeatsOfRequest ==
    ASSUME NEW r \in Requests, Request(r)
    PROVE  UNCHANGED <<cap, topCap>> /\ (RecordSeat(r) \/ UNCHANGED seat)
<1>1. CASE \E key \in Presented, i \in Via, own \in From : OpenSession(r, key, i, own)
  BY <1>1 DEF OpenSession, Begin, rows
<1>2. CASE \E l \in Refreshed, own \in From : RefreshSession(r, l, own)
  BY <1>2 DEF RefreshSession, Begin, rows
<1>3. CASE FindClaim(r) \/ TakeClaim(r) \/ KeyFor(r) \/ Resolve(r)
  BY <1>3 DEF FindClaim, TakeClaim, KeyFor, Resolve, rows, history
<1>4. CASE FindSeat(r) \/ CountSeats(r) \/ RecordSeat(r)
  BY <1>4 DEF FindSeat, CountSeats, RecordSeat, rows, history
<1>5. ASSUME \E q : Finish(r, q) PROVE UNCHANGED <<cap, topCap, seat>>
  BY <1>5 DEF Finish, rows
<1>6. CASE Respond(r) \/ Fail(r)
  BY <1>5, <1>6 DEF Respond, Fail
<1>7. QED
  BY <1>1, <1>2, <1>3, <1>4, <1>5, <1>6 DEF Request

\* Only an install that found room joins the seats taken or headed for.
LEMMA RaceRequest ==
    ASSUME RaceIInv, TypeOK', NEW r \in Requests, Request(r)
    PROVE  CapsWereSet' /\ \A l \in Licences : RaceBound(l)'
<1>1. TypeOK
  BY DEF RaceIInv
<1>2. PICK q : Go(r, q) /\ Course(r, q)
  BY <1>1, CourseOfRequest
<1>3. \A s \in Requests : req'[s] = IF s = r THEN q ELSE req[s]
  BY <1>1, <1>2 DEF Go, TypeOK
<1>4. UNCHANGED <<cap, topCap>> /\ (RecordSeat(r) \/ UNCHANGED seat)
  BY SeatsOfRequest
<1>5. CapsWereSet'
  <2>1. ASSUME q.step \in SeatSteps PROVE q.cap <= topCap[q.lic]
    <3>1. CASE Resolve(r) /\ q.cap = cap[q.lic]
      <4>1. q.lic \in Licences
        BY <1>3, <2>1 DEF TypeOK, SeatSteps
      <4>2. QED
        BY <3>1, <4>1 DEF RaceIInv, CapsWereSet
    <3>2. CASE SameSeat(req[r], q) /\ q.cap = req[r].cap /\ (FindSeat(r) \/ CountSeats(r))
      BY <3>2 DEF RaceIInv, CapsWereSet, SameSeat, FindSeat, CountSeats, At, SeatSteps
    <3>3. QED
      BY <1>2, <2>1, <3>1, <3>2 DEF Course
  <2>2. QED
    BY <1>3, <1>4, <2>1 DEF RaceIInv, CapsWereSet
<1>6. ASSUME NEW l \in Licences PROVE RaceBound(l)'
  <2>1. topCap'[l] = topCap[l] /\ topCap[l] \in Nat
    BY <1>1, <1>4 DEF TypeOK
  <2>2. ASSUME NEW i \in Installs, NEW s \in Requests, s # r, Heading(req'[s], l, i)
        PROVE  i \in Taken(l)
    BY <1>3, <2>2 DEF Taken, Headed
  <2>3. CASE q.step \notin SeatSteps
    <3>1. \A i \in Installs : ~Heading(q, l, i)
      BY <2>3 DEF Heading, SeatSteps
    <3>2. Headed(l)' \subseteq Taken(l)
      BY <1>3, <2>2, <3>1 DEF Headed
    <3>3. Active(l)' \subseteq Taken(l)
      <4>1. CASE UNCHANGED seat
        BY <4>1 DEF Active, Taken
      <4>2. CASE RecordSeat(r)
        <5> SUFFICES ASSUME NEW i \in Installs, seat'[<<l, i>>] = "active" PROVE i \in Taken(l)
          BY DEF Active
        <5>1. CASE seat[<<l, i>>] = "active"
          BY <5>1 DEF Active, Taken
        <5>2. CASE seat[<<l, i>>] # "active"
          <6>1. req[r].lic = l /\ req[r].install = i /\ ~req[r].turned
            <7>1. seat \in [Licences \X Installs -> SeatStates] /\ <<l, i>> \in Licences \X Installs
              BY <1>1 DEF TypeOK
            <7>2. seat' = [seat EXCEPT ![<<req[r].lic, req[r].install>>] =
                             IF req[r].turned THEN "blocked" ELSE "active"]
              BY <4>2, <5>2 DEF RecordSeat, WriteSeat
            <7>3. QED
              BY <5>2, <7>1, <7>2
          <6>2. Heading(req[r], l, i)
            BY <4>2, <6>1 DEF RecordSeat, At, Heading
          <6>3. QED
            BY <6>2 DEF Taken, Headed
        <5>3. QED
          BY <5>1, <5>2
      <4>3. QED
        BY <1>4, <4>1, <4>2
    <3>4. QED
      BY <2>1, <3>2, <3>3, RaceKept DEF Taken
  <2>4. CASE q.step \in SeatSteps /\ (\A i \in Installs : Heading(q, l, i) => i \in Taken(l))
    <3>1. UNCHANGED seat
      <4>1. Resolve(r) \/ FindSeat(r) \/ CountSeats(r)
        BY <1>2, <2>4 DEF Course
      <4>2. QED
        BY <4>1 DEF Resolve, FindSeat, CountSeats, rows
    <3>2. Headed(l)' \subseteq Taken(l)
      BY <1>3, <2>2, <2>4 DEF Headed
    <3>3. Active(l)' \subseteq Taken(l)
      BY <3>1 DEF Active, Taken
    <3>4. QED
      BY <2>1, <3>2, <3>3, RaceKept DEF Taken
  <2>5. CASE \E i \in Installs : q.step \in SeatSteps /\ Heading(q, l, i) /\ i \notin Taken(l)
    <3>1. PICK i \in Installs : q.step \in SeatSteps /\ Heading(q, l, i) /\ i \notin Taken(l)
      BY <2>5
    <3>2. q.lic = l /\ q.install = i /\ seat[<<l, i>>] # "active"
      BY <3>1 DEF Heading, Taken, Active
    <3>3. q.step # "seat" /\ ~(q.step = "count" /\ q.found = seat[<<q.lic, q.install>>])
      BY <3>1, <3>2 DEF Heading
    <3>4. /\ CountSeats(r) /\ q.step = "write" /\ SameSeat(req[r], q) /\ q.cap = req[r].cap
          /\ q.found = req[r].found /\ q.turned = TurnsAway(q.found, activeCount(q.lic), q.cap)
      BY <1>2, <3>1, <3>3 DEF Course
    <3>5. ~q.turned
      BY <3>1, <3>4 DEF Heading
    <3>6. q.found # "active"
      <4>1. ~Heading(req[r], l, i)
        BY <3>1 DEF Taken, Headed
      <4>2. QED
        BY <3>2, <3>4, <4>1 DEF Heading, SameSeat, CountSeats, At
    <3>7. activeCount(l) < req[r].cap
      <4>1. ~(activeCount(l) >= req[r].cap)
        BY <3>2, <3>4, <3>5, <3>6 DEF TurnsAway
      <4>2. activeCount(l) \in Nat
        BY TakenFinite DEF activeCount
      <4>3. req[r].cap \in Nat
        BY <1>1 DEF TypeOK, RequestRow
      <4>4. QED
        BY <4>1, <4>2, <4>3
    <3>8. req[r].cap <= topCap[l]
      BY <3>2, <3>4 DEF RaceIInv, CapsWereSet, SameSeat, CountSeats, At, SeatSteps
    <3>9. activeCount(l) < topCap[l]
      <4>1. activeCount(l) \in Nat /\ req[r].cap \in Nat
        BY <1>1, TakenFinite DEF activeCount, TypeOK, RequestRow
      <4>2. QED
        BY <2>1, <3>7, <3>8, <4>1
    <3>10. UNCHANGED <<seat, topCap>>
      BY <1>4, <3>4 DEF CountSeats, rows
    <3>11. QED
      BY <1>1, <3>9, <3>10, RaceAdmitted
  <2>6. QED
    BY <2>3, <2>4, <2>5
<1>7. QED
  BY <1>5, <1>6

LEMMA RaceStep == RaceIInv /\ [Next]_vars => RaceIInv'
<1> SUFFICES ASSUME RaceIInv, [Next]_vars
             PROVE  CapsWereSet' /\ \A l \in Licences : RaceBound(l)'
  BY TypeStep DEF RaceIInv
<1>1. TypeOK'
  BY TypeStep DEF RaceIInv
<1>2. CASE UNCHANGED vars
  BY <1>2, RaceFrame DEF vars, rows, history
<1>3. ASSUME NEW p \in Purchases, Purchase(p)
      PROVE  CapsWereSet' /\ \A l \in Licences : RaceBound(l)'
  BY <1>3, RaceFrame DEF Purchase, FindActivation, Arm, LoseArming, history
<1>4. ASSUME NEW i \in Installs, Expire(i)
      PROVE  CapsWereSet' /\ \A l \in Licences : RaceBound(l)'
  BY <1>4, RaceFrame DEF Expire, history
<1>5. CASE Administration
  BY <1>1, <1>5, RaceAdministration
<1>6. ASSUME NEW r \in Requests, Request(r)
      PROVE  CapsWereSet' /\ \A l \in Licences : RaceBound(l)'
  BY <1>1, <1>6, RaceRequest
<1>7. QED
  BY <1>2, <1>3, <1>4, <1>5, <1>6 DEF Next

LEMMA RaceInit == Init => RaceIInv
<1> SUFFICES ASSUME Init PROVE RaceIInv
  OBVIOUS
<1>1. CapsWereSet
  <2>1. \A l \in Licences : FirstCap[l] \in Nat
    BY AccessAssumption
  <2>2. QED
    BY <2>1 DEF Init, CapsWereSet, NoRequest, SeatSteps
<1>2. ASSUME NEW l \in Licences PROVE RaceBound(l)
  <2>1. Taken(l) = {}
    BY DEF Init, Taken, Active, Headed, Heading, NoRequest
  <2>2. topCap[l] \in Nat
    BY AccessAssumption DEF Init
  <2>3. Cardinality(Taken(l)) = 0
    BY <2>1, FS_EmptySet
  <2>4. QED
    BY <2>2, <2>3, RequestsCounted DEF RaceBound
<1>3. QED
  BY <1>1, <1>2, TypeInit DEF RaceIInv

\* For any cap, however often it is edited, and any number of requests in
\* flight, the active seats exceed the largest cap by less than those requests.
THEOREM SeatsRaceBounded == Spec => []SeatsWithinRace
<1>1. RaceIInv => SeatsWithinRace
  <2> SUFFICES ASSUME RaceIInv, NEW l \in Licences
               PROVE  activeCount(l) <= topCap[l] + Cardinality(Requests) - 1
    BY DEF SeatsWithinRace
  <2>1. Active(l) \in SUBSET Taken(l) /\ Taken(l) \in SUBSET Installs
    BY DEF Active, Taken, Headed
  <2>2. Cardinality(Active(l)) <= Cardinality(Taken(l))
    BY <2>1, TakenFinite, FS_Subset
  <2>3. /\ Cardinality(Active(l)) \in Nat /\ Cardinality(Taken(l)) \in Nat
        /\ activeCount(l) = Cardinality(Active(l)) /\ topCap[l] \in Nat
    BY <2>1, TakenFinite DEF activeCount, Active, RaceIInv, TypeOK
  <2>4. Cardinality(Taken(l)) <= topCap[l] + Cardinality(Requests) - 1
    BY DEF RaceIInv, RaceBound
  <2>5. QED
    BY <2>2, <2>3, <2>4, RequestsCounted
<1>2. QED
  BY <1>1, RaceInit, RaceStep, PTL DEF Spec
=============================================================================

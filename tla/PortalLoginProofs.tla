-------------------------- MODULE PortalLoginProofs --------------------------
(***************************************************************************)
(* Theorems about PortalLogin, for any number of customers, requests,      *)
(* links and logouts.                                                      *)
(***************************************************************************)
EXTENDS PortalLogin, FiniteSetTheorems, TLAPS

-----------------------------------------------------------------------------
(* Types *)

TaskOK(t) == t \in Task /\ (t.step # "idle" => t.customer \in Customers)
TasksOK == task \in [Requests -> Task] /\ \A r \in Requests : TaskOK(task[r])

LEMMA IdleOK == TaskOK(Idle) /\ Idle.step = "idle"
BY DEF TaskOK, Task, Idle, Request, NoLink, Steps

LEMMA RequestOK ==
    ASSUME NEW step \in Steps, NEW c \in Customers, NEW n \in Nat, NEW e \in Nat, NEW b \in Nat
    PROVE  /\ TaskOK(Request(step, c, n, e, b))
           /\ Request(step, c, n, e, b).step = step /\ Request(step, c, n, e, b).customer = c
           /\ Request(step, c, n, e, b).nonce = n /\ Request(step, c, n, e, b).epoch = e
           /\ Request(step, c, n, e, b).since = b
BY DEF TaskOK, Task, Request

LEMMA OneTaskChanged ==
    ASSUME TasksOK, NEW r \in Requests, NEW t, TaskOK(t), task' = [task EXCEPT ![r] = t]
    PROVE  /\ TasksOK'
           /\ \A q \in Requests : task'[q] = IF q = r THEN t ELSE task[q]
BY DEF TasksOK, TaskOK

LEMMA LeaveTasks ==
    ASSUME TasksOK, NEW r \in Requests, Leave(r)
    PROVE  /\ TasksOK'
           /\ \A q \in Requests : task'[q] = IF q = r THEN Idle ELSE task[q]
BY IdleOK, OneTaskChanged DEF Leave

\* A row that exists is a row, and an update leaves rows.
LEMMA ExistingRow ==
    ASSUME TypeOK, NEW c \in Customers, Exists(c)
    PROVE  customer[c] \in Rows /\ customer[c].nonce \in Nat /\ customer[c].epoch \in Nat
BY DEF TypeOK, Exists, Rows

LEMMA RowOf ==
    ASSUME NEW n \in Nat, NEW e \in Nat
    PROVE  /\ Row(n, e) \in Rows /\ Row(n, e) \notin {NotYet, Gone}
           /\ Row(n, e).nonce = n /\ Row(n, e).epoch = e
BY LoginAssumption DEF Row, Rows

RestOK ==
    /\ customer \in [Customers -> Rows \cup {NotYet, Gone}]
    /\ minted \in Nat /\ mail \subseteq Link /\ session \subseteq Session
    /\ spent \subseteq Nat /\ left \in [spent -> Int] /\ logouts \in [Customers -> Nat]
    /\ restored \subseteq Customers

LEMMA TypeSplit == TypeOK <=> RestOK /\ TasksOK
BY DEF TypeOK, RestOK, TasksOK, TaskOK

LEMMA NoncesAreNat == ASSUME TypeOK, NEW c \in Customers PROVE NonceOf(c) \subseteq Nat
BY ExistingRow DEF NonceOf

\* Spending links keeps the account of what each may still open.
LEMMA CarryingFinite ==
    ASSUME NEW n
    PROVE  IsFiniteSet(Carrying(n)) /\ Cardinality(Carrying(n)) \in Nat
BY LoginAssumption, FS_Subset, FS_CardinalityType DEF Carrying

LEMMA SpendTyped ==
    ASSUME TypeOK, NEW N \in SUBSET Nat, NEW opened, Spend(N, opened)
    PROVE  /\ spent' \subseteq Nat /\ left' \in [spent' -> Int]
           /\ spent' = spent \cup N
           /\ \A n \in spent' :
                 left'[n] = (IF n \in spent THEN left[n] ELSE Cardinality(Carrying(n)))
                            - (IF n \in opened THEN 1 ELSE 0)
<1>1. spent \subseteq Nat /\ left \in [spent -> Int]
      BY DEF TypeOK
<1>2. \A n \in spent \cup N :
         (IF n \in spent THEN left[n] ELSE Cardinality(Carrying(n)))
            - (IF n \in opened THEN 1 ELSE 0) \in Int
      BY <1>1, CarryingFinite
<1>3. QED
      BY <1>1, <1>2 DEF Spend

\* What a request in flight works on.
LEMMA InFlight ==
    ASSUME TypeOK, NEW r \in Requests, task[r].step # "idle"
    PROVE  /\ task[r].customer \in Customers /\ task[r].nonce \in Nat
           /\ task[r].epoch \in Nat /\ task[r].since \in Nat
BY DEF TypeOK, Task

LEMMA ArriveTyped ==
    ASSUME TypeOK, NEW r \in Requests, Arrive(r)
    PROVE  TypeOK'
<1>1. TasksOK /\ RestOK
      BY TypeSplit
<1>2. TasksOK'
  <2>1. ASSUME NEW c \in Customers, BeginLink(r, c)
        PROVE  TasksOK'
    <3>1. TaskOK(Request("rotate", c, NoLink, 0, 0))
          BY RequestOK DEF Steps, NoLink
    <3>2. QED
          BY <1>1, <2>1, <3>1, OneTaskChanged DEF BeginLink, Begin
  <2>2. ASSUME NEW c \in Customers, BeginEdit(r, c)
        PROVE  TasksOK'
    <3>1. TaskOK(Request("save", c, NoLink, customer[c].epoch, 0))
          BY <2>2, ExistingRow, RequestOK DEF Steps, NoLink, BeginEdit
    <3>2. QED
          BY <1>1, <2>2, <3>1, OneTaskChanged DEF BeginEdit, Begin
  <2>3. ASSUME NEW l \in mail, BeginVerify(r, l)
        PROVE  TasksOK'
    <3>1. l.customer \in Customers /\ l.nonce \in Nat /\ Exists(l.customer)
          BY <1>1, <2>3 DEF RestOK, Link, BeginVerify, Opens
    <3>2. customer[l.customer].epoch \in Nat /\ logouts[l.customer] \in Nat
          BY <1>1, <3>1, ExistingRow DEF RestOK
    <3>3. TaskOK(Request("burn", l.customer, l.nonce, customer[l.customer].epoch,
                         logouts[l.customer]))
          BY <3>1, <3>2, RequestOK DEF Steps
    <3>4. QED
          BY <1>1, <2>3, <3>3, OneTaskChanged DEF BeginVerify, Begin
  <2>4. ASSUME NEW s \in session, BeginLogout(r, s)
        PROVE  TasksOK'
    <3>1. s.customer \in Customers /\ s.epoch \in Nat
          BY <1>1 DEF RestOK, Session
    <3>2. TaskOK(Request("bump", s.customer, NoLink, s.epoch, 0))
          BY <3>1, RequestOK DEF Steps, NoLink
    <3>3. QED
          BY <1>1, <2>4, <3>2, OneTaskChanged DEF BeginLogout, Begin
  <2>5. QED
        BY <2>1, <2>2, <2>3, <2>4 DEF Arrive
<1>3. UNCHANGED <<customer, minted, mail, session, spent, left, logouts, restored>>
      BY DEF Arrive, BeginLink, BeginEdit, BeginVerify, BeginLogout
<1>4. RestOK'
      BY <1>1, <1>3 DEF RestOK
<1>5. QED
      BY <1>2, <1>4 DEF TypeOK, RestOK, TasksOK, TaskOK

\* An update of one row writes it if it is there.
LEMMA UpdateTyped ==
    ASSUME TypeOK, NEW c \in Customers, NEW row, Exists(c) => row \in Rows,
           customer' = Updated(c, row)
    PROVE  /\ customer' \in [Customers -> Rows \cup {NotYet, Gone}]
           /\ \A d \in Customers :
                 customer'[d] = IF d = c /\ Exists(c) THEN row ELSE customer[d]
BY DEF TypeOK, Updated

\* What each handler writes into the row of its customer.
LEMMA RotateRow ==
    ASSUME TypeOK, NEW r \in Requests, Rotate(r), NEW c, c = task[r].customer
    PROVE  /\ c \in Customers /\ minted' = minted + 1
           /\ customer' \in [Customers -> Rows \cup {NotYet, Gone}]
           /\ \A d \in Customers :
                 customer'[d] = IF d = c /\ Exists(c) THEN Row(minted + 1, customer[c].epoch)
                                ELSE customer[d]
           /\ Exists(c) => Row(minted + 1, customer[c].epoch) \in Rows
<1>1. c \in Customers
      BY InFlight DEF Rotate, At
<1>2. Exists(c) => Row(minted + 1, customer[c].epoch) \in Rows
      BY <1>1, ExistingRow, RowOf DEF TypeOK
<1>3. customer' = Updated(c, Row(minted + 1, customer[c].epoch)) /\ minted' = minted + 1
      BY DEF Rotate
<1>4. QED
      BY <1>1, <1>2, <1>3, UpdateTyped

LEMMA BurnRow ==
    ASSUME TypeOK, NEW r \in Requests, Burn(r), NEW c, c = task[r].customer
    PROVE  /\ c \in Customers
           /\ customer' \in [Customers -> Rows \cup {NotYet, Gone}]
           /\ \A d \in Customers :
                 customer'[d] = IF d = c /\ Exists(c) THEN Row(NoLink, customer[c].epoch)
                                ELSE customer[d]
           /\ Exists(c) => Row(NoLink, customer[c].epoch) \in Rows
<1>1. c \in Customers
      BY InFlight DEF Burn, At
<1>2. Exists(c) => Row(NoLink, customer[c].epoch) \in Rows
      BY <1>1, ExistingRow, RowOf DEF NoLink
<1>3. customer' = Updated(c, Row(NoLink, customer[c].epoch))
      BY DEF Burn, Burned
<1>4. QED
      BY <1>1, <1>2, <1>3, UpdateTyped

LEMMA BumpRow ==
    ASSUME TypeOK, NEW r \in Requests, Bump(r), NEW c, c = task[r].customer
    PROVE  /\ c \in Customers
           /\ customer' \in [Customers -> Rows \cup {NotYet, Gone}]
           /\ \A d \in Customers :
                 customer'[d] = IF d = c /\ Exists(c)
                                THEN Row(customer[c].nonce, customer[c].epoch + 1)
                                ELSE customer[d]
           /\ Exists(c) => Row(customer[c].nonce, customer[c].epoch + 1) \in Rows
<1>1. c \in Customers
      BY InFlight DEF Bump, At
<1>2. Exists(c) => Row(customer[c].nonce, customer[c].epoch + 1) \in Rows
      BY <1>1, ExistingRow, RowOf
<1>3. customer' = Updated(c, Row(customer[c].nonce, customer[c].epoch + 1))
      BY DEF Bump, Raised
<1>4. QED
      BY <1>1, <1>2, <1>3, UpdateTyped

LEMMA SaveRow ==
    ASSUME TypeOK, NEW r \in Requests, Save(r), NEW c, c = task[r].customer
    PROVE  /\ c \in Customers /\ task[r].epoch \in Nat
           /\ customer' \in [Customers -> Rows \cup {NotYet, Gone}]
           /\ \E n \in Nat :
                 /\ n = IF Exists(c) THEN customer[c].nonce ELSE NoLink
                 /\ Row(n, task[r].epoch) \in Rows
                 /\ \A d \in Customers :
                       customer'[d] = IF d = c THEN Row(n, task[r].epoch) ELSE customer[d]
<1>1. c \in Customers /\ task[r].epoch \in Nat
      BY InFlight DEF Save, At
<1> DEFINE n == IF Exists(c) THEN customer[c].nonce ELSE NoLink
<1>2. n \in Nat
      BY <1>1, ExistingRow DEF NoLink
<1>3. Row(n, task[r].epoch) \in Rows
      BY <1>1, <1>2, RowOf
<1>4. customer' = [customer EXCEPT ![c] = Row(n, task[r].epoch)]
      BY DEF Save
<1> HIDE DEF n
<1>5. /\ customer' \in [Customers -> Rows \cup {NotYet, Gone}]
      /\ \A d \in Customers :
            customer'[d] = IF d = c THEN Row(n, task[r].epoch) ELSE customer[d]
      BY <1>1, <1>3, <1>4 DEF TypeOK
<1>6. n = IF Exists(c) THEN customer[c].nonce ELSE NoLink
      BY DEF n
<1>7. QED
      BY <1>1, <1>2, <1>3, <1>5, <1>6

LEMMA HandleTyped ==
    ASSUME TypeOK, NEW r \in Requests, Handle(r)
    PROVE  TypeOK'
<1> SUFFICES RestOK' /\ TasksOK'
    BY DEF TypeOK, RestOK, TasksOK, TaskOK
<1>1. TasksOK /\ RestOK
      BY TypeSplit
<1>2. CASE Rotate(r)
  <2>1. task[r].customer \in Customers /\ minted' \in Nat /\ minted + 1 \in Nat
        BY <1>1, <1>2, RotateRow DEF RestOK
  <2>2. TaskOK(Request("mail", task[r].customer, minted + 1, 0, 0))
        BY <2>1, RequestOK DEF Steps
  <2>3. TasksOK'
        BY <1>1, <1>2, <2>2, OneTaskChanged DEF Rotate
  <2>4. customer' \in [Customers -> Rows \cup {NotYet, Gone}]
        BY <1>2, RotateRow
  <2>5. spent' \subseteq Nat /\ left' \in [spent' -> Int]
        BY <1>1, <1>2, <2>1, NoncesAreNat, SpendTyped DEF Rotate, RestOK
  <2>6. QED
        BY <1>1, <1>2, <2>1, <2>3, <2>4, <2>5 DEF Rotate, RestOK
<1>3. CASE Mail(r)
  <2>1. task[r].customer \in Customers /\ task[r].nonce \in Nat
        BY <1>3, InFlight DEF Mail, At
  <2>2. mail' \subseteq Link
        BY <1>1, <1>3, <2>1 DEF Mail, Link, RestOK
  <2>3. QED
        BY <1>1, <1>3, <2>2, LeaveTasks DEF Mail, RestOK
<1>4. CASE Burn(r)
  <2>1. /\ task[r].customer \in Customers /\ task[r].nonce \in Nat
        /\ task[r].epoch \in Nat /\ task[r].since \in Nat
        BY <1>4, InFlight DEF Burn, At
  <2>2. session' \subseteq Session
        BY <1>1, <1>4, <2>1 DEF Burn, SignedEpoch, Session, RestOK
  <2>3. spent' \subseteq Nat /\ left' \in [spent' -> Int]
    <3>1. NonceOf(task[r].customer) \cup {task[r].nonce} \subseteq Nat
          BY <2>1, NoncesAreNat
    <3>2. QED
          BY <1>4, <3>1, SpendTyped DEF Burn
  <2>4. customer' \in [Customers -> Rows \cup {NotYet, Gone}]
        BY <1>4, BurnRow
  <2>5. QED
        BY <1>1, <1>4, <2>2, <2>3, <2>4, LeaveTasks DEF Burn, RestOK
<1>5. CASE Bump(r)
  <2>1. logouts' \in [Customers -> Nat]
    <3>1. \/ logouts' = logouts
          \/ logouts' = [logouts EXCEPT ![task[r].customer] = logouts[task[r].customer] + 1]
          BY <1>5 DEF Bump
    <3>2. logouts \in [Customers -> Nat] /\ task[r].customer \in Customers
          BY <1>1, <1>5, BumpRow DEF RestOK
    <3>3. QED
          BY <3>1, <3>2
  <2>2. customer' \in [Customers -> Rows \cup {NotYet, Gone}]
        BY <1>5, BumpRow
  <2>3. QED
        BY <1>1, <1>5, <2>1, <2>2, LeaveTasks DEF Bump, RestOK
<1>6. CASE Save(r)
  <2>1. task[r].customer \in Customers
        BY <1>6, SaveRow
  <2>2. restored' \subseteq Customers
        BY <1>1, <1>6, <2>1 DEF Save, RestOK
  <2>3. customer' \in [Customers -> Rows \cup {NotYet, Gone}]
        BY <1>6, SaveRow
  <2>4. QED
        BY <1>1, <1>6, <2>2, <2>3, LeaveTasks DEF Save, RestOK
<1>7. QED
      BY <1>2, <1>3, <1>4, <1>5, <1>6 DEF Handle

LEMMA NextTyped == TypeOK /\ [Next]_vars => TypeOK'
<1>1. ASSUME TypeOK, NEW r \in Requests, Arrive(r) \/ Handle(r)
      PROVE  TypeOK'
      BY <1>1, ArriveTyped, HandleTyped
<1>2. ASSUME TypeOK, NEW c \in Customers, Create(c)
      PROVE  TypeOK'
      BY <1>2, RowOf DEF Create, TypeOK, NoLink
<1>3. ASSUME TypeOK, NEW c \in Customers, Remove(c)
      PROVE  TypeOK'
      BY <1>3 DEF Remove, TypeOK
<1>4. ASSUME TypeOK, NEW l \in mail, LinkExpires(l)
      PROVE  TypeOK'
      BY <1>4 DEF LinkExpires, TypeOK
<1>5. ASSUME TypeOK, NEW s \in session, SessionExpires(s)
      PROVE  TypeOK'
      BY <1>5 DEF SessionExpires, TypeOK
<1>6. ASSUME TypeOK, UNCHANGED vars
      PROVE  TypeOK'
      BY <1>6 DEF vars, TypeOK
<1>7. QED
      BY <1>1, <1>2, <1>3, <1>4, <1>5, <1>6 DEF Next

LEMMA InitTyped == Init => TypeOK
<1> SUFFICES ASSUME Init PROVE TypeOK
    OBVIOUS
<1>1. spent = {} /\ left \in [spent -> Int]
      BY DEF Init
<1>2. QED
      BY <1>1, IdleOK DEF Init, TypeOK, TaskOK

\* Rows, links, sessions and requests keep their types whatever interleaves.
THEOREM TypeCorrect == Spec => []TypeOK
BY InitTyped, NextTyped, PTL DEF Spec

-----------------------------------------------------------------------------
(* A link opens a session only in the race it was first spent in *)

SpentInNoRow == \A c \in Customers : NonceOf(c) \cap spent = {}

\* A link under way: mailed, about to be mailed, or about to be redeemed.
UnderWay ==
    mail \cup {[customer |-> task[r].customer, nonce |-> task[r].nonce] :
                  r \in {q \in Requests : task[q].step \in {"mail", "burn"}}}

\* No nonce is above the last one minted, and each belongs to one customer.
NonceInv ==
    /\ TypeOK
    /\ SpentInNoRow
    /\ \A n \in spent : n <= minted
    /\ \A c \in Customers : Exists(c) => customer[c].nonce <= minted
    /\ \A l \in UnderWay : l.nonce <= minted /\ l.nonce # NoLink
    /\ \A c, d \in Customers :
          (Exists(c) /\ Exists(d) /\ customer[c].nonce = customer[d].nonce)
              => c = d \/ customer[c].nonce = NoLink
    /\ \A c \in Customers, l \in UnderWay :
          (Exists(c) /\ customer[c].nonce = l.nonce) => c = l.customer \/ l.nonce = NoLink

LEMMA UnderWayTyped ==
    ASSUME TypeOK, NEW l \in UnderWay
    PROVE  l.customer \in Customers /\ l.nonce \in Nat
<1>1. CASE l \in mail
      BY <1>1 DEF TypeOK, Link
<1>2. CASE l \notin mail
  <2>1. PICK r \in Requests : /\ task[r].step \in {"mail", "burn"}
                              /\ l = [customer |-> task[r].customer, nonce |-> task[r].nonce]
        BY <1>2 DEF UnderWay
  <2>2. QED
        BY <2>1, InFlight
<1>3. QED
      BY <1>1, <1>2

\* Rows keep their nonces or lose them, and no link comes under way that was not:
\* all that most steps do to nonces.
LEMMA NoncesKept ==
    ASSUME NonceInv, TypeOK', minted' = minted, spent' = spent, UnderWay' \subseteq UnderWay,
           \A c \in Customers :
               Exists(c)' => \/ customer'[c].nonce = NoLink
                             \/ Exists(c) /\ customer'[c].nonce = customer[c].nonce
    PROVE  NonceInv'
<1>1. SpentInNoRow'
      BY DEF NonceInv, SpentInNoRow, NonceOf
<1>2. \A n \in spent' : n <= minted'
      BY DEF NonceInv
<1>3. \A c \in Customers : Exists(c)' => customer'[c].nonce <= minted'
      BY DEF NonceInv, TypeOK, NoLink
<1>4. \A l \in UnderWay' : l.nonce <= minted' /\ l.nonce # NoLink
      BY DEF NonceInv
<1>5. ASSUME NEW c \in Customers, NEW d \in Customers, Exists(c)', Exists(d)',
             customer'[c].nonce = customer'[d].nonce
      PROVE  c = d \/ customer'[c].nonce = NoLink
      BY <1>5 DEF NonceInv
<1>6. ASSUME NEW c \in Customers, NEW l \in UnderWay', Exists(c)', customer'[c].nonce = l.nonce
      PROVE  c = l.customer \/ l.nonce = NoLink
      BY <1>6 DEF NonceInv
<1>7. QED
      BY <1>1, <1>2, <1>3, <1>4, <1>5, <1>6 DEF NonceInv

\* A request that leaves brings no link under way.
LEMMA FewerUnderWay ==
    ASSUME mail' \subseteq mail,
           \A q \in Requests : task'[q].step \in {"mail", "burn"} => task'[q] = task[q]
    PROVE  UnderWay' \subseteq UnderWay
BY DEF UnderWay

\* The new nonce belongs to the customer whose row was found, and to no link yet.
LEMMA RotateNonces ==
    ASSUME NonceInv, NEW r \in Requests, Rotate(r)
    PROVE  NonceInv'
<1> DEFINE c == task[r].customer
<1>1. TypeOK /\ TypeOK'
      BY HandleTyped DEF NonceInv, Handle
<1>2. /\ c \in Customers /\ minted' = minted + 1 /\ minted \in Nat
      /\ \A d \in Customers :
            customer'[d] = IF d = c /\ Exists(c) THEN Row(minted + 1, customer[c].epoch)
                           ELSE customer[d]
      /\ Exists(c) => customer[c].epoch \in Nat
      BY <1>1, RotateRow, ExistingRow DEF TypeOK
<1>3. spent' = spent \cup NonceOf(c) /\ mail' = mail
      BY DEF Rotate, Spend
<1>4. /\ task' = [task EXCEPT ![r] = Request("mail", c, minted + 1, 0, 0)]
      /\ \A q \in Requests : task'[q] = IF q = r THEN Request("mail", c, minted + 1, 0, 0)
                                        ELSE task[q]
      BY <1>1 DEF Rotate, TypeOK
<1> HIDE DEF c
<1>5. \A d \in Customers : /\ Exists(d)' <=> Exists(d)
                           /\ (d = c /\ Exists(c)) => customer'[d].nonce = minted + 1
                           /\ ~(d = c /\ Exists(c)) => customer'[d] = customer[d]
      BY <1>2, RowOf DEF Exists
<1>6. ASSUME NEW l \in UnderWay'
      PROVE  l \in UnderWay \/ l = [customer |-> c, nonce |-> minted + 1]
  <2>1. CASE l \in mail
        BY <2>1 DEF UnderWay
  <2>2. CASE l \notin mail
    <3>1. PICK q \in Requests :
             /\ task'[q].step \in {"mail", "burn"}
             /\ l = [customer |-> task'[q].customer, nonce |-> task'[q].nonce]
          BY <1>3, <1>6, <2>2 DEF UnderWay
    <3>2. CASE q = r
          BY <1>4, <3>1, <3>2 DEF Request
    <3>3. CASE q # r
          BY <1>4, <3>1, <3>3 DEF UnderWay
    <3>4. QED
          BY <3>2, <3>3
  <2>3. QED
        BY <2>1, <2>2
<1>7. NonceOf(c) \subseteq 0..minted
      BY <1>1, <1>2, ExistingRow DEF NonceOf, NonceInv
<1>8. SpentInNoRow'
  <2>1. SUFFICES ASSUME NEW d \in Customers, Exists(d)', customer'[d].nonce # NoLink
                 PROVE  customer'[d].nonce \notin spent'
        BY DEF SpentInNoRow, NonceOf
  <2>2. CASE d = c /\ Exists(c)
        BY <1>2, <1>3, <1>5, <1>7, <2>2 DEF NonceInv
  <2>3. CASE ~(d = c /\ Exists(c))
    <3>1. customer'[d] = customer[d] /\ Exists(d)
          BY <1>5, <2>1, <2>3
    <3>2. customer[d].nonce \notin spent
          BY <2>1, <3>1 DEF NonceInv, SpentInNoRow, NonceOf
    <3>3. customer[d].nonce \notin NonceOf(c)
          BY <1>2, <2>1, <2>3, <3>1 DEF NonceInv, NonceOf
    <3>4. QED
          BY <1>3, <3>1, <3>2, <3>3
  <2>4. QED
        BY <2>2, <2>3
<1>9. (\A n \in spent' : n <= minted') /\ (\A d \in Customers : Exists(d)' => customer'[d].nonce <= minted')
  <2>1. \A n \in spent' : n <= minted'
        BY <1>1, <1>2, <1>3, <1>7 DEF NonceInv, TypeOK
  <2>2. ASSUME NEW d \in Customers, Exists(d)'
        PROVE  customer'[d].nonce <= minted'
    <3>1. CASE d = c /\ Exists(c)
          BY <1>2, <1>5, <3>1
    <3>2. CASE ~(d = c /\ Exists(c))
          BY <1>1, <1>2, <1>5, <2>2, <3>2, ExistingRow DEF NonceInv
    <3>3. QED
          BY <3>1, <3>2
  <2>3. QED
        BY <2>1, <2>2
<1>10. \A l \in UnderWay' : l.nonce <= minted' /\ l.nonce # NoLink
  <2>1. SUFFICES ASSUME NEW l \in UnderWay'
                 PROVE  l.nonce <= minted' /\ l.nonce # NoLink
        OBVIOUS
  <2>2. CASE l \in UnderWay
        BY <1>1, <1>2, <2>2, UnderWayTyped DEF NonceInv
  <2>3. CASE l = [customer |-> c, nonce |-> minted + 1]
        BY <1>2, <2>3 DEF NoLink
  <2>4. QED
        BY <1>6, <2>1, <2>2, <2>3
<1>11. ASSUME NEW d \in Customers, NEW e \in Customers, Exists(d)', Exists(e)',
              customer'[d].nonce = customer'[e].nonce
       PROVE  d = e \/ customer'[d].nonce = NoLink
  <2>1. \A f \in Customers : Exists(f) => customer[f].nonce <= minted /\ customer[f].nonce \in Nat
        BY <1>1, ExistingRow DEF NonceInv
  <2>2. CASE d = c \/ e = c
        BY <1>2, <1>5, <1>11, <2>1, <2>2
  <2>3. CASE d # c /\ e # c
        BY <1>5, <1>11, <2>3 DEF NonceInv
  <2>4. QED
        BY <2>2, <2>3
<1>12. ASSUME NEW d \in Customers, NEW l \in UnderWay', Exists(d)', customer'[d].nonce = l.nonce
       PROVE  d = l.customer \/ l.nonce = NoLink
  <2>1. CASE d = c
    <3>1. customer'[d].nonce = minted + 1 /\ (l \in UnderWay => l.nonce <= minted /\ l.nonce \in Nat)
          BY <1>1, <1>5, <1>12, <2>1, UnderWayTyped DEF NonceInv
    <3>2. l = [customer |-> c, nonce |-> minted + 1]
          BY <1>2, <1>6, <1>12, <3>1
    <3>3. QED
          BY <2>1, <3>2
  <2>2. CASE d # c
    <3>1. customer'[d] = customer[d] /\ Exists(d) /\ customer[d].nonce <= minted /\ customer[d].nonce \in Nat
          BY <1>1, <1>5, <1>12, <2>2, ExistingRow DEF NonceInv
    <3>2. l \in UnderWay
          BY <1>2, <1>6, <1>12, <3>1
    <3>3. QED
          BY <1>12, <3>1, <3>2 DEF NonceInv
  <2>3. QED
        BY <2>1, <2>2
<1>13. QED
      BY <1>1, <1>8, <1>9, <1>10, <1>11, <1>12 DEF NonceInv

\* What a redemption spends is the nonce of its customer, and that row loses it.
LEMMA BurnNonces ==
    ASSUME NonceInv, NEW r \in Requests, Burn(r)
    PROVE  NonceInv'
<1> DEFINE c == task[r].customer
           n == task[r].nonce
<1>1. TypeOK /\ TypeOK'
      BY HandleTyped DEF NonceInv, Handle
<1>2. /\ c \in Customers
      /\ \A d \in Customers :
            customer'[d] = IF d = c /\ Exists(c) THEN Row(NoLink, customer[c].epoch)
                           ELSE customer[d]
      /\ Exists(c) => customer[c].epoch \in Nat
      BY <1>1, BurnRow, ExistingRow
<1>3. spent' = spent \cup NonceOf(c) \cup {n} /\ mail' = mail /\ minted' = minted /\ Leave(r)
      BY DEF Burn, Spend
<1>4. [customer |-> c, nonce |-> n] \in UnderWay
      BY DEF Burn, At, UnderWay
<1>5. UnderWay' \subseteq UnderWay
      BY <1>1, <1>3, LeaveTasks, IdleOK, FewerUnderWay, TypeSplit
<1> HIDE DEF c, n
<1>6. \A d \in Customers : /\ Exists(d)' <=> Exists(d)
                           /\ (d = c /\ Exists(c)) => customer'[d].nonce = NoLink
                           /\ ~(d = c /\ Exists(c)) => customer'[d] = customer[d]
      BY <1>2, RowOf DEF Exists, NoLink
<1>7. ASSUME NEW d \in Customers, Exists(d)', customer'[d].nonce # NoLink
      PROVE  customer'[d].nonce \notin spent'
  <2>1. d # c /\ customer'[d] = customer[d] /\ Exists(d)
        BY <1>6, <1>7
  <2>2. customer[d].nonce \notin spent
        BY <1>7, <2>1 DEF NonceInv, SpentInNoRow, NonceOf
  <2>3. customer[d].nonce \notin NonceOf(c)
        BY <1>2, <1>7, <2>1 DEF NonceInv, NonceOf
  <2>4. customer[d].nonce # n
        BY <1>4, <1>7, <2>1 DEF NonceInv
  <2>5. QED
        BY <1>3, <2>1, <2>2, <2>3, <2>4
<1>8. SpentInNoRow'
      BY <1>7 DEF SpentInNoRow, NonceOf
<1>9. \A m \in spent' : m <= minted'
      BY <1>2, <1>3, <1>4 DEF NonceInv, NonceOf
<1>10. \A d \in Customers : Exists(d)' => customer'[d].nonce <= minted'
      BY <1>1, <1>3, <1>6 DEF NonceInv, NoLink, TypeOK
<1>11. \A l \in UnderWay' : l.nonce <= minted' /\ l.nonce # NoLink
      BY <1>3, <1>5 DEF NonceInv
<1>12. ASSUME NEW d \in Customers, NEW e \in Customers, Exists(d)', Exists(e)',
              customer'[d].nonce = customer'[e].nonce
       PROVE  d = e \/ customer'[d].nonce = NoLink
      BY <1>6, <1>12 DEF NonceInv
<1>13. ASSUME NEW d \in Customers, NEW l \in UnderWay', Exists(d)', customer'[d].nonce = l.nonce
       PROVE  d = l.customer \/ l.nonce = NoLink
      BY <1>5, <1>6, <1>13 DEF NonceInv
<1>14. QED
      BY <1>1, <1>8, <1>9, <1>10, <1>11, <1>12, <1>13 DEF NonceInv

LEMMA HandleNonces ==
    ASSUME NonceInv, NEW r \in Requests, Handle(r)
    PROVE  NonceInv'
<1>1. TypeOK /\ TypeOK' /\ TasksOK
      BY HandleTyped, TypeSplit DEF NonceInv
<1>2. CASE Mail(r)
  <2>1. customer' = customer /\ minted' = minted /\ spent' = spent /\ Leave(r)
        BY <1>2 DEF Mail
  <2>2. \A q \in Requests : task'[q] = IF q = r THEN Idle ELSE task[q]
        BY <1>1, <2>1, LeaveTasks
  <2>3. mail' \subseteq UnderWay
        BY <1>2 DEF Mail, At, UnderWay
  <2>4. \A q \in Requests : task'[q].step \in {"mail", "burn"} => task'[q] = task[q]
        BY <2>2, IdleOK
  <2>5. UnderWay' \subseteq UnderWay
        BY <2>3, <2>4 DEF UnderWay
  <2>6. QED
        BY <1>1, <2>1, <2>5, NoncesKept DEF Exists
<1>3. CASE Bump(r)
  <2>1. minted' = minted /\ spent' = spent /\ mail' = mail /\ Leave(r)
        BY <1>3 DEF Bump
  <2>2. UnderWay' \subseteq UnderWay
        BY <1>1, <2>1, LeaveTasks, IdleOK, FewerUnderWay
  <2>3. \A c \in Customers :
           Exists(c)' => Exists(c) /\ customer'[c].nonce = customer[c].nonce
        BY <1>1, <1>3, BumpRow, ExistingRow, RowOf DEF Exists
  <2>4. QED
        BY <1>1, <2>1, <2>2, <2>3, NoncesKept
<1>4. CASE Save(r)
  <2>1. minted' = minted /\ spent' = spent /\ mail' = mail /\ Leave(r)
        BY <1>4 DEF Save
  <2>2. UnderWay' \subseteq UnderWay
        BY <1>1, <2>1, LeaveTasks, IdleOK, FewerUnderWay
  <2>3. ASSUME NEW d \in Customers, Exists(d)'
        PROVE  \/ customer'[d].nonce = NoLink
               \/ Exists(d) /\ customer'[d].nonce = customer[d].nonce
    <3> DEFINE c == task[r].customer
    <3>1. PICK n \in Nat :
             /\ n = IF Exists(c) THEN customer[c].nonce ELSE NoLink
             /\ \A e \in Customers :
                   customer'[e] = IF e = c THEN Row(n, task[r].epoch) ELSE customer[e]
          BY <1>1, <1>4, SaveRow
    <3>2. CASE d = c
          BY <3>1, <3>2 DEF Row
    <3>3. CASE d # c
          BY <2>3, <3>1, <3>3 DEF Exists
    <3>4. QED
          BY <3>2, <3>3
  <2>4. QED
        BY <1>1, <2>1, <2>2, <2>3, NoncesKept
<1>5. QED
      BY <1>2, <1>3, <1>4, RotateNonces, BurnNonces DEF Handle

\* A request that begins is under way only with a link that was.
LEMMA ArriveNonces ==
    ASSUME NonceInv, NEW r \in Requests, Arrive(r)
    PROVE  NonceInv'
<1>1. TypeOK /\ TypeOK' /\ TasksOK
      BY ArriveTyped, TypeSplit DEF NonceInv
<1>2. customer' = customer /\ minted' = minted /\ spent' = spent /\ mail' = mail
      BY DEF Arrive, BeginLink, BeginEdit, BeginVerify, BeginLogout
<1>3. ASSUME NEW t, task' = [task EXCEPT ![r] = t],
             t.step \in {"mail", "burn"} => [customer |-> t.customer, nonce |-> t.nonce] \in mail
      PROVE  UnderWay' \subseteq UnderWay
  <2>1. \A q \in Requests : task'[q] = IF q = r THEN t ELSE task[q]
        BY <1>1, <1>3 DEF TasksOK
  <2>2. SUFFICES ASSUME NEW l \in UnderWay', l \notin mail
                 PROVE  l \in UnderWay
        BY DEF UnderWay
  <2>3. PICK q \in Requests : /\ task'[q].step \in {"mail", "burn"}
                              /\ l = [customer |-> task'[q].customer, nonce |-> task'[q].nonce]
        BY <1>2, <2>2 DEF UnderWay
  <2>4. q # r
        BY <1>3, <2>1, <2>2, <2>3
  <2>5. QED
        BY <2>1, <2>3, <2>4 DEF UnderWay
<1>4. UnderWay' \subseteq UnderWay
  <2>1. ASSUME NEW c \in Customers, BeginLink(r, c)
        PROVE  UnderWay' \subseteq UnderWay
    <3>1. Request("rotate", c, NoLink, 0, 0).step = "rotate"
          BY DEF Request
    <3>2. QED
          BY <1>3, <2>1, <3>1 DEF BeginLink, Begin
  <2>2. ASSUME NEW c \in Customers, BeginEdit(r, c)
        PROVE  UnderWay' \subseteq UnderWay
    <3>1. Request("save", c, NoLink, customer[c].epoch, 0).step = "save"
          BY DEF Request
    <3>2. QED
          BY <1>3, <2>2, <3>1 DEF BeginEdit, Begin
  <2>3. ASSUME NEW l \in mail, BeginVerify(r, l)
        PROVE  UnderWay' \subseteq UnderWay
    <3> DEFINE t == Request("burn", l.customer, l.nonce, customer[l.customer].epoch,
                            logouts[l.customer])
    <3>1. t.customer = l.customer /\ t.nonce = l.nonce
          BY DEF Request
    <3>2. l = [customer |-> l.customer, nonce |-> l.nonce]
          BY <1>1 DEF TypeOK, Link
    <3>3. [customer |-> t.customer, nonce |-> t.nonce] \in mail
          BY <3>1, <3>2
    <3>4. task' = [task EXCEPT ![r] = t]
          BY <2>3 DEF BeginVerify, Begin
    <3> HIDE DEF t
    <3>5. QED
          BY <1>3, <3>3, <3>4
  <2>4. ASSUME NEW s \in session, BeginLogout(r, s)
        PROVE  UnderWay' \subseteq UnderWay
    <3>1. Request("bump", s.customer, NoLink, s.epoch, 0).step = "bump"
          BY DEF Request
    <3>2. QED
          BY <1>3, <2>4, <3>1 DEF BeginLogout, Begin
  <2>5. QED
        BY <2>1, <2>2, <2>3, <2>4 DEF Arrive
<1>5. \A c \in Customers : Exists(c)' => Exists(c) /\ customer'[c].nonce = customer[c].nonce
      BY <1>2 DEF Exists
<1>6. QED
      BY <1>1, <1>2, <1>4, <1>5, NoncesKept

LEMMA NextNonces == NonceInv /\ [Next]_vars => NonceInv'
<1> SUFFICES ASSUME NonceInv, [Next]_vars
             PROVE  NonceInv'
    OBVIOUS
<1>1. TypeOK /\ TypeOK'
      BY NextTyped DEF NonceInv
<1>2. ASSUME NEW r \in Requests, Arrive(r) \/ Handle(r)
      PROVE  NonceInv'
      BY <1>2, ArriveNonces, HandleNonces
<1>3. ASSUME NEW c \in Customers, Create(c) \/ Remove(c)
      PROVE  NonceInv'
  <2>1. minted' = minted /\ spent' = spent /\ mail' = mail /\ task' = task
        BY <1>3 DEF Create, Remove
  <2>2. UnderWay' \subseteq UnderWay
        BY <2>1, FewerUnderWay
  <2>3. \A d \in Customers :
           Exists(d)' => \/ customer'[d].nonce = NoLink
                         \/ Exists(d) /\ customer'[d].nonce = customer[d].nonce
    <3>1. CASE customer' = [customer EXCEPT ![c] = Row(NoLink, 0)]
          BY <1>1, <3>1 DEF TypeOK, Exists, Row
    <3>2. CASE customer' = [customer EXCEPT ![c] = Gone]
          BY <1>1, <3>2 DEF TypeOK, Exists
    <3>3. QED
          BY <1>3, <3>1, <3>2 DEF Create, Remove
  <2>4. QED
        BY <1>1, <2>1, <2>2, <2>3, NoncesKept
<1>4. ASSUME \/ \E l \in mail : LinkExpires(l)
             \/ \E s \in session : SessionExpires(s)
             \/ UNCHANGED vars
      PROVE  NonceInv'
  <2>1. /\ minted' = minted /\ spent' = spent /\ mail' \subseteq mail /\ task' = task
        /\ customer' = customer
        BY <1>4 DEF LinkExpires, SessionExpires, vars
  <2>2. UnderWay' \subseteq UnderWay
        BY <2>1, FewerUnderWay
  <2>3. QED
        BY <1>1, <2>1, <2>2, NoncesKept DEF Exists
<1>5. QED
      BY <1>2, <1>3, <1>4 DEF Next

LEMMA InitNonces == Init => NonceInv
<1> SUFFICES ASSUME Init PROVE NonceInv
    OBVIOUS
<1>1. \A c \in Customers : ~Exists(c)
      BY DEF Init, Exists
<1>2. UnderWay = {} /\ spent = {}
      BY IdleOK DEF Init, UnderWay
<1>3. QED
      BY <1>1, <1>2, InitTyped DEF NonceInv, SpentInNoRow, NonceOf

\* What a spent link may still open suffices for the requests past its comparison.
RaceInv ==
    /\ NonceInv
    /\ \A n \in spent : Cardinality(Carrying(n)) <= left[n]

\* A comparison with a spent link fails.
LEMMA SpentIsRefused ==
    ASSUME NonceInv, NEW l \in mail, Opens(l)
    PROVE  l.nonce \notin spent
BY DEF NonceInv, UnderWay, Opens, TypeOK, Link, SpentInNoRow, NonceOf

\* While nothing is spent, no more requests come to carry a spent link.
LEMMA FewerCarry ==
    ASSUME RaceInv, NonceInv', spent' = spent, left' = left,
           \A n \in spent : Carrying(n)' \subseteq Carrying(n)
    PROVE  RaceInv'
<1>1. ASSUME NEW n \in spent
      PROVE  Cardinality(Carrying(n)') <= left'[n]
  <2>1. /\ Cardinality(Carrying(n)') <= Cardinality(Carrying(n))
        /\ Cardinality(Carrying(n)') \in Nat
        BY <1>1, CarryingFinite, FS_Subset, FS_CardinalityType
  <2>2. Cardinality(Carrying(n)) <= left[n] /\ left[n] \in Int
        BY <1>1 DEF RaceInv, NonceInv, TypeOK
  <2>3. QED
        BY <2>1, <2>2, CarryingFinite
<1>2. QED
      BY <1>1 DEF RaceInv

\* What a new link replaces is counted in full.
LEMMA RotateRace ==
    ASSUME RaceInv, NEW r \in Requests, Rotate(r)
    PROVE  RaceInv'
<1>1. NonceInv /\ NonceInv' /\ TypeOK
      BY RotateNonces DEF RaceInv, NonceInv
<1>2. NonceOf(task[r].customer) \in SUBSET Nat /\ Spend(NonceOf(task[r].customer), {})
      BY <1>1, RotateRow, NoncesAreNat DEF Rotate
<1>3. \A n \in spent' :
         left'[n] = IF n \in spent THEN left[n] ELSE Cardinality(Carrying(n))
  <2> DEFINE nothing == {}
  <2>1. Spend(NonceOf(task[r].customer), nothing)
        BY <1>2
  <2>2. \A n : n \notin nothing
        OBVIOUS
  <2> HIDE DEF nothing
  <2>3. \A n \in spent' :
           left'[n] = (IF n \in spent THEN left[n] ELSE Cardinality(Carrying(n)))
                      - (IF n \in nothing THEN 1 ELSE 0)
        BY <1>1, <1>2, <2>1, SpendTyped
  <2>4. \A n \in spent : left[n] \in Int
        BY <1>1 DEF TypeOK
  <2>5. QED
        BY <2>2, <2>3, <2>4, CarryingFinite
<1>4. \A n : Carrying(n)' = Carrying(n)
  <2>1. \A q \in Requests : task'[q] = IF q = r
                                      THEN Request("mail", task[r].customer, minted + 1, 0, 0)
                                      ELSE task[q]
        BY <1>1 DEF Rotate, TypeOK
  <2>2. Request("mail", task[r].customer, minted + 1, 0, 0).step = "mail"
        BY DEF Request
  <2>3. task[r].step = "rotate"
        BY DEF Rotate, At
  <2>4. QED
        BY <2>1, <2>2, <2>3 DEF Carrying, At
<1>5. ASSUME NEW n \in spent'
      PROVE  Cardinality(Carrying(n)') <= left'[n]
  <2>1. CASE n \in spent
        BY <1>3, <1>4, <1>5, <2>1 DEF RaceInv
  <2>2. CASE n \notin spent
        BY <1>3, <1>4, <1>5, <2>2, CarryingFinite
  <2>3. QED
        BY <2>1, <2>2
<1>6. QED
      BY <1>1, <1>5 DEF RaceInv

\* A redemption takes one request from the race and one from the account of its link.
LEMMA BurnRace ==
    ASSUME RaceInv, NEW r \in Requests, Burn(r)
    PROVE  RaceInv'
<1> DEFINE c == task[r].customer
           l == task[r].nonce
<1>1. NonceInv /\ NonceInv' /\ TypeOK /\ TasksOK
      BY BurnNonces, TypeSplit DEF RaceInv, NonceInv
<1>2. /\ NonceOf(c) \cup {l} \subseteq Nat
      /\ Spend(NonceOf(c) \cup {l}, {l}) /\ Leave(r) /\ r \in Carrying(l)
      BY <1>1, InFlight, NoncesAreNat DEF Burn, At, Carrying
<1> HIDE DEF c, l
<1>3. \A n \in spent' :
         left'[n] = (IF n \in spent THEN left[n] ELSE Cardinality(Carrying(n)))
                    - (IF n \in {l} THEN 1 ELSE 0)
      BY <1>1, <1>2, SpendTyped
<1>4. \A n : Carrying(n)' = Carrying(n) \ {r}
  <2>1. \A q \in Requests : task'[q] = IF q = r THEN Idle ELSE task[q]
        BY <1>1, <1>2, LeaveTasks
  <2>2. QED
        BY <2>1, IdleOK DEF Carrying, At
<1>5. ASSUME NEW n \in spent'
      PROVE  Cardinality(Carrying(n)') <= left'[n]
  <2> DEFINE k == Cardinality(Carrying(n))
             was == IF n \in spent THEN left[n] ELSE k
  <2>1. k \in Nat
        BY CarryingFinite
  <2>2. k <= was /\ was \in Int
    <3>1. CASE n \in spent
          BY <1>1, <3>1 DEF RaceInv, TypeOK
    <3>2. CASE n \notin spent
          BY <2>1, <3>2
    <3>3. QED
          BY <3>1, <3>2
  <2>3. CASE n = l
    <3>1. Cardinality(Carrying(n) \ {r}) = k - 1
          BY <1>2, <2>3, CarryingFinite, FS_RemoveElement
    <3>2. left'[n] = was - 1
          BY <1>3, <1>5, <2>3
    <3> HIDE DEF k, was
    <3>3. QED
          BY <1>4, <2>1, <2>2, <3>1, <3>2
  <2>4. CASE n # l
    <3>1. r \notin Carrying(n)
          BY <1>2, <2>4 DEF Carrying
    <3>2. Carrying(n)' = Carrying(n)
          BY <1>4, <3>1
    <3>3. left'[n] = was - 0
          BY <1>3, <1>5, <2>4
    <3> HIDE DEF was
    <3>4. QED
          BY <2>1, <2>2, <3>2, <3>3
  <2>5. QED
        BY <2>3, <2>4
<1>6. QED
      BY <1>1, <1>5 DEF RaceInv

LEMMA HandleRace ==
    ASSUME RaceInv, NEW r \in Requests, Handle(r)
    PROVE  RaceInv'
<1>1. NonceInv /\ NonceInv' /\ TasksOK
      BY HandleNonces, TypeSplit DEF RaceInv, NonceInv
<1>2. CASE Mail(r) \/ Bump(r) \/ Save(r)
  <2>1. spent' = spent /\ left' = left /\ Leave(r)
        BY <1>2 DEF Mail, Bump, Save
  <2>2. \A q \in Requests : task'[q] = IF q = r THEN Idle ELSE task[q]
        BY <1>1, <2>1, LeaveTasks
  <2>3. \A n : Carrying(n)' \subseteq Carrying(n)
        BY <2>2, IdleOK DEF Carrying, At
  <2>4. QED
        BY <1>1, <2>1, <2>3, FewerCarry
<1>3. QED
      BY <1>2, RotateRace, BurnRace DEF Handle

\* Whoever compares now comes with a link that is not spent.
LEMMA ArriveRace ==
    ASSUME RaceInv, NEW r \in Requests, Arrive(r)
    PROVE  RaceInv'
<1>1. NonceInv /\ NonceInv' /\ TasksOK
      BY ArriveNonces, TypeSplit DEF RaceInv, NonceInv
<1>2. spent' = spent /\ left' = left
      BY DEF Arrive, BeginLink, BeginEdit, BeginVerify, BeginLogout
<1>3. ASSUME NEW t, task' = [task EXCEPT ![r] = t], t.step = "burn" => t.nonce \notin spent
      PROVE  \A n \in spent : Carrying(n)' \subseteq Carrying(n)
  <2>1. \A q \in Requests : task'[q] = IF q = r THEN t ELSE task[q]
        BY <1>1, <1>3 DEF TasksOK
  <2>2. QED
        BY <1>3, <2>1 DEF Carrying, At
<1>4. \A n \in spent : Carrying(n)' \subseteq Carrying(n)
  <2>1. ASSUME NEW l \in mail, BeginVerify(r, l)
        PROVE  \A n \in spent : Carrying(n)' \subseteq Carrying(n)
    <3> DEFINE t == Request("burn", l.customer, l.nonce, customer[l.customer].epoch,
                            logouts[l.customer])
    <3>1. task' = [task EXCEPT ![r] = t] /\ Opens(l)
          BY <2>1 DEF BeginVerify, Begin
    <3>2. t.nonce = l.nonce
          BY DEF Request
    <3> HIDE DEF t
    <3>3. QED
          BY <1>1, <1>3, <3>1, <3>2, SpentIsRefused
  <2>2. ASSUME NEW step \in {"rotate", "save", "bump"}, NEW c, NEW e,
               Begin(r, Request(step, c, NoLink, e, 0))
        PROVE  \A n \in spent : Carrying(n)' \subseteq Carrying(n)
    <3>1. Request(step, c, NoLink, e, 0).step = step
          BY DEF Request
    <3>2. QED
          BY <1>3, <2>2, <3>1 DEF Begin
  <2>3. QED
        BY <2>1, <2>2 DEF Arrive, BeginLink, BeginEdit, BeginLogout
<1>5. QED
      BY <1>1, <1>2, <1>4, FewerCarry

LEMMA NextRace == RaceInv /\ [Next]_vars => RaceInv'
<1> SUFFICES ASSUME RaceInv, [Next]_vars
             PROVE  RaceInv'
    OBVIOUS
<1>1. ASSUME NEW r \in Requests, Arrive(r) \/ Handle(r)
      PROVE  RaceInv'
      BY <1>1, ArriveRace, HandleRace
<1>2. ASSUME \/ \E c \in Customers : Create(c) \/ Remove(c)
             \/ \E l \in mail : LinkExpires(l)
             \/ \E s \in session : SessionExpires(s)
             \/ UNCHANGED vars
      PROVE  RaceInv'
  <2>1. task' = task /\ spent' = spent /\ left' = left
        BY <1>2 DEF Create, Remove, LinkExpires, SessionExpires, vars
  <2>2. \A n : Carrying(n)' = Carrying(n)
        BY <2>1 DEF Carrying, At
  <2>3. NonceInv'
        BY NextNonces DEF RaceInv
  <2>4. QED
        BY <2>1, <2>2, <2>3, FewerCarry
<1>3. QED
      BY <1>1, <1>2 DEF Next

\* However many customers, links and requests there are, a link opens at most one
\* session for each request that had passed the comparison with it when it was first
\* redeemed or replaced: exactly once where redemptions do not race.
THEOREM LinksOpenWithinRace == Spec => []LinkOpensWithinRace
<1>1. Init => RaceInv
      BY InitNonces DEF Init, RaceInv
<1>2. Spec => []RaceInv
      BY <1>1, NextRace, PTL DEF Spec
<1>3. ASSUME RaceInv, NEW n \in spent
      PROVE  left[n] >= 0
      BY <1>3, CarryingFinite DEF RaceInv, NonceInv, TypeOK
<1>4. RaceInv => LinkOpensWithinRace
      BY <1>3 DEF LinkOpensWithinRace
<1>5. QED
      BY <1>2, <1>4, PTL

-----------------------------------------------------------------------------
(* A logout ends every session checked before it *)

\* No epoch is above the number of logouts, and where no stale edit has put an
\* older one back it is that number.
RowsBelow ==
    \A c \in Customers :
        /\ customer[c] = NotYet => logouts[c] = 0
        /\ Exists(c) => customer[c].epoch <= logouts[c]
        /\ (Exists(c) /\ c \notin restored) => customer[c].epoch = logouts[c]

SessionsBelow ==
    \A s \in session : s.epoch <= s.since /\ s.since <= logouts[s.customer]

RequestsBelow ==
    \A r \in Requests :
        /\ At(r, "burn") => /\ task[r].epoch <= task[r].since
                            /\ task[r].since <= logouts[task[r].customer]
        /\ At(r, "save") => task[r].epoch <= logouts[task[r].customer]

EpochInv == TypeOK /\ RowsBelow /\ SessionsBelow /\ RequestsBelow

\* Logouts are counted upwards: what was read of them stays below.
LEMMA SessionsStayBelow ==
    ASSUME EpochInv, session' \subseteq session,
           \A c \in Customers : logouts'[c] \in Nat /\ logouts[c] <= logouts'[c]
    PROVE  SessionsBelow'
<1>1. \A s \in session : /\ s.customer \in Customers /\ s.since \in Nat
                         /\ s.epoch <= s.since /\ s.since <= logouts[s.customer]
      BY DEF EpochInv, TypeOK, Session, SessionsBelow
<1>2. \A c \in Customers : logouts[c] \in Nat
      BY DEF EpochInv, TypeOK
<1>3. QED
      BY <1>1, <1>2 DEF SessionsBelow

LEMMA RequestsStayBelow ==
    ASSUME EpochInv, NEW r \in Requests,
           \A c \in Customers : logouts'[c] \in Nat /\ logouts[c] <= logouts'[c],
           \A q \in Requests : q # r => task'[q] = task[q],
           task'[r] # task[r] => task'[r].step \notin {"burn", "save"}
    PROVE  RequestsBelow'
<1>1. \A q \in Requests :
         task[q].step # "idle" => /\ task[q].customer \in Customers /\ task[q].since \in Nat
                                  /\ task[q].epoch \in Nat
      BY InFlight DEF EpochInv
<1>2. \A c \in Customers : logouts[c] \in Nat
      BY DEF EpochInv, TypeOK
<1>3. ASSUME NEW q \in Requests, task'[q] = task[q]
      PROVE  /\ task'[q].step = "burn" => /\ task'[q].epoch <= task'[q].since
                                          /\ task'[q].since <= logouts'[task'[q].customer]
             /\ task'[q].step = "save" => task'[q].epoch <= logouts'[task'[q].customer]
  <2>1. CASE task[q].step = "burn"
        BY <1>1, <1>2, <1>3, <2>1 DEF EpochInv, RequestsBelow, At
  <2>2. CASE task[q].step = "save"
        BY <1>1, <1>2, <1>3, <2>2 DEF EpochInv, RequestsBelow, At
  <2>3. QED
        BY <1>3, <2>1, <2>2
<1>4. QED
      BY <1>3 DEF RequestsBelow, At

\* A session carries the epoch its request read.
LEMMA BurnEpochs ==
    ASSUME EpochInv, NEW r \in Requests, Burn(r)
    PROVE  EpochInv'
<1> DEFINE c == task[r].customer
           s == [customer |-> c, epoch |-> task[r].epoch, since |-> task[r].since]
<1>1. TypeOK /\ TypeOK' /\ TasksOK
      BY HandleTyped, TypeSplit DEF EpochInv, Handle
<1>2. /\ logouts' = logouts /\ restored' = restored /\ session' = session \cup {s} /\ Leave(r)
      BY DEF Burn, SignedEpoch
<1>3. /\ c \in Customers /\ task[r].epoch <= task[r].since
      /\ task[r].since <= logouts[c]
      BY <1>1, BurnRow DEF EpochInv, RequestsBelow, Burn
<1>4. \A d \in Customers : /\ Exists(d)' <=> Exists(d)
                           /\ customer'[d] = NotYet <=> customer[d] = NotYet
                           /\ Exists(d) => customer'[d].epoch = customer[d].epoch
  <2>1. \A d \in Customers :
           customer'[d] = IF d = c /\ Exists(c) THEN Row(NoLink, customer[c].epoch)
                          ELSE customer[d]
        BY <1>1, BurnRow
  <2>2. Exists(c) => customer[c].epoch \in Nat
        BY <1>1, <1>3, ExistingRow
  <2>3. QED
        BY <2>1, <2>2, RowOf DEF Exists, NoLink
<1>5. RowsBelow'
      BY <1>2, <1>4 DEF EpochInv, RowsBelow
<1>6. SessionsBelow'
      BY <1>2, <1>3 DEF EpochInv, SessionsBelow
<1>7. RequestsBelow'
  <2>1. \A d \in Customers : logouts'[d] \in Nat /\ logouts[d] <= logouts'[d]
        BY <1>1, <1>2 DEF TypeOK
  <2>2. QED
        BY <1>1, <1>2, <2>1, LeaveTasks, IdleOK, RequestsStayBelow
<1>8. QED
      BY <1>1, <1>5, <1>6, <1>7 DEF EpochInv

\* The epoch in the row is raised as the logout is counted.
LEMMA BumpEpochs ==
    ASSUME EpochInv, NEW r \in Requests, Bump(r)
    PROVE  EpochInv'
<1> DEFINE c == task[r].customer
<1>1. TypeOK /\ TypeOK' /\ TasksOK /\ c \in Customers
      BY HandleTyped, TypeSplit, BumpRow DEF EpochInv, Handle
<1>2. /\ restored' = restored /\ session' = session /\ Leave(r)
      /\ logouts' = IF Exists(c) THEN [logouts EXCEPT ![c] = logouts[c] + 1] ELSE logouts
      BY DEF Bump
<1>3. \A d \in Customers :
         /\ logouts[d] \in Nat
         /\ logouts'[d] = IF d = c /\ Exists(c) THEN logouts[d] + 1 ELSE logouts[d]
      BY <1>1, <1>2 DEF TypeOK
<1>4. \A d \in Customers :
         /\ Exists(d)' <=> Exists(d)
         /\ customer'[d] = NotYet <=> customer[d] = NotYet
         /\ Exists(d) => /\ customer[d].epoch \in Nat
                         /\ customer'[d].epoch = IF d = c THEN customer[d].epoch + 1
                                                 ELSE customer[d].epoch
  <2>1. \A d \in Customers :
           customer'[d] = IF d = c /\ Exists(c)
                          THEN Row(customer[c].nonce, customer[c].epoch + 1)
                          ELSE customer[d]
        BY <1>1, BumpRow
  <2>2. \A d \in Customers : Exists(d) => customer[d].epoch \in Nat /\ customer[d].nonce \in Nat
        BY <1>1, ExistingRow
  <2>3. QED
        BY <1>1, <2>1, <2>2, RowOf DEF Exists
<1> HIDE DEF c
<1>5. RowsBelow'
  <2>1. SUFFICES ASSUME NEW d \in Customers
                 PROVE  /\ customer'[d] = NotYet => logouts'[d] = 0
                        /\ Exists(d)' => customer'[d].epoch <= logouts'[d]
                        /\ (Exists(d)' /\ d \notin restored') =>
                               customer'[d].epoch = logouts'[d]
        BY DEF RowsBelow
  <2>2. /\ customer[d] = NotYet => logouts[d] = 0
        /\ Exists(d) => customer[d].epoch <= logouts[d]
        /\ (Exists(d) /\ d \notin restored) => customer[d].epoch = logouts[d]
        BY DEF EpochInv, RowsBelow
  <2>3. CASE d = c /\ Exists(c)
        BY <1>2, <1>3, <1>4, <2>2, <2>3 DEF Exists
  <2>4. CASE ~(d = c /\ Exists(c))
        BY <1>2, <1>3, <1>4, <2>2, <2>4
  <2>5. QED
        BY <2>3, <2>4
<1>6. \A d \in Customers : logouts'[d] \in Nat /\ logouts[d] <= logouts'[d]
      BY <1>3
<1>7. SessionsBelow'
      BY <1>2, <1>6, SessionsStayBelow
<1>8. RequestsBelow'
      BY <1>1, <1>2, <1>6, LeaveTasks, IdleOK, RequestsStayBelow
<1>9. QED
      BY <1>1, <1>5, <1>7, <1>8 DEF EpochInv

\* A save puts back an epoch that was read, and if that is an older one, or the
\* row is gone, the customer is counted among the restored.
LEMMA SaveEpochs ==
    ASSUME EpochInv, NEW r \in Requests, Save(r)
    PROVE  EpochInv'
<1> DEFINE c == task[r].customer
<1>1. TypeOK /\ TypeOK' /\ TasksOK /\ c \in Customers
      BY HandleTyped, TypeSplit, SaveRow DEF EpochInv, Handle
<1>2. /\ logouts' = logouts /\ session' = session /\ Leave(r)
      /\ restored' = IF customer' = customer THEN restored ELSE restored \cup {c}
      BY DEF Save
<1>3. task[r].epoch <= logouts[c]
      BY DEF EpochInv, RequestsBelow, Save
<1>4. \A d \in Customers : logouts'[d] \in Nat /\ logouts[d] <= logouts'[d]
      BY <1>1, <1>2 DEF TypeOK
<1>5. RowsBelow'
  <2>1. CASE customer' = customer
        BY <1>2, <2>1 DEF EpochInv, RowsBelow, Exists
  <2>2. CASE customer' # customer
    <3>1. PICK n \in Nat :
             /\ Row(n, task[r].epoch) \in Rows
             /\ \A d \in Customers :
                   customer'[d] = IF d = c THEN Row(n, task[r].epoch) ELSE customer[d]
          BY <1>1, SaveRow
    <3>2. task[r].epoch \in Nat
          BY <1>1, SaveRow
    <3>3. /\ Row(n, task[r].epoch) \notin {NotYet, Gone}
          /\ Row(n, task[r].epoch).epoch = task[r].epoch
          BY <3>2, RowOf
    <3>4. restored' = restored \cup {c}
          BY <1>2, <2>2
    <3>5. SUFFICES ASSUME NEW d \in Customers
                   PROVE  /\ customer'[d] = NotYet => logouts'[d] = 0
                          /\ Exists(d)' => customer'[d].epoch <= logouts'[d]
                          /\ (Exists(d)' /\ d \notin restored') =>
                                 customer'[d].epoch = logouts'[d]
          BY DEF RowsBelow
    <3>6. CASE d = c
          BY <1>2, <1>3, <3>1, <3>3, <3>4, <3>6
    <3>7. CASE d # c
          BY <1>2, <3>1, <3>4, <3>7 DEF EpochInv, RowsBelow, Exists
    <3>8. QED
          BY <3>6, <3>7
  <2>3. QED
        BY <2>1, <2>2
<1>6. SessionsBelow'
      BY <1>2, <1>4, SessionsStayBelow
<1>7. RequestsBelow'
      BY <1>1, <1>2, <1>4, LeaveTasks, IdleOK, RequestsStayBelow
<1>8. QED
      BY <1>1, <1>5, <1>6, <1>7 DEF EpochInv

\* Links change no epoch.
LEMMA LinkEpochs ==
    ASSUME EpochInv, NEW r \in Requests, Rotate(r) \/ Mail(r)
    PROVE  EpochInv'
<1>1. TypeOK /\ TypeOK' /\ TasksOK
      BY HandleTyped, TypeSplit DEF EpochInv, Handle
<1>2. logouts' = logouts /\ restored' = restored /\ session' = session
      BY DEF Rotate, Mail
<1>3. \A d \in Customers : logouts'[d] \in Nat /\ logouts[d] <= logouts'[d]
      BY <1>1, <1>2 DEF TypeOK
<1>4. RowsBelow'
  <2>1. CASE Rotate(r)
    <3> DEFINE c == task[r].customer
    <3>1. \A d \in Customers :
             customer'[d] = IF d = c /\ Exists(c) THEN Row(minted + 1, customer[c].epoch)
                            ELSE customer[d]
          BY <1>1, <2>1, RotateRow
    <3>2. c \in Customers /\ minted + 1 \in Nat /\ (Exists(c) => customer[c].epoch \in Nat)
          BY <1>1, <2>1, RotateRow, ExistingRow DEF TypeOK
    <3>3. \A d \in Customers : /\ Exists(d)' <=> Exists(d)
                               /\ customer'[d] = NotYet <=> customer[d] = NotYet
                               /\ Exists(d) => customer'[d].epoch = customer[d].epoch
          BY <3>1, <3>2, RowOf DEF Exists
    <3>4. QED
          BY <1>2, <3>3 DEF EpochInv, RowsBelow
  <2>2. CASE Mail(r)
        BY <1>2, <2>2 DEF Mail, EpochInv, RowsBelow, Exists
  <2>3. QED
        BY <2>1, <2>2
<1>5. SessionsBelow'
      BY <1>2, <1>3, SessionsStayBelow
<1>6. RequestsBelow'
  <2>1. \A q \in Requests : q # r => task'[q] = task[q]
        BY <1>1 DEF Rotate, Mail, Leave, TasksOK
  <2>2. task'[r].step \notin {"burn", "save"}
    <3>1. CASE Rotate(r)
          BY <1>1, <3>1 DEF Rotate, Request, TasksOK
    <3>2. CASE Mail(r)
          BY <1>1, <3>2, LeaveTasks, IdleOK DEF Mail
    <3>3. QED
          BY <3>1, <3>2
  <2>3. QED
        BY <1>3, <2>1, <2>2, RequestsStayBelow
<1>7. QED
      BY <1>1, <1>4, <1>5, <1>6 DEF EpochInv

LEMMA ArriveEpochs ==
    ASSUME EpochInv, NEW r \in Requests, Arrive(r)
    PROVE  EpochInv'
<1>1. TypeOK /\ TypeOK' /\ TasksOK /\ RowsBelow /\ RequestsBelow
      BY ArriveTyped, TypeSplit DEF EpochInv
<1>2. UNCHANGED <<customer, minted, mail, session, spent, left, logouts, restored>>
      BY DEF Arrive, BeginLink, BeginEdit, BeginVerify, BeginLogout
<1>3. RowsBelow' /\ SessionsBelow'
      BY <1>2 DEF EpochInv, RowsBelow, SessionsBelow, Exists
<1>4. ASSUME NEW t, task' = [task EXCEPT ![r] = t],
             t.step = "burn" => t.epoch <= t.since /\ t.since <= logouts[t.customer],
             t.step = "save" => t.epoch <= logouts[t.customer]
      PROVE  RequestsBelow'
  <2>1. \A q \in Requests : task'[q] = IF q = r THEN t ELSE task[q]
        BY <1>1, <1>4 DEF TasksOK
  <2>2. QED
        BY <1>1, <1>2, <1>4, <2>1 DEF RequestsBelow, At
<1>5. RequestsBelow'
  <2>1. ASSUME NEW c \in Customers, BeginLink(r, c)
        PROVE  RequestsBelow'
    <3>1. Request("rotate", c, NoLink, 0, 0).step = "rotate"
          BY DEF Request
    <3>2. QED
          BY <1>4, <2>1, <3>1 DEF BeginLink, Begin
  <2>2. ASSUME NEW c \in Customers, BeginEdit(r, c)
        PROVE  RequestsBelow'
    <3> DEFINE t == Request("save", c, NoLink, customer[c].epoch, 0)
    <3>1. t.step = "save" /\ t.epoch = customer[c].epoch /\ t.customer = c
          BY DEF Request
    <3>2. customer[c].epoch <= logouts[c]
          BY <1>1, <2>2 DEF RowsBelow, BeginEdit
    <3>3. task' = [task EXCEPT ![r] = t]
          BY <2>2 DEF BeginEdit, Begin
    <3> HIDE DEF t
    <3>4. QED
          BY <1>4, <3>1, <3>2, <3>3
  <2>3. ASSUME NEW l \in mail, BeginVerify(r, l)
        PROVE  RequestsBelow'
    <3> DEFINE c == l.customer
               t == Request("burn", c, l.nonce, customer[c].epoch, logouts[c])
    <3>1. /\ t.step = "burn" /\ t.epoch = customer[c].epoch /\ t.since = logouts[c]
          /\ t.customer = c
          BY DEF Request
    <3>2. c \in Customers /\ Exists(c)
          BY <1>1, <2>3 DEF TypeOK, Link, BeginVerify, Opens
    <3>3. customer[c].epoch <= logouts[c] /\ logouts[c] \in Nat
          BY <1>1, <3>2 DEF RowsBelow, TypeOK
    <3>4. task' = [task EXCEPT ![r] = t]
          BY <2>3 DEF BeginVerify, Begin
    <3> HIDE DEF t, c
    <3>5. t.step = "burn" => t.epoch <= t.since /\ t.since <= logouts[t.customer]
          BY <3>1, <3>3
    <3>6. t.step # "save"
          BY <3>1
    <3>7. QED
          BY <1>4, <3>4, <3>5, <3>6
  <2>4. ASSUME NEW s \in session, BeginLogout(r, s)
        PROVE  RequestsBelow'
    <3>1. Request("bump", s.customer, NoLink, s.epoch, 0).step = "bump"
          BY DEF Request
    <3>2. QED
          BY <1>4, <2>4, <3>1 DEF BeginLogout, Begin
  <2>5. QED
        BY <2>1, <2>2, <2>3, <2>4 DEF Arrive
<1>6. QED
      BY <1>1, <1>3, <1>5 DEF EpochInv

LEMMA NextEpochs == EpochInv /\ [Next]_vars => EpochInv'
<1> SUFFICES ASSUME EpochInv, [Next]_vars
             PROVE  EpochInv'
    OBVIOUS
<1>1. TypeOK /\ TypeOK' /\ RowsBelow /\ SessionsBelow /\ RequestsBelow
      BY NextTyped DEF EpochInv
<1>2. ASSUME NEW r \in Requests, Arrive(r) \/ Handle(r)
      PROVE  EpochInv'
      BY <1>2, ArriveEpochs, LinkEpochs, BurnEpochs, BumpEpochs, SaveEpochs DEF Handle
<1>3. ASSUME NEW c \in Customers, Create(c) \/ Remove(c)
      PROVE  EpochInv'
  <2>1. logouts' = logouts /\ restored' = restored /\ session' = session /\ task' = task
        BY <1>3 DEF Create, Remove
  <2>2. SessionsBelow' /\ RequestsBelow'
        BY <1>1, <2>1 DEF SessionsBelow, RequestsBelow, At
  <2>3. CASE Create(c)
    <3>1. /\ customer[c] = NotYet
          /\ \A d \in Customers : customer'[d] = IF d = c THEN Row(NoLink, 0) ELSE customer[d]
          BY <1>1, <2>3 DEF Create, TypeOK
    <3>2. Row(NoLink, 0).epoch = 0 /\ Row(NoLink, 0) \notin {NotYet, Gone}
          BY RowOf DEF NoLink
    <3>3. RowsBelow'
          BY <1>1, <2>1, <3>1, <3>2 DEF RowsBelow, Exists
    <3>4. QED
          BY <1>1, <2>2, <3>3 DEF EpochInv
  <2>4. CASE Remove(c)
    <3>1. \A d \in Customers : customer'[d] = IF d = c THEN Gone ELSE customer[d]
          BY <1>1, <2>4 DEF Remove, TypeOK
    <3>2. RowsBelow'
          BY <1>1, <2>1, <3>1, LoginAssumption DEF RowsBelow, Exists
    <3>3. QED
          BY <1>1, <2>2, <3>2 DEF EpochInv
  <2>5. QED
        BY <1>3, <2>3, <2>4
<1>4. ASSUME \/ \E l \in mail : LinkExpires(l)
             \/ \E s \in session : SessionExpires(s)
             \/ UNCHANGED vars
      PROVE  EpochInv'
  <2>1. /\ logouts' = logouts /\ restored' = restored /\ session' \subseteq session
        /\ task' = task /\ customer' = customer
        BY <1>4 DEF LinkExpires, SessionExpires, vars
  <2>2. RowsBelow' /\ SessionsBelow' /\ RequestsBelow'
        BY <1>1, <2>1 DEF RowsBelow, SessionsBelow, RequestsBelow, At, Exists
  <2>3. QED
        BY <1>1, <2>2 DEF EpochInv
<1>5. QED
      BY <1>2, <1>3, <1>4 DEF Next

LEMMA InitEpochs == Init => EpochInv
<1> SUFFICES ASSUME Init PROVE EpochInv
    OBVIOUS
<1>1. \A r \in Requests : ~At(r, "burn") /\ ~At(r, "save")
      BY IdleOK DEF Init, At
<1>2. QED
      BY <1>1, InitTyped DEF Init, EpochInv, RowsBelow, SessionsBelow, RequestsBelow, Exists

\* A session that is accepted was checked after the last logout of its customer,
\* unless a stale edit has put an older epoch back.
THEOREM LogoutsReachSignIns == Spec => []LogoutReachesSignIns
<1>1. Spec => []EpochInv
      BY InitEpochs, NextEpochs, PTL DEF Spec
<1>2. ASSUME EpochInv, NEW s \in session, Accepted(s), s.customer \notin restored
      PROVE  s.since = logouts[s.customer]
  <2>1. s.customer \in Customers /\ s.since \in Nat /\ s.epoch \in Nat
        BY <1>2 DEF EpochInv, TypeOK, Session
  <2>2. logouts[s.customer] = s.epoch /\ s.epoch <= s.since /\ s.since <= logouts[s.customer]
        BY <1>2, <2>1 DEF EpochInv, RowsBelow, SessionsBelow, Accepted
  <2>3. QED
        BY <2>1, <2>2
<1>3. EpochInv => LogoutReachesSignIns
      BY <1>2 DEF LogoutReachesSignIns
<1>4. QED
      BY <1>1, <1>3, PTL

=============================================================================

----------------------------- MODULE PortalLogin -----------------------------
(***************************************************************************)
(* Passwordless login to the customer portal (customer-auth.service.ts,    *)
(* portal-auth.controller.ts, customer-auth.guard.ts): a link mailed to a  *)
(* customer carries a nonce and opens one session, a session carries the   *)
(* epoch of its customer, a logout raises the epoch.  Administrators       *)
(* create, edit and delete the same rows (admin.controller.ts).  There is  *)
(* no transaction anywhere: a request is one step per query.               *)
(*                                                                         *)
(* Nonces are numbers never used twice; 0 stands for the empty nonce and   *)
(* for the random one a redemption leaves, which no link carries.          *)
(***************************************************************************)
EXTENDS Integers, FiniteSets

CONSTANTS
    Customers, NoCustomer,
    NotYet, Gone,          \* a row not yet inserted, a row deleted
    Requests,              \* requests in flight at once
    MaxLinks, MaxLogouts   \* bounds: links and logouts asked for

ASSUME LoginAssumption ==
    /\ NoCustomer \notin Customers /\ {MaxLinks, MaxLogouts} \subseteq Nat
    /\ IsFiniteSet(Requests)
    /\ NotYet # Gone
    /\ {NotYet, Gone} \cap [nonce: Nat, epoch: Nat] = {}

VARIABLES
    customer,  \* customers: magicNonce and sessionEpoch of each
    minted,    \* nonces minted
    mail,      \* links that arrived and have not expired
    session,   \* session tokens that have not expired
    task,      \* requests in flight
    spent,     \* history: nonces redeemed or replaced
    left,      \* history: of each, the requests past the comparison when it was
               \* spent, less the sessions it opened
    logouts,   \* history: logouts of each customer
    restored   \* history: customers an edit put an older epoch back for

vars == <<customer, minted, mail, session, task, spent, left, logouts, restored>>

NoLink == 0
Row(n, e) == [nonce |-> n, epoch |-> e]
Exists(c) == customer[c] \notin {NotYet, Gone}

Request(step, c, n, e, since) ==
    [step |-> step, customer |-> c, nonce |-> n, epoch |-> e, since |-> since]
Idle == Request("idle", NoCustomer, NoLink, 0, 0)

At(r, step) == task[r].step = step
Begin(r, request) == task[r] = Idle /\ task' = [task EXCEPT ![r] = request]
Leave(r) == task' = [task EXCEPT ![r] = Idle]

\* consumeLink's comparison and canActivate's.
Opens(l) == Exists(l.customer) /\ customer[l.customer].nonce = l.nonce
Accepted(s) == Exists(s.customer) /\ customer[s.customer].epoch = s.epoch

\* UPDATE ... WHERE id touches nothing once the row is gone.
Updated(c, row) == IF Exists(c) THEN [customer EXCEPT ![c] = row] ELSE customer

NonceOf(c) == IF Exists(c) THEN {customer[c].nonce} \ {NoLink} ELSE {}

\* Requests past the comparison with a link.
Carrying(n) == {r \in Requests : At(r, "burn") /\ task[r].nonce = n}

\* The links of N are spent, if they were not, and those of opened open a session.
Spend(N, opened) ==
    /\ spent' = spent \cup N
    /\ left' = [n \in spent \cup N |->
                  (IF n \in spent THEN left[n] ELSE Cardinality(Carrying(n)))
                  - (IF n \in opened THEN 1 ELSE 0)]

-----------------------------------------------------------------------------
(* request-link *)

LinksAsked == minted + Cardinality({r \in Requests : At(r, "rotate")})

\* The customer of an email is found; an unknown email does nothing.
BeginLink(r, c) ==
    /\ Exists(c) /\ LinksAsked < MaxLinks
    /\ Begin(r, Request("rotate", c, NoLink, 0, 0))
    /\ UNCHANGED <<customer, minted, mail, session, spent, left, logouts, restored>>

\* A new nonce replaces whatever link was outstanding, and goes into the mail.
Rotate(r) ==
    LET c == task[r].customer
    IN /\ At(r, "rotate")
       /\ minted' = minted + 1
       /\ customer' = Updated(c, Row(minted + 1, customer[c].epoch))
       /\ Spend(NonceOf(c), {})
       /\ task' = [task EXCEPT ![r] = Request("mail", c, minted + 1, 0, 0)]
       /\ UNCHANGED <<mail, session, logouts, restored>>

\* The mail arrives, or is lost.
Mail(r) ==
    /\ At(r, "mail")
    /\ \/ mail' = mail \cup {[customer |-> task[r].customer, nonce |-> task[r].nonce]}
       \/ UNCHANGED mail
    /\ Leave(r)
    /\ UNCHANGED <<customer, minted, session, spent, left, logouts, restored>>

-----------------------------------------------------------------------------
(* verify *)

\* consumeLink reads nonce and epoch together; any other link is refused.
BeginVerify(r, l) ==
    /\ Opens(l)
    /\ Begin(r, Request("burn", l.customer, l.nonce, customer[l.customer].epoch,
                        logouts[l.customer]))
    /\ UNCHANGED <<customer, minted, mail, session, spent, left, logouts, restored>>

\* (fault) the nonce stays
Unburned(c) == customer

\* The nonce becomes a random one, whatever it is by now.
Burned(c) == Updated(c, Row(NoLink, customer[c].epoch))

\* (fault) the session carries the epoch in force when it is signed
SignedLate(t) == IF Exists(t.customer) THEN customer[t.customer].epoch ELSE t.epoch

\* issueSession signs the epoch consumeLink read.
SignedEpoch(t) == t.epoch

Burn(r) ==
    LET t == task[r]
    IN /\ At(r, "burn")
       /\ customer' = Burned(t.customer)
       /\ Spend(NonceOf(t.customer) \cup {t.nonce}, {t.nonce})
       /\ session' = session \cup
             {[customer |-> t.customer, epoch |-> SignedEpoch(t), since |-> t.since]}
       /\ Leave(r)
       /\ UNCHANGED <<minted, mail, logouts, restored>>

-----------------------------------------------------------------------------
(* logout, behind the guard *)

LogoutsAsked(c) ==
    logouts[c] + Cardinality({r \in Requests : At(r, "bump") /\ task[r].customer = c})

BeginLogout(r, s) ==
    /\ Accepted(s) /\ LogoutsAsked(s.customer) < MaxLogouts
    /\ Begin(r, Request("bump", s.customer, NoLink, s.epoch, 0))
    /\ UNCHANGED <<customer, minted, mail, session, spent, left, logouts, restored>>

\* (fault) decrement() in place of increment()
Lowered(t) == customer[t.customer].epoch - 1

\* increment() adds to the epoch in the row.
Raised(t) == customer[t.customer].epoch + 1

Bump(r) ==
    LET c == task[r].customer
    IN /\ At(r, "bump")
       /\ customer' = Updated(c, Row(customer[c].nonce, Raised(task[r])))
       /\ logouts' = IF Exists(c) THEN [logouts EXCEPT ![c] = @ + 1] ELSE logouts
       /\ Leave(r)
       /\ UNCHANGED <<minted, mail, session, spent, left, restored>>

-----------------------------------------------------------------------------
(* Administrators *)

\* create, or upsertCustomer at the first purchase: a new id.
Create(c) ==
    /\ customer[c] = NotYet
    /\ customer' = [customer EXCEPT ![c] = Row(NoLink, 0)]
    /\ UNCHANGED <<minted, mail, session, task, spent, left, logouts, restored>>

\* update loads the row without its nonce, which is select:false,
BeginEdit(r, c) ==
    /\ Exists(c)
    /\ Begin(r, Request("save", c, NoLink, customer[c].epoch, 0))
    /\ UNCHANGED <<customer, minted, mail, session, spent, left, logouts, restored>>

\* and saves the copy: every loaded column that differs is written back, and a
\* row deleted meanwhile is inserted again.
Save(r) ==
    LET c == task[r].customer
    IN /\ At(r, "save")
       /\ customer' = [customer EXCEPT ![c] =
             Row(IF Exists(c) THEN customer[c].nonce ELSE NoLink, task[r].epoch)]
       /\ restored' = IF customer' = customer THEN restored ELSE restored \cup {c}
       /\ Leave(r)
       /\ UNCHANGED <<minted, mail, session, spent, left, logouts>>

Remove(c) ==
    /\ Exists(c)
    /\ customer' = [customer EXCEPT ![c] = Gone]
    /\ UNCHANGED <<minted, mail, session, task, spent, left, logouts, restored>>

\* magicTtl and sessionTtl.
LinkExpires(l) ==
    /\ mail' = mail \ {l}
    /\ UNCHANGED <<customer, minted, session, task, spent, left, logouts, restored>>
SessionExpires(s) ==
    /\ session' = session \ {s}
    /\ UNCHANGED <<customer, minted, mail, task, spent, left, logouts, restored>>

Init ==
    /\ customer = [c \in Customers |-> NotYet] /\ minted = 0
    /\ mail = {} /\ session = {}
    /\ spent = {} /\ left = [n \in spent |-> 0]
    /\ task = [r \in Requests |-> Idle]
    /\ logouts = [c \in Customers |-> 0] /\ restored = {}

Arrive(r) ==
    \/ \E c \in Customers : BeginLink(r, c) \/ BeginEdit(r, c)
    \/ \E l \in mail : BeginVerify(r, l)
    \/ \E s \in session : BeginLogout(r, s)

Handle(r) == Rotate(r) \/ Mail(r) \/ Burn(r) \/ Bump(r) \/ Save(r)

Next ==
    \/ \E r \in Requests : Arrive(r) \/ Handle(r)
    \/ \E c \in Customers : Create(c) \/ Remove(c)
    \/ \E l \in mail : LinkExpires(l)
    \/ \E s \in session : SessionExpires(s)

Spec == Init /\ [][Next]_vars
-----------------------------------------------------------------------------
(***************************************************************************)
(* Properties                                                              *)
(***************************************************************************)

Steps == {"idle", "rotate", "mail", "burn", "bump", "save"}
Rows == [nonce: Nat, epoch: Nat]
Link == [customer: Customers, nonce: Nat]
Session == [customer: Customers, epoch: Nat, since: Nat]
Task == [step: Steps, customer: Customers \cup {NoCustomer}, nonce: Nat, epoch: Nat, since: Nat]

\* Rows, links, sessions and requests are well typed, and a request in flight
\* names its customer.
TypeOK ==
    /\ customer \in [Customers -> Rows \cup {NotYet, Gone}]
    /\ minted \in Nat /\ mail \subseteq Link /\ session \subseteq Session
    /\ task \in [Requests -> Task]
    /\ \A r \in Requests : task[r].step # "idle" => task[r].customer \in Customers
    /\ spent \subseteq Nat /\ left \in [spent -> Int] /\ logouts \in [Customers -> Nat]
    /\ restored \subseteq Customers

\* However redemptions and requests for links overlap, a link opens at most one
\* session for each request that had passed the comparison with it when it was
\* first redeemed or replaced: one, unless two redemptions raced, and none once
\* another link was asked for, unless a redemption was under way. Who compares
\* later opens nothing. That each link opens one (customer.entity.ts:32) does not
\* hold: see OpensOnce.
LinkOpensWithinRace == \A n \in spent : left[n] >= 0

\* A logout ends every session checked before it, also the sign-in under way:
\* whatever is accepted was checked after the last logout, unless a stale edit has
\* put an older epoch back.
LogoutReachesSignIns ==
    \A s \in session :
        (Accepted(s) /\ s.customer \notin restored) => s.since = logouts[s.customer]

Ends(r, step) == At(r, step) /\ ~At(r, step)'

\* A session that a logout ended is never accepted again.
LogoutIsFinal ==
    [][\A s \in session : (Exists(s.customer) /\ ~Accepted(s)) => ~Accepted(s)']_vars

\* No two requests that passed the comparison carry one link.
OpensOnce ==
    \A r, q \in Requests :
        (At(r, "burn") /\ At(q, "burn") /\ task[r].nonce = task[q].nonce) => r = q

\* A link that has arrived works until it is redeemed or another one is asked for.
FreshLinkWorks ==
    [][\A l \in mail : (Opens(l) /\ ~Opens(l)' /\ Exists(l.customer)') =>
          \/ \E r \in Requests : Ends(r, "burn") /\ task[r].nonce = l.nonce
          \/ \E r \in Requests : Ends(r, "rotate")]_vars
=============================================================================

--------------------------- MODULE ControlBilling ---------------------------
(***************************************************************************)
(* Plans, coupons, licences, checkouts and invoices of the control plane   *)
(* (control.service.ts).  The service is one process: a request runs to    *)
(* its end without interruption, but a checkout is opened and confirmed    *)
(* around a call to Stripe, during which any other request may run.  What  *)
(* has been read before the call is used after it.                         *)
(*                                                                         *)
(* Every request saves the whole state; what a lost write does is in       *)
(* ControlMembership.  The members of a workspace do not change here, and  *)
(* only owners and admins, who may bill, are modelled.  Time appears as    *)
(* the expiry of a coupon and as the credit left of a plan.                *)
(***************************************************************************)
EXTENDS Integers, Sequences, FiniteSets

CONSTANTS
  Workspaces,
  Managers,     \* <<person, workspace>>: who may bill which workspace
  Plans,        \* the paid plans, by rank; 0 is no plan
  Price,        \* of each plan
  Codes,        \* of coupons
  Discounts,    \* in tenths of a percent, 1 .. 1000
  Caps,         \* of a coupon's redemptions; 0 is no cap
  Allowlists,   \* sets of workspaces; the empty one allows all
  Licence,      \* the plan of each licence code of the configuration
  Unordered,    \* rows are loaded in any order (PostgreSQL), or as saved (SQLite)
  Slots,        \* bound: requests that wait for Stripe at the same time
  MaxCoupons, MaxInvoices, MaxCheckouts,  \* bounds
  NoCode, NoSession, NoWorkspace

People == {m[1] : m \in Managers}
Licences == DOMAIN Licence

ASSUME BillingAssumption ==
  /\ Managers \subseteq {m[1] : m \in Managers} \X Workspaces
  /\ Plans \subseteq Nat \ {0}
  /\ Price \in [Plans -> Nat]
  /\ Discounts \subseteq 1 .. 1000
  /\ Caps \subseteq Nat
  /\ Allowlists \subseteq SUBSET Workspaces
  /\ Licence \in [DOMAIN Licence -> Plans]
  /\ MaxCoupons \in Nat /\ MaxInvoices \in Nat /\ MaxCheckouts \in Nat
  /\ NoCode \notin Codes /\ NoSession \notin Nat /\ NoWorkspace \notin Workspaces

VARIABLES
  coupons,        \* in the order of the map
  subscriptions,  \* the plan of each workspace
  redemptions,    \* the workspace that has claimed each licence
  invoices,
  checkouts,      \* stripeCheckouts: by session
  stripe,         \* external: Stripe's sessions
  requests        \* the requests that wait for Stripe

billing == <<coupons, subscriptions, redemptions, invoices>>
vars == <<coupons, subscriptions, redemptions, invoices, checkouts, stripe, requests>>

Sessions == 1 .. MaxCheckouts
Coupons == [code : Codes, discount : Discounts, cap : Caps, allowed : Allowlists,
            redeemed : Nat, revoked : BOOLEAN, expired : BOOLEAN]
Quotes == [workspace : Workspaces, plan : Plans, base : Nat, discount : {0} \cup Discounts,
           amount : Nat, code : Codes \cup {NoCode}]
Invoices == [workspace : Workspaces, plan : Plans, amount : Nat,
             code : Codes \cup {NoCode}, session : Sessions \cup {NoSession}]
Checkouts == [quote : Quotes, completed : BOOLEAN]
Idle == [at |-> "idle"]
Requests == {Idle} \cup [at : {"create"}, quote : Quotes]
                   \cup [at : {"record"}, quote : Quotes, session : Sessions]
                   \cup [at : {"confirm"}, session : Sessions]

TypeOK ==
  /\ coupons \in Seq(Coupons) /\ Len(coupons) <= MaxCoupons
  /\ subscriptions \in [Workspaces -> {0} \cup Plans]
  /\ redemptions \in [Licences -> Workspaces \cup {NoWorkspace}]
  /\ invoices \in Seq(Invoices)
  /\ DOMAIN checkouts \subseteq DOMAIN stripe /\ DOMAIN stripe \subseteq Sessions
  /\ \A s \in DOMAIN checkouts : checkouts[s] \in Checkouts
  /\ \A s \in DOMAIN stripe : stripe[s] \in [amount : Nat, paid : BOOLEAN]
  /\ requests \in [Slots -> Requests]

Init ==
  /\ coupons = <<>>
  /\ subscriptions = [w \in Workspaces |-> 0]
  /\ redemptions = [l \in Licences |-> NoWorkspace]
  /\ invoices = <<>>
  /\ checkouts = <<>>
  /\ stripe = <<>>
  /\ requests = [r \in Slots |-> Idle]

-----------------------------------------------------------------------------
(* Coupons *)

NeverFull(c) == FALSE
IsFull(c) == c.cap > 0 /\ c.redeemed >= c.cap
Eligible(c, w) ==
  ~c.revoked /\ ~c.expired /\ ~IsFull(c) /\ (c.allowed = {} \/ w \in c.allowed)

Of(code) == {i \in DOMAIN coupons : coupons[i].code = code}

\* selectBestCoupon
Best(code, w) ==
  {i \in Of(code) :
     /\ Eligible(coupons[i], w)
     /\ \A j \in Of(code) : Eligible(coupons[j], w) => coupons[j].discount <= coupons[i].discount}

\* consumeCouponForWorkspace: the first coupon of the code, if it is eligible.
Consumable(code, w) ==
  {i \in Of(code) : (\A j \in Of(code) : i <= j) /\ Eligible(coupons[i], w)}
Consumed(i) == [coupons EXCEPT ![i].redeemed = @ + 1]

CreateAnyCoupon(coupon) ==
  /\ Len(coupons) < MaxCoupons
  /\ coupons' = Append(coupons, coupon)
  /\ UNCHANGED <<subscriptions, redemptions, invoices, checkouts, stripe, requests>>
CreateCoupon(coupon) ==
  /\ Len(coupons) < MaxCoupons
  /\ \A i \in Of(coupon.code) : coupons[i].revoked
  /\ coupons' = Append(coupons, coupon)
  /\ UNCHANGED <<subscriptions, redemptions, invoices, checkouts, stripe, requests>>

NewCoupon(code, discount, cap, allowed) ==
  [code |-> code, discount |-> discount, cap |-> cap, allowed |-> allowed,
   redeemed |-> 0, revoked |-> FALSE, expired |-> FALSE]

RevokeCoupon(i) ==
  /\ i \in DOMAIN coupons /\ ~coupons[i].revoked
  /\ coupons' = [coupons EXCEPT ![i].revoked = TRUE]
  /\ UNCHANGED <<subscriptions, redemptions, invoices, checkouts, stripe, requests>>

CouponExpires(i) ==
  /\ i \in DOMAIN coupons /\ ~coupons[i].expired
  /\ coupons' = [coupons EXCEPT ![i].expired = TRUE]
  /\ UNCHANGED <<subscriptions, redemptions, invoices, checkouts, stripe, requests>>

-----------------------------------------------------------------------------
(* Plans and invoices *)

\* assertPlanChangeAllowed
MayChange(person, w, plan) ==
  plan < subscriptions[w] => Cardinality({m \in Managers : m[1] = person}) <= 1

\* getProrationAdjustment: an upgrade is credited with what is left of the
\* current plan, nothing to all of it.
Bases(w, plan) ==
  LET current == subscriptions[w]
      credits == IF current # 0 /\ current < plan THEN 0 .. Price[current] ELSE {0}
  IN {IF credit < Price[plan] THEN Price[plan] - credit ELSE 0 : credit \in credits}

\* A whole amount, rounded half up.
Amount(base, discount) == (base * (1000 - discount) + 500) \div 1000

\* createInvoice rounds the percentage as well.
Whole(discount) == 10 * ((discount + 5) \div 10)
Billed(base, discount) == Amount(base, Whole(discount))

AppliedIfUpgrade(w, plan) ==
  [subscriptions EXCEPT ![w] = IF plan < @ THEN @ ELSE plan]
Applied(w, plan) == [subscriptions EXCEPT ![w] = plan]

Invoiced(w, plan, amount, code, session) ==
  Append(invoices, [workspace |-> w, plan |-> plan, amount |-> amount,
                    code |-> code, session |-> session])

\* applyWorkspaceSubscription and createInvoice, which each way to a plan ends with.
Activates(w, plan, amount, code, session) ==
  /\ Len(invoices) < MaxInvoices
  /\ subscriptions' = Applied(w, plan)
  /\ invoices' = Invoiced(w, plan, amount, code, session)

\* activateWorkspacePlanInternal, with a coupon or without one.
Activate(person, w, plan, code) ==
  /\ MayChange(person, w, plan)
  /\ \E base \in Bases(w, plan) :
       \/ /\ code = NoCode
          /\ Activates(w, plan, Billed(base, 0), NoCode, NoSession)
          /\ UNCHANGED coupons
       \/ \E i \in Consumable(code, w) :
            /\ Activates(w, plan, Billed(base, coupons[i].discount), code, NoSession)
            /\ coupons' = Consumed(i)
  /\ UNCHANGED <<redemptions, checkouts, stripe, requests>>

\* A licence may be claimed again by the workspace that has it.
ClaimLicence(w, l) ==
  /\ redemptions[l] \in {NoWorkspace, w}
  /\ redemptions' = [redemptions EXCEPT ![l] = w]
  /\ Activates(w, Licence[l], 0, NoCode, NoSession)
  /\ UNCHANGED <<coupons, checkouts, stripe, requests>>

-----------------------------------------------------------------------------
(* Checkouts *)

Goes(r, with) == requests' = [requests EXCEPT ![r] = with]

Quote(w, plan, base, discount, code) ==
  [workspace |-> w, plan |-> plan, base |-> base, discount |-> discount,
   amount |-> Amount(base, discount), code |-> code]

\* createStripeCheckout.  A code that no eligible coupon has is ignored.  What
\* costs nothing is activated at once, and its coupon redeemed.
CreateCheckout(r, person, w, plan, code) ==
  /\ requests[r] = Idle
  /\ MayChange(person, w, plan)
  /\ \E base \in Bases(w, plan) :
       \E quote \in IF Best(code, w) = {} THEN {Quote(w, plan, base, 0, NoCode)}
                    ELSE {Quote(w, plan, base, coupons[i].discount, code) : i \in Best(code, w)} :
         \/ /\ quote.amount > 0
            /\ Goes(r, [at |-> "create", quote |-> quote])
            /\ UNCHANGED billing
         \/ /\ quote.amount = 0 /\ quote.code = NoCode
            /\ Activates(w, plan, 0, NoCode, NoSession)
            /\ UNCHANGED <<coupons, redemptions, requests>>
         \/ /\ quote.amount = 0 /\ quote.code # NoCode
            /\ \E i \in Consumable(code, w) :
                 /\ Activates(w, plan, Billed(base, coupons[i].discount), code, NoSession)
                 /\ coupons' = Consumed(i)
            /\ UNCHANGED <<redemptions, requests>>
  /\ UNCHANGED <<checkouts, stripe>>

StripeOpensUnchecked(r) ==
  /\ requests[r].at = "create"
  /\ \E session \in Sessions \ DOMAIN stripe :
       Goes(r, [at |-> "record", quote |-> requests[r].quote, session |-> session])
  /\ UNCHANGED <<billing, checkouts, stripe>>
StripeOpens(r) ==
  /\ requests[r].at = "create"
  /\ \E session \in Sessions \ DOMAIN stripe :
       /\ \A earlier \in Sessions : earlier < session => earlier \in DOMAIN stripe
       /\ stripe' = [s \in DOMAIN stripe \cup {session} |->
                       IF s = session THEN [amount |-> requests[r].quote.amount, paid |-> FALSE]
                       ELSE stripe[s]]
       /\ Goes(r, [at |-> "record", quote |-> requests[r].quote, session |-> session])
  /\ UNCHANGED <<billing, checkouts>>

RecordCheckout(r) ==
  /\ requests[r].at = "record"
  /\ checkouts' = [s \in DOMAIN checkouts \cup {requests[r].session} |->
                     IF s = requests[r].session
                     THEN [quote |-> requests[r].quote, completed |-> FALSE]
                     ELSE checkouts[s]]
  /\ Goes(r, Idle)
  /\ UNCHANGED <<billing, stripe>>

\* The customer only learns of a session from the answer to the request.
Pay(session) ==
  /\ session \in DOMAIN checkouts /\ ~stripe[session].paid
  /\ stripe' = [stripe EXCEPT ![session].paid = TRUE]
  /\ UNCHANGED <<billing, checkouts, requests>>

\* confirmStripeCheckout, up to the call; a completed checkout is answered at once.
ConfirmCheckout(r, session) ==
  /\ requests[r] = Idle
  /\ session \in DOMAIN checkouts /\ ~checkouts[session].completed
  /\ Goes(r, [at |-> "confirm", session |-> session])
  /\ UNCHANGED <<billing, checkouts, stripe>>

\* ... and after it.  completedAt is not looked at again.
Completed(session) == [checkouts EXCEPT ![session].completed = TRUE]
ConfirmPaid(r) ==
  /\ requests[r].at = "confirm"
  /\ LET session == requests[r].session
         quote == checkouts[session].quote
         w == quote.workspace
     IN /\ stripe[session].paid
        /\ \/ /\ quote.code = NoCode
              /\ Activates(w, quote.plan, Billed(quote.base, quote.discount), NoCode, session)
              /\ UNCHANGED coupons
           \/ \E i \in Consumable(quote.code, w) :
                /\ Activates(w, quote.plan, Billed(quote.base, coupons[i].discount), quote.code, session)
                /\ coupons' = Consumed(i)
        /\ checkouts' = Completed(session)
  /\ Goes(r, Idle)
  /\ UNCHANGED <<redemptions, stripe>>

\* Stripe does not answer, the session is not paid, or its coupon is gone.
RequestFailsCompleted(r) ==
  /\ requests[r] # Idle
  /\ Goes(r, Idle)
  /\ checkouts' = IF requests[r].at = "confirm" /\ stripe[requests[r].session].paid
                  THEN Completed(requests[r].session) ELSE checkouts
  /\ UNCHANGED <<billing, stripe>>
RequestFails(r) ==
  /\ requests[r] # Idle
  /\ Goes(r, Idle)
  /\ UNCHANGED <<billing, checkouts, stripe>>

Restart ==
  /\ requests' = [r \in Slots |-> Idle]
  /\ \/ UNCHANGED coupons
     \/ Unordered /\ \E i, j \in DOMAIN coupons :
          coupons' = [coupons EXCEPT ![i] = coupons[j], ![j] = coupons[i]]
  /\ UNCHANGED <<subscriptions, redemptions, invoices, checkouts, stripe>>

Next ==
  \/ \E code \in Codes, discount \in Discounts, cap \in Caps, allowed \in Allowlists :
       CreateCoupon(NewCoupon(code, discount, cap, allowed))
  \/ \E i \in 1 .. MaxCoupons : RevokeCoupon(i) \/ CouponExpires(i)
  \/ \E m \in Managers, plan \in Plans, code \in Codes \cup {NoCode} :
       \/ Activate(m[1], m[2], plan, code)
       \/ \E r \in Slots : CreateCheckout(r, m[1], m[2], plan, code)
  \/ \E m \in Managers, l \in Licences : ClaimLicence(m[2], l)
  \/ \E r \in Slots :
       \/ StripeOpens(r) \/ RecordCheckout(r) \/ ConfirmPaid(r) \/ RequestFails(r)
       \/ \E session \in Sessions : ConfirmCheckout(r, session)
  \/ \E session \in Sessions : Pay(session)
  \/ Restart

Spec == Init /\ [][Next]_vars

-----------------------------------------------------------------------------
(* Properties *)

OfSession(session) == {i \in DOMAIN invoices : invoices[i].session = session}

\* An invoice for a checkout shows the amount Stripe was asked for and has been
\* paid, although the coupon's discount is read again when the payment is
\* confirmed and the coupon may have been revoked and its code given to another.
ChargedAsQuoted ==
  \A session \in Sessions : \A i \in OfSession(session) :
    session \in DOMAIN stripe /\ stripe[session] = [amount |-> invoices[i].amount, paid |-> TRUE]

\* A coupon is never redeemed more often than its cap allows.
CapsKept == \A i \in DOMAIN coupons : coupons[i].cap > 0 => coupons[i].redeemed <= coupons[i].cap

\* Coupons are redeemed as often as invoices name their code, and never beyond
\* their cap, although a checkout is quoted long before its coupon is redeemed.
RedeemedOf(code) == UNION {{i} \X (1 .. coupons[i].redeemed) : i \in Of(code)}
InvoicesOf(code) == {i \in DOMAIN invoices : invoices[i].code = code}
CouponsAccounted ==
  /\ \A code \in Codes : Cardinality(RedeemedOf(code)) = Cardinality(InvoicesOf(code))
  /\ CapsKept

\* A workspace has the plan of its last invoice, whichever of the five ways to
\* a plan its requests took, and however they overlapped.
SubscriptionIsInvoiced ==
  \A w \in Workspaces :
    LET of == {i \in DOMAIN invoices : invoices[i].workspace = w}
    IN IF of = {} THEN subscriptions[w] = 0
       ELSE subscriptions[w] = invoices[CHOOSE i \in of : \A j \in of : j <= i].plan

\* A checkout is only completed together with its plan: what it was paid for is
\* on an invoice of its workspace.
CompletedIsInvoiced ==
  \A session \in DOMAIN checkouts :
    checkouts[session].completed =>
      \E i \in OfSession(session) :
        /\ invoices[i].workspace = checkouts[session].quote.workspace
        /\ invoices[i].plan = checkouts[session].quote.plan

(* Two that do not hold. *)

\* A payment is invoiced once.
PaidOnce == \A session \in Sessions : Cardinality(OfSession(session)) <= 1

\* Who manages several workspaces never moves one of them to a lower plan:
\* downgrade_not_allowed_for_multi_workspace.
NoDowngrade ==
  [][\A w \in Workspaces :
       subscriptions'[w] < subscriptions[w] =>
         \E m \in Managers : m[2] = w /\ Cardinality({n \in Managers : n[1] = m[1]}) <= 1]_vars
=============================================================================

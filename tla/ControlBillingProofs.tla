------------------------ MODULE ControlBillingProofs ------------------------
(* The money, the books and the accounts of coupons, for any people,
   workspaces, plans, prices, coupons and requests.  What is invoiced for a
   checkout is what Stripe was asked for as long as the coupons keep their
   order (SQLite) and percentages are whole; the rest is of either store. *)
EXTENDS ControlBilling, FiniteSetTheorems, TLAPS

\* Every coupon but the last of a code is revoked.
OneActive ==
  \A i, j \in DOMAIN coupons :
    i < j /\ coupons[i].code = coupons[j].code => coupons[i].revoked

\* A quote has its discount from a coupon of its code, revoked by now or not.
QuotedFrom(table, quote) ==
  /\ quote.amount = Amount(quote.base, quote.discount)
  /\ quote.code # NoCode =>
       \E i \in DOMAIN table : table[i].code = quote.code /\ table[i].discount = quote.discount

RequestsQuoted ==
  \A r \in Slots :
    /\ requests[r].at \in {"create", "record"} => QuotedFrom(coupons, requests[r].quote)
    /\ requests[r].at = "record" =>
         /\ requests[r].session \in DOMAIN stripe
         /\ stripe[requests[r].session].amount = requests[r].quote.amount
    /\ requests[r].at = "confirm" => requests[r].session \in DOMAIN checkouts

CheckoutsQuoted ==
  \A s \in DOMAIN checkouts :
    QuotedFrom(coupons, checkouts[s].quote) /\ stripe[s].amount = checkouts[s].quote.amount

IInv == TypeOK /\ OneActive /\ RequestsQuoted /\ CheckoutsQuoted /\ ChargedAsQuoted

\* The facts about the requests that wait, by what they wait for.
LEMMA RequestTypes ==
  ASSUME NEW x \in Requests
  PROVE  /\ x.at \in {"idle", "create", "record", "confirm"}
         /\ x.at \in {"create", "record"} => x.quote \in Quotes
         /\ x.at \in {"record", "confirm"} => x.session \in Sessions
  BY DEF Requests, Idle

LEMMA ConsumableExists ==
  ASSUME NEW code, NEW w, NEW i \in Consumable(code, w)
  PROVE  i \in DOMAIN coupons
  BY DEF Consumable, Of

LEMMA AmountType ==
  ASSUME NEW base \in Nat, NEW d \in 0 .. 1000
  PROVE  Amount(base, d) \in Nat
<1>1. base * (1000 - d) + 500 \in Nat
  OBVIOUS
<1> QED BY <1>1 DEF Amount

LEMMA BilledType ==
  ASSUME NEW base \in Nat, NEW d \in 0 .. 1000
  PROVE  Billed(base, d) \in Nat
<1>1. (d + 5) \div 10 \in 0 .. 100
  OBVIOUS
<1>2. \A n \in 0 .. 100 : 10 * n \in 0 .. 1000
  OBVIOUS
<1>3. Whole(d) \in 0 .. 1000
  BY <1>1, <1>2 DEF Whole
<1>4. Amount(base, Whole(d)) \in Nat
  BY <1>3, AmountType
<1> QED BY <1>4 DEF Billed

\* Every discount is a whole percentage.
WholeDiscounts == \A d \in Discounts : d % 10 = 0

LEMMA DiscountType ==
  ASSUME NEW d \in {0} \cup Discounts
  PROVE  d \in 0 .. 1000
<1>1. Discounts \subseteq 1 .. 1000
  BY BillingAssumption
<1>2. \A n \in 1 .. 1000 : n \in 0 .. 1000
  OBVIOUS
<1>3. CASE d = 0
  BY <1>3
<1>4. CASE d \in Discounts
  BY <1>1, <1>2, <1>4
<1> QED BY <1>3, <1>4

LEMMA BilledIsAmount ==
  ASSUME WholeDiscounts, NEW base, NEW d \in {0} \cup Discounts
  PROVE  Billed(base, d) = Amount(base, d)
<1>1. \A n \in 0 .. 1000 : n % 10 = 0 => 10 * ((n + 5) \div 10) = n
  OBVIOUS
<1>2. d \in 0 .. 1000
  BY DiscountType
<1>3. d % 10 = 0
  <2>1. CASE d = 0
    BY <2>1
  <2>2. CASE d \in Discounts
    BY <2>2 DEF WholeDiscounts
  <2> QED BY <2>1, <2>2
<1> QED BY <1>1, <1>2, <1>3 DEF Billed, Whole

-----------------------------------------------------------------------------
(* What the steps do to coupons and invoices *)

\* No step changes a coupon's code or discount, or takes a revocation back.
KeepsCoupons ==
  \A i \in DOMAIN coupons :
    /\ i \in DOMAIN coupons'
    /\ coupons'[i].code = coupons[i].code
    /\ coupons'[i].discount = coupons[i].discount
    /\ coupons[i].revoked => coupons'[i].revoked

CouponsType == coupons \in Seq(Coupons) /\ Len(coupons) <= MaxCoupons

LEMMA CouponFields ==
  ASSUME TypeOK, NEW i \in DOMAIN coupons
  PROVE  /\ coupons[i] \in Coupons
         /\ coupons[i].code \in Codes /\ coupons[i].discount \in Discounts
         /\ coupons[i].discount \in 0 .. 1000 /\ coupons[i].redeemed \in Nat
<1>1. coupons[i] \in Coupons
  BY DEF TypeOK
<1>2. /\ coupons[i].code \in Codes /\ coupons[i].discount \in Discounts
      /\ coupons[i].redeemed \in Nat
  BY <1>1 DEF Coupons
<1>3. \A d \in Discounts : d \in 0 .. 1000
  BY DiscountType
<1> QED BY <1>1, <1>2, <1>3

\* Changing one coupon's count or flags keeps everything about the table.
LEMMA CouponsChange ==
  ASSUME TypeOK, OneActive, NEW i \in DOMAIN coupons, NEW c \in Coupons,
         c.code = coupons[i].code, c.discount = coupons[i].discount,
         coupons[i].revoked => c.revoked,
         coupons' = [coupons EXCEPT ![i] = c]
  PROVE  CouponsType' /\ KeepsCoupons /\ OneActive'
<1>1. coupons \in Seq(Coupons)
  BY DEF TypeOK
<1>2. /\ coupons' \in Seq(Coupons) /\ Len(coupons') = Len(coupons)
      /\ DOMAIN coupons' = DOMAIN coupons
  BY <1>1
<1>3. \A k \in DOMAIN coupons : coupons'[k] = IF k = i THEN c ELSE coupons[k]
  BY <1>1
<1>4. CouponsType'
  BY <1>2 DEF CouponsType, TypeOK
<1>5. KeepsCoupons
  BY <1>2, <1>3 DEF KeepsCoupons
<1>6. OneActive'
  BY <1>2, <1>3 DEF OneActive
<1> QED BY <1>4, <1>5, <1>6

LEMMA ConsumedKeeps ==
  ASSUME TypeOK, OneActive, NEW i \in DOMAIN coupons, coupons' = Consumed(i)
  PROVE  CouponsType' /\ KeepsCoupons /\ OneActive'
<1> DEFINE c == [coupons[i] EXCEPT !.redeemed = @ + 1]
<1>1. coupons[i] \in Coupons /\ coupons[i].redeemed \in Nat
  BY CouponFields
<1>2. c \in Coupons /\ c.code = coupons[i].code /\ c.discount = coupons[i].discount
      /\ c.revoked = coupons[i].revoked
  BY <1>1 DEF Coupons
<1>3. coupons' = [coupons EXCEPT ![i] = c]
  BY DEF Consumed
<1> QED BY <1>2, <1>3, CouponsChange

LEMMA CreateKeeps ==
  ASSUME TypeOK, OneActive, NEW c \in Coupons, CreateCoupon(c)
  PROVE  CouponsType' /\ KeepsCoupons /\ OneActive'
<1>1. /\ coupons \in Seq(Coupons) /\ Len(coupons) < MaxCoupons /\ MaxCoupons \in Nat
      /\ coupons' = Append(coupons, c)
      /\ \A i \in DOMAIN coupons : coupons[i].code = c.code => coupons[i].revoked
  BY BillingAssumption DEF TypeOK, CreateCoupon, Of
<1>2. coupons' \in Seq(Coupons) /\ Len(coupons') = Len(coupons) + 1
  BY <1>1
<1>3. /\ DOMAIN coupons = 1 .. Len(coupons) /\ DOMAIN coupons' = 1 .. Len(coupons) + 1
      /\ Len(coupons) \in Nat
  BY <1>1, <1>2
<1>4. \A k \in DOMAIN coupons : coupons'[k] = coupons[k]
  BY <1>1
<1>5. coupons'[Len(coupons) + 1] = c
  BY <1>1
<1>6. CouponsType'
  BY <1>1, <1>2 DEF CouponsType
<1>7. KeepsCoupons
  BY <1>3, <1>4 DEF KeepsCoupons
<1>8. OneActive'
  <2> SUFFICES ASSUME NEW i \in DOMAIN coupons', NEW j \in DOMAIN coupons', i < j,
                      coupons'[i].code = coupons'[j].code
               PROVE  coupons'[i].revoked
    BY DEF OneActive
  <2>1. i \in DOMAIN coupons
    BY <1>3
  <2>2. CASE j \in DOMAIN coupons
    BY <2>1, <2>2, <1>4 DEF OneActive
  <2>3. CASE j = Len(coupons) + 1
    BY <2>1, <2>3, <1>1, <1>4, <1>5
  <2> QED BY <2>2, <2>3, <1>3
<1> QED BY <1>6, <1>7, <1>8

\* A step that leaves the coupons alone keeps them, trivially.
LEMMA UnchangedKeeps ==
  ASSUME TypeOK, OneActive, coupons' = coupons
  PROVE  CouponsType' /\ KeepsCoupons /\ OneActive'
  BY DEF CouponsType, KeepsCoupons, OneActive, TypeOK

InvoicesType ==
  /\ subscriptions \in [Workspaces -> {0} \cup Plans]
  /\ invoices \in Seq(Invoices)

LEMMA ActivatesKeeps ==
  ASSUME TypeOK, NEW w \in Workspaces, NEW plan \in Plans, NEW amount \in Nat,
         NEW code \in Codes \cup {NoCode}, NEW session \in Sessions \cup {NoSession},
         Activates(w, plan, amount, code, session)
  PROVE  /\ InvoicesType'
         /\ DOMAIN invoices \subseteq DOMAIN invoices'
         /\ \A i \in DOMAIN invoices' :
              \/ i \in DOMAIN invoices /\ invoices'[i] = invoices[i]
              \/ invoices'[i].session = session /\ invoices'[i].amount = amount
                 /\ invoices'[i].workspace = w /\ invoices'[i].plan = plan
<1> DEFINE new == [workspace |-> w, plan |-> plan, amount |-> amount, code |-> code, session |-> session]
<1>1. invoices \in Seq(Invoices) /\ new \in Invoices /\ invoices' = Append(invoices, new)
  BY DEF TypeOK, Activates, Invoiced, Invoices
<1>2. subscriptions' \in [Workspaces -> {0} \cup Plans]
  BY DEF TypeOK, Activates, Applied
<1>3. invoices' \in Seq(Invoices) /\ Len(invoices) \in Nat
      /\ DOMAIN invoices = 1 .. Len(invoices) /\ DOMAIN invoices' = 1 .. Len(invoices) + 1
  BY <1>1
<1>4. \A i \in DOMAIN invoices : invoices'[i] = invoices[i]
  BY <1>1
<1>5. invoices'[Len(invoices) + 1] = new
  BY <1>1
<1>6. \A i \in DOMAIN invoices' : i \in DOMAIN invoices \/ i = Len(invoices) + 1
  BY <1>3
<1> QED BY <1>2, <1>3, <1>4, <1>5, <1>6 DEF InvoicesType

-----------------------------------------------------------------------------
(* Two kinds of steps *)

CallsType ==
  /\ DOMAIN checkouts \subseteq DOMAIN stripe /\ DOMAIN stripe \subseteq Sessions
  /\ \A s \in DOMAIN checkouts : checkouts[s] \in Checkouts
  /\ \A s \in DOMAIN stripe : stripe[s] \in [amount : Nat, paid : BOOLEAN]
  /\ requests \in [Slots -> Requests]

LEMMA QuotesStay ==
  ASSUME KeepsCoupons, NEW quote, QuotedFrom(coupons, quote)
  PROVE  QuotedFrom(coupons', quote)
  BY DEF KeepsCoupons, QuotedFrom

LEMMA SessionsAreNumbers == NoSession \notin Sessions
<1>1. MaxCheckouts \in Nat /\ NoSession \notin Nat
  BY BillingAssumption
<1> QED BY <1>1 DEF Sessions

\* A step that leaves checkouts and Stripe alone and invoices no checkout.
LEMMA BillingSteps ==
  ASSUME IInv, CouponsType', KeepsCoupons, OneActive', InvoicesType',
         redemptions' \in [Licences -> Workspaces \cup {NoWorkspace}],
         checkouts' = checkouts, stripe' = stripe, requests' = requests,
         \A i \in DOMAIN invoices' :
           \/ i \in DOMAIN invoices /\ invoices'[i] = invoices[i]
           \/ invoices'[i].session = NoSession
  PROVE  IInv'
<1>1. TypeOK'
  BY DEF IInv, TypeOK, CouponsType, InvoicesType
<1>2. RequestsQuoted'
  BY QuotesStay DEF IInv, RequestsQuoted
<1>3. CheckoutsQuoted'
  BY QuotesStay DEF IInv, CheckoutsQuoted
<1>4. ChargedAsQuoted'
  <2> SUFFICES ASSUME NEW session \in Sessions, NEW i \in DOMAIN invoices',
                      invoices'[i].session = session
               PROVE  session \in DOMAIN stripe
                      /\ stripe[session] = [amount |-> invoices'[i].amount, paid |-> TRUE]
    BY DEF ChargedAsQuoted, OfSession
  <2>1. i \in DOMAIN invoices /\ invoices'[i] = invoices[i]
    BY SessionsAreNumbers
  <2> QED BY <2>1 DEF IInv, ChargedAsQuoted, OfSession
<1> QED BY <1>1, <1>2, <1>3, <1>4 DEF IInv

\* A step of a checkout that applies no plan.
LEMMA CallSteps ==
  ASSUME IInv, UNCHANGED billing, CallsType', RequestsQuoted', CheckoutsQuoted',
         \A s \in DOMAIN stripe :
           s \in DOMAIN stripe' /\ (stripe[s].paid => stripe'[s] = stripe[s])
  PROVE  IInv'
<1>1. TypeOK'
  BY DEF IInv, TypeOK, CallsType, billing
<1>2. OneActive'
  BY DEF IInv, OneActive, billing
<1>3. ChargedAsQuoted'
  <2> SUFFICES ASSUME NEW session \in Sessions, NEW i \in OfSession(session)
               PROVE  session \in DOMAIN stripe'
                      /\ stripe'[session] = [amount |-> invoices[i].amount, paid |-> TRUE]
    BY DEF ChargedAsQuoted, OfSession, billing
  <2>1. session \in DOMAIN stripe /\ stripe[session] = [amount |-> invoices[i].amount, paid |-> TRUE]
    BY DEF IInv, ChargedAsQuoted
  <2>2. stripe[session].paid = TRUE
    BY <2>1
  <2>3. stripe'[session] = stripe[session] /\ session \in DOMAIN stripe'
    BY <2>1, <2>2
  <2> QED BY <2>1, <2>3
<1> QED BY <1>1, <1>2, <1>3 DEF IInv

-----------------------------------------------------------------------------
(* The steps that change coupons and plans *)

LEMMA BasesType ==
  ASSUME TypeOK, NEW w \in Workspaces, NEW plan \in Plans, NEW base \in Bases(w, plan)
  PROVE  base \in Nat
<1>1. Price[plan] \in Nat /\ \A q \in Plans : Price[q] \in Nat
  BY BillingAssumption
<1>2. subscriptions[w] \in {0} \cup Plans
  BY DEF TypeOK
<1> DEFINE credits == IF subscriptions[w] # 0 /\ subscriptions[w] < plan
                      THEN 0 .. Price[subscriptions[w]] ELSE {0}
<1>3. \A credit \in credits : credit \in Nat
  BY <1>1, <1>2
<1>4. PICK credit \in credits : base = IF credit < Price[plan] THEN Price[plan] - credit ELSE 0
  BY DEF Bases
<1>5. credit \in Nat
  BY <1>3, <1>4
<1> QED BY <1>1, <1>4, <1>5

LEMMA CreateCouponStep ==
  ASSUME IInv, NEW c \in Coupons, CreateCoupon(c)
  PROVE  IInv'
<1>1. CouponsType' /\ KeepsCoupons /\ OneActive'
  BY CreateKeeps DEF IInv
<1>2. UNCHANGED <<subscriptions, redemptions, invoices, checkouts, stripe, requests>>
  BY DEF CreateCoupon
<1>3. InvoicesType' /\ redemptions' \in [Licences -> Workspaces \cup {NoWorkspace}]
  BY <1>2 DEF IInv, TypeOK, InvoicesType
<1> QED BY <1>1, <1>2, <1>3, BillingSteps

\* Both mark one coupon.
LEMMA MarkCouponStep ==
  ASSUME IInv, NEW i, RevokeCoupon(i) \/ CouponExpires(i)
  PROVE  IInv'
<1>1. i \in DOMAIN coupons /\ UNCHANGED <<subscriptions, redemptions, invoices, checkouts, stripe, requests>>
  BY DEF RevokeCoupon, CouponExpires
<1>2. coupons[i] \in Coupons
  BY <1>1, CouponFields DEF IInv
<1>3. PICK c \in Coupons :
        /\ c.code = coupons[i].code /\ c.discount = coupons[i].discount
        /\ coupons[i].revoked => c.revoked
        /\ coupons' = [coupons EXCEPT ![i] = c]
  <2>1. CASE RevokeCoupon(i)
    <3> DEFINE c == [coupons[i] EXCEPT !.revoked = TRUE]
    <3>1. c \in Coupons /\ c.code = coupons[i].code /\ c.discount = coupons[i].discount /\ c.revoked = TRUE
      BY <1>2 DEF Coupons
    <3>2. coupons' = [coupons EXCEPT ![i] = c]
      BY <2>1 DEF RevokeCoupon
    <3> QED BY <3>1, <3>2
  <2>2. CASE CouponExpires(i)
    <3> DEFINE c == [coupons[i] EXCEPT !.expired = TRUE]
    <3>1. c \in Coupons /\ c.code = coupons[i].code /\ c.discount = coupons[i].discount /\ c.revoked = coupons[i].revoked
      BY <1>2 DEF Coupons
    <3>2. coupons' = [coupons EXCEPT ![i] = c]
      BY <2>2 DEF CouponExpires
    <3> QED BY <3>1, <3>2
  <2> QED BY <2>1, <2>2
<1>4. CouponsType' /\ KeepsCoupons /\ OneActive'
  BY <1>1, <1>3, CouponsChange DEF IInv
<1>5. InvoicesType' /\ redemptions' \in [Licences -> Workspaces \cup {NoWorkspace}]
  BY <1>1 DEF IInv, TypeOK, InvoicesType
<1> QED BY <1>1, <1>4, <1>5, BillingSteps

\* A plan that is applied without a checkout, with the coupons kept.
LEMMA PlanStep ==
  ASSUME IInv, NEW w \in Workspaces, NEW plan \in Plans, NEW amount \in Nat,
         NEW code \in Codes \cup {NoCode}, Activates(w, plan, amount, code, NoSession),
         CouponsType' /\ KeepsCoupons /\ OneActive',
         redemptions' \in [Licences -> Workspaces \cup {NoWorkspace}],
         checkouts' = checkouts, stripe' = stripe, requests' = requests
  PROVE  IInv'
<1>1. /\ InvoicesType'
      /\ \A i \in DOMAIN invoices' :
           \/ i \in DOMAIN invoices /\ invoices'[i] = invoices[i]
           \/ invoices'[i].session = NoSession
  BY ActivatesKeeps DEF IInv
<1> QED BY <1>1, BillingSteps

\* A plan that is applied without a checkout, with a coupon or without one.
LEMMA PlanWithCouponStep ==
  ASSUME IInv, NEW w \in Workspaces, NEW plan \in Plans, NEW base \in Nat,
         NEW code \in Codes \cup {NoCode},
         \/ code = NoCode /\ Activates(w, plan, Billed(base, 0), NoCode, NoSession) /\ UNCHANGED coupons
         \/ \E i \in Consumable(code, w) :
              /\ Activates(w, plan, Billed(base, coupons[i].discount), code, NoSession)
              /\ coupons' = Consumed(i),
         UNCHANGED <<redemptions, checkouts, stripe, requests>>
  PROVE  IInv'
<1>1. redemptions' \in [Licences -> Workspaces \cup {NoWorkspace}]
  BY DEF IInv, TypeOK
<1>2. CASE code = NoCode /\ Activates(w, plan, Billed(base, 0), NoCode, NoSession) /\ UNCHANGED coupons
  <2>1. Billed(base, 0) \in Nat
    BY BilledType
  <2>2. CouponsType' /\ KeepsCoupons /\ OneActive'
    BY <1>2, UnchangedKeeps DEF IInv
  <2> QED BY <1>1, <1>2, <2>1, <2>2, PlanStep
<1>3. ASSUME NEW i \in Consumable(code, w),
             Activates(w, plan, Billed(base, coupons[i].discount), code, NoSession),
             coupons' = Consumed(i)
      PROVE  IInv'
  <2>1. i \in DOMAIN coupons
    BY ConsumableExists
  <2>2. coupons[i].discount \in 0 .. 1000
    BY <2>1, CouponFields DEF IInv
  <2>4. Billed(base, coupons[i].discount) \in Nat
    BY <2>2, BilledType
  <2>3. CouponsType' /\ KeepsCoupons /\ OneActive'
    BY <1>3, <2>1, ConsumedKeeps DEF IInv
  <2> QED BY <1>1, <1>3, <2>4, <2>3, PlanStep
<1> QED BY <1>2, <1>3

LEMMA ActivateStep ==
  ASSUME IInv, NEW person, NEW w \in Workspaces, NEW plan \in Plans,
         NEW code \in Codes \cup {NoCode}, Activate(person, w, plan, code)
  PROVE  IInv'
<1>1. PICK base \in Bases(w, plan) :
       \/ /\ code = NoCode
          /\ Activates(w, plan, Billed(base, 0), NoCode, NoSession)
          /\ UNCHANGED coupons
       \/ \E i \in Consumable(code, w) :
            /\ Activates(w, plan, Billed(base, coupons[i].discount), code, NoSession)
            /\ coupons' = Consumed(i)
  BY DEF Activate
<1>2. base \in Nat
  BY BasesType DEF IInv
<1>3. UNCHANGED <<redemptions, checkouts, stripe, requests>>
  BY DEF Activate
<1> QED BY <1>1, <1>2, <1>3, PlanWithCouponStep

LEMMA ClaimLicenceStep ==
  ASSUME IInv, NEW w \in Workspaces, NEW l \in Licences, ClaimLicence(w, l)
  PROVE  IInv'
<1>1. Licence[l] \in Plans
  BY BillingAssumption DEF Licences
<1>2. redemptions' \in [Licences -> Workspaces \cup {NoWorkspace}]
  BY DEF IInv, TypeOK, ClaimLicence
<1>3. CouponsType' /\ KeepsCoupons /\ OneActive'
  BY UnchangedKeeps DEF IInv, ClaimLicence
<1>4. Activates(w, Licence[l], 0, NoCode, NoSession) /\ UNCHANGED <<checkouts, stripe, requests>>
  BY DEF ClaimLicence
<1> QED BY <1>1, <1>2, <1>3, <1>4, PlanStep

-----------------------------------------------------------------------------
(* The steps of a checkout *)

\* A request goes on; checkouts and Stripe stay.
LEMMA RequestGoes ==
  ASSUME IInv, NEW r \in Slots, NEW with \in Requests, Goes(r, with),
         UNCHANGED billing, checkouts' = checkouts,
         \A s \in DOMAIN stripe :
           s \in DOMAIN stripe' /\ stripe'[s] = stripe[s],
         DOMAIN stripe' \subseteq Sessions,
         \A s \in DOMAIN stripe' : stripe'[s] \in [amount : Nat, paid : BOOLEAN],
         with.at \in {"create", "record"} => QuotedFrom(coupons, with.quote),
         with.at = "record" => /\ with.session \in DOMAIN stripe'
                               /\ stripe'[with.session].amount = with.quote.amount,
         with.at = "confirm" => with.session \in DOMAIN checkouts
  PROVE  IInv'
<1>1. \A q \in Slots : requests'[q] = IF q = r THEN with ELSE requests[q]
  BY DEF Goes, IInv, TypeOK
<1>2. requests' \in [Slots -> Requests]
  BY DEF Goes, IInv, TypeOK
<1>3. CallsType'
  <2>1. DOMAIN checkouts' \subseteq DOMAIN stripe'
    BY DEF IInv, TypeOK
  <2>2. \A s \in DOMAIN checkouts' : checkouts'[s] \in Checkouts
    BY DEF IInv, TypeOK
  <2> QED BY <1>2, <2>1, <2>2 DEF CallsType
<1>4. RequestsQuoted'
  <2> SUFFICES ASSUME NEW q \in Slots
               PROVE  /\ requests'[q].at \in {"create", "record"} => QuotedFrom(coupons, requests'[q].quote)
                      /\ requests'[q].at = "record" =>
                           /\ requests'[q].session \in DOMAIN stripe'
                           /\ stripe'[requests'[q].session].amount = requests'[q].quote.amount
                      /\ requests'[q].at = "confirm" => requests'[q].session \in DOMAIN checkouts
    BY DEF RequestsQuoted, billing
  <2>1. CASE q = r
    BY <1>1, <2>1
  <2>2. CASE q # r
    <3>1. requests'[q] = requests[q]
      BY <1>1, <2>2
    <3> QED BY <3>1 DEF IInv, RequestsQuoted
  <2> QED BY <2>1, <2>2
<1>5. CheckoutsQuoted'
  <2> SUFFICES ASSUME NEW s \in DOMAIN checkouts
               PROVE  QuotedFrom(coupons, checkouts[s].quote) /\ stripe'[s].amount = checkouts[s].quote.amount
    BY DEF CheckoutsQuoted, billing
  <2>1. s \in DOMAIN stripe
    BY DEF IInv, TypeOK
  <2> QED BY <2>1 DEF IInv, CheckoutsQuoted
<1> QED BY <1>3, <1>4, <1>5, CallSteps

LEMMA IdleType == Idle \in Requests /\ Idle.at = "idle"
  BY DEF Idle, Requests

\* Checkouts and Stripe stay, and the request ends.
LEMMA RequestEnds ==
  ASSUME IInv, NEW r \in Slots, Goes(r, Idle), UNCHANGED <<billing, checkouts, stripe>>
  PROVE  IInv'
<1>1. \A s \in DOMAIN stripe : s \in DOMAIN stripe' /\ stripe'[s] = stripe[s]
  OBVIOUS
<1>2. /\ DOMAIN stripe' \subseteq Sessions
      /\ \A s \in DOMAIN stripe' : stripe'[s] \in [amount : Nat, paid : BOOLEAN]
  BY DEF IInv, TypeOK
<1> QED BY <1>1, <1>2, IdleType, RequestGoes

LEMMA QuoteTypes ==
  ASSUME TypeOK, NEW w \in Workspaces, NEW plan \in Plans, NEW base \in Nat,
         NEW code \in Codes \cup {NoCode},
         NEW quote \in IF Best(code, w) = {} THEN {Quote(w, plan, base, 0, NoCode)}
                       ELSE {Quote(w, plan, base, coupons[i].discount, code) : i \in Best(code, w)}
  PROVE  quote \in Quotes /\ QuotedFrom(coupons, quote)
<1>1. CASE Best(code, w) = {}
  <2>1. quote = Quote(w, plan, base, 0, NoCode)
    BY <1>1
  <2>2. Amount(base, 0) \in Nat
    BY AmountType
  <2> QED BY <2>1, <2>2 DEF Quote, Quotes, QuotedFrom
<1>2. CASE Best(code, w) # {}
  <2>1. PICK i \in Best(code, w) : quote = Quote(w, plan, base, coupons[i].discount, code)
    BY <1>2
  <2>2. i \in DOMAIN coupons /\ coupons[i].code = code
    BY <2>1 DEF Best, Of
  <2>3. coupons[i].discount \in Discounts /\ coupons[i].discount \in 0 .. 1000
    BY <2>2, CouponFields
  <2>4. Amount(base, coupons[i].discount) \in Nat
    BY <2>3, AmountType
  <2> QED BY <2>1, <2>2, <2>3, <2>4 DEF Quote, Quotes, QuotedFrom
<1> QED BY <1>1, <1>2

LEMMA CreateCheckoutStep ==
  ASSUME IInv, NEW r \in Slots, NEW person, NEW w \in Workspaces, NEW plan \in Plans,
         NEW code \in Codes \cup {NoCode}, CreateCheckout(r, person, w, plan, code)
  PROVE  IInv'
<1> DEFINE quotes(base) ==
      IF Best(code, w) = {} THEN {Quote(w, plan, base, 0, NoCode)}
      ELSE {Quote(w, plan, base, coupons[i].discount, code) : i \in Best(code, w)}
<1>0. PICK base \in Bases(w, plan) : \E quote \in quotes(base) :
         \/ /\ quote.amount > 0
            /\ Goes(r, [at |-> "create", quote |-> quote])
            /\ UNCHANGED billing
         \/ /\ quote.amount = 0 /\ quote.code = NoCode
            /\ Activates(w, plan, 0, NoCode, NoSession)
            /\ UNCHANGED <<coupons, redemptions, requests>>
         \/ /\ quote.amount = 0 /\ quote.code # NoCode
            /\ \E i \in Consumable(code, w) :
                 /\ Activates(w, plan, Billed(base, coupons[i].discount), code, NoSession)
                 /\ coupons' = Consumed(i)
            /\ UNCHANGED <<redemptions, requests>>
  BY DEF CreateCheckout
<1>1. PICK quote \in quotes(base) :
         \/ /\ quote.amount > 0
            /\ Goes(r, [at |-> "create", quote |-> quote])
            /\ UNCHANGED billing
         \/ /\ quote.amount = 0 /\ quote.code = NoCode
            /\ Activates(w, plan, 0, NoCode, NoSession)
            /\ UNCHANGED <<coupons, redemptions, requests>>
         \/ /\ quote.amount = 0 /\ quote.code # NoCode
            /\ \E i \in Consumable(code, w) :
                 /\ Activates(w, plan, Billed(base, coupons[i].discount), code, NoSession)
                 /\ coupons' = Consumed(i)
            /\ UNCHANGED <<redemptions, requests>>
  BY <1>0
<1>2. UNCHANGED <<checkouts, stripe>>
  BY DEF CreateCheckout
<1>3. base \in Nat
  BY <1>0, BasesType DEF IInv
<1>4. redemptions \in [Licences -> Workspaces \cup {NoWorkspace}]
  BY DEF IInv, TypeOK
<1>5. CASE /\ Goes(r, [at |-> "create", quote |-> quote])
           /\ UNCHANGED billing
  <2>1. quote \in Quotes /\ QuotedFrom(coupons, quote)
    BY <1>1, <1>3, QuoteTypes DEF IInv
  <2> DEFINE with == [at |-> "create", quote |-> quote]
  <2>2. with \in Requests /\ with.at = "create" /\ with.quote = quote
    BY <2>1 DEF Requests
  <2>3. \A s \in DOMAIN stripe : s \in DOMAIN stripe' /\ stripe'[s] = stripe[s]
    BY <1>2
  <2>4. /\ DOMAIN stripe' \subseteq Sessions
        /\ \A s \in DOMAIN stripe' : stripe'[s] \in [amount : Nat, paid : BOOLEAN]
    BY <1>2 DEF IInv, TypeOK
  <2> HIDE DEF with
  <2>5. Goes(r, with)
    BY <1>5 DEF with
  <2> QED BY <1>2, <1>5, <2>1, <2>2, <2>3, <2>4, <2>5, RequestGoes
<1>6. CASE /\ Activates(w, plan, 0, NoCode, NoSession)
           /\ UNCHANGED <<coupons, redemptions, requests>>
  <2>1. CouponsType' /\ KeepsCoupons /\ OneActive'
    BY <1>6, UnchangedKeeps DEF IInv
  <2> QED BY <1>2, <1>4, <1>6, <2>1, PlanStep
<1>7. CASE /\ \E i \in Consumable(code, w) :
                /\ Activates(w, plan, Billed(base, coupons[i].discount), code, NoSession)
                /\ coupons' = Consumed(i)
           /\ UNCHANGED <<redemptions, requests>>
  BY <1>2, <1>3, <1>7, PlanWithCouponStep
<1> QED BY <1>1, <1>5, <1>6, <1>7

LEMMA StripeOpensStep ==
  ASSUME IInv, NEW r \in Slots, StripeOpens(r)
  PROVE  IInv'
<1> DEFINE quote == requests[r].quote
<1>1. requests[r].at = "create" /\ UNCHANGED <<billing, checkouts>>
  BY DEF StripeOpens
<1>2. PICK session \in Sessions \ DOMAIN stripe :
       /\ stripe' = [s \in DOMAIN stripe \cup {session} |->
                       IF s = session THEN [amount |-> requests[r].quote.amount, paid |-> FALSE]
                       ELSE stripe[s]]
       /\ Goes(r, [at |-> "record", quote |-> requests[r].quote, session |-> session])
  BY DEF StripeOpens
<1>3. requests[r] \in Requests
  BY DEF IInv, TypeOK
<1>4. quote \in Quotes /\ QuotedFrom(coupons, quote)
  BY <1>1, <1>3, RequestTypes DEF IInv, RequestsQuoted
<1>5. quote.amount \in Nat
  BY <1>4 DEF Quotes
<1> DEFINE with == [at |-> "record", quote |-> quote, session |-> session]
<1>6. with \in Requests /\ with.at = "record" /\ with.quote = quote /\ with.session = session
  BY <1>4 DEF Requests
<1>7. /\ \A s \in DOMAIN stripe : s \in DOMAIN stripe' /\ stripe'[s] = stripe[s]
      /\ session \in DOMAIN stripe' /\ stripe'[session].amount = quote.amount
  BY <1>2
<1>8. DOMAIN stripe' \subseteq Sessions
  BY <1>2 DEF IInv, TypeOK
<1>9. \A s \in DOMAIN stripe' : stripe'[s] \in [amount : Nat, paid : BOOLEAN]
  BY <1>2, <1>5 DEF IInv, TypeOK
<1> HIDE DEF with, quote
<1>10. Goes(r, with)
  BY <1>2 DEF with, quote
<1> QED BY <1>1, <1>4, <1>6, <1>7, <1>8, <1>9, <1>10, RequestGoes

LEMMA ConfirmCheckoutStep ==
  ASSUME IInv, NEW r \in Slots, NEW session \in Sessions, ConfirmCheckout(r, session)
  PROVE  IInv'
<1> DEFINE with == [at |-> "confirm", session |-> session]
<1>1. with \in Requests /\ with.at = "confirm" /\ with.session = session
  BY DEF Requests
<1>2. session \in DOMAIN checkouts /\ UNCHANGED <<billing, checkouts, stripe>> /\ Goes(r, with)
  BY DEF ConfirmCheckout
<1>3. \A s \in DOMAIN stripe : s \in DOMAIN stripe' /\ stripe'[s] = stripe[s]
  BY <1>2
<1>4. /\ DOMAIN stripe' \subseteq Sessions
      /\ \A s \in DOMAIN stripe' : stripe'[s] \in [amount : Nat, paid : BOOLEAN]
  BY <1>2 DEF IInv, TypeOK
<1> HIDE DEF with
<1> QED BY <1>1, <1>2, <1>3, <1>4, RequestGoes

LEMMA RecordCheckoutStep ==
  ASSUME IInv, NEW r \in Slots, RecordCheckout(r)
  PROVE  IInv'
<1> DEFINE quote == requests[r].quote
           session == requests[r].session
<1>1. /\ checkouts' = [s \in DOMAIN checkouts \cup {session} |->
                         IF s = session THEN [quote |-> quote, completed |-> FALSE] ELSE checkouts[s]]
      /\ Goes(r, Idle) /\ UNCHANGED <<billing, stripe>> /\ requests[r].at = "record"
  BY DEF RecordCheckout
<1>2. requests[r] \in Requests
  BY DEF IInv, TypeOK
<1>3. /\ quote \in Quotes /\ QuotedFrom(coupons, quote)
      /\ session \in DOMAIN stripe /\ stripe[session].amount = quote.amount
  BY <1>1, <1>2, RequestTypes DEF IInv, RequestsQuoted
<1> HIDE DEF quote, session
<1>4. \A s \in DOMAIN checkouts' :
        \/ s = session /\ checkouts'[s] = [quote |-> quote, completed |-> FALSE]
        \/ s \in DOMAIN checkouts /\ checkouts'[s] = checkouts[s]
  BY <1>1
<1>5. DOMAIN checkouts' = DOMAIN checkouts \cup {session}
  BY <1>1
<1>6. \A q \in Slots : requests'[q] = IF q = r THEN Idle ELSE requests[q]
  BY <1>1 DEF Goes, IInv, TypeOK
<1>7. requests' \in [Slots -> Requests]
  BY <1>1, IdleType DEF Goes, IInv, TypeOK
<1>8. CallsType'
  <2>1. DOMAIN checkouts' \subseteq DOMAIN stripe' /\ DOMAIN stripe' \subseteq Sessions
    BY <1>1, <1>3, <1>5 DEF IInv, TypeOK
  <2>2. [quote |-> quote, completed |-> FALSE] \in Checkouts
    BY <1>3 DEF Checkouts
  <2>3. \A s \in DOMAIN checkouts' : checkouts'[s] \in Checkouts
    BY <1>4, <2>2 DEF IInv, TypeOK
  <2>4. \A s \in DOMAIN stripe' : stripe'[s] \in [amount : Nat, paid : BOOLEAN]
    BY <1>1 DEF IInv, TypeOK
  <2> QED BY <1>7, <2>1, <2>3, <2>4 DEF CallsType
<1>9. RequestsQuoted'
  <2> SUFFICES ASSUME NEW q \in Slots
               PROVE  /\ requests'[q].at \in {"create", "record"} => QuotedFrom(coupons, requests'[q].quote)
                      /\ requests'[q].at = "record" =>
                           /\ requests'[q].session \in DOMAIN stripe
                           /\ stripe[requests'[q].session].amount = requests'[q].quote.amount
                      /\ requests'[q].at = "confirm" => requests'[q].session \in DOMAIN checkouts'
    BY <1>1 DEF RequestsQuoted, billing
  <2>1. CASE q = r
    BY <1>6, <2>1, IdleType
  <2>2. CASE q # r
    <3>1. requests'[q] = requests[q]
      BY <1>6, <2>2
    <3> QED BY <1>5, <3>1 DEF IInv, RequestsQuoted
  <2> QED BY <2>1, <2>2
<1>10. CheckoutsQuoted'
  <2> SUFFICES ASSUME NEW s \in DOMAIN checkouts'
               PROVE  QuotedFrom(coupons, checkouts'[s].quote) /\ stripe[s].amount = checkouts'[s].quote.amount
    BY <1>1 DEF CheckoutsQuoted, billing
  <2>1. CASE s = session /\ checkouts'[s] = [quote |-> quote, completed |-> FALSE]
    BY <1>3, <2>1
  <2>2. CASE s \in DOMAIN checkouts /\ checkouts'[s] = checkouts[s]
    BY <2>2 DEF IInv, CheckoutsQuoted
  <2> QED BY <1>4, <2>1, <2>2
<1>11. \A s \in DOMAIN stripe : s \in DOMAIN stripe' /\ stripe'[s] = stripe[s]
  BY <1>1
<1> QED BY <1>1, <1>8, <1>9, <1>10, <1>11, CallSteps

LEMMA PayStep ==
  ASSUME IInv, NEW session \in Sessions, Pay(session)
  PROVE  IInv'
<1>1. /\ session \in DOMAIN checkouts /\ ~stripe[session].paid
      /\ stripe' = [stripe EXCEPT ![session].paid = TRUE]
      /\ UNCHANGED <<billing, checkouts, requests>>
  BY DEF Pay
<1>2. session \in DOMAIN stripe /\ stripe[session] \in [amount : Nat, paid : BOOLEAN]
  BY <1>1 DEF IInv, TypeOK
<1>3. DOMAIN stripe' = DOMAIN stripe
  BY <1>1
<1>4. \A s \in DOMAIN stripe : s # session => stripe'[s] = stripe[s]
  BY <1>1
<1>5. stripe'[session] \in [amount : Nat, paid : BOOLEAN] /\ stripe'[session].amount = stripe[session].amount
  BY <1>1, <1>2
<1>6. \A s \in DOMAIN stripe : stripe'[s].amount = stripe[s].amount
  BY <1>4, <1>5
<1>7. CallsType'
  BY <1>1, <1>3, <1>4, <1>5 DEF CallsType, IInv, TypeOK
<1>8. RequestsQuoted'
  BY <1>1, <1>3, <1>6 DEF IInv, RequestsQuoted, billing
<1>9. CheckoutsQuoted'
  <2> SUFFICES ASSUME NEW s \in DOMAIN checkouts
               PROVE  QuotedFrom(coupons, checkouts[s].quote) /\ stripe'[s].amount = checkouts[s].quote.amount
    BY <1>1 DEF CheckoutsQuoted, billing
  <2>1. s \in DOMAIN stripe
    BY DEF IInv, TypeOK
  <2> QED BY <1>6, <2>1 DEF IInv, CheckoutsQuoted
<1>10. \A s \in DOMAIN stripe : s \in DOMAIN stripe' /\ (stripe[s].paid => stripe'[s] = stripe[s])
  BY <1>1, <1>3, <1>4
<1> QED BY <1>1, <1>7, <1>8, <1>9, <1>10, CallSteps

LEMMA RestartStep ==
  ASSUME IInv, ~Unordered, Restart
  PROVE  IInv'
<1>1. requests' = [r \in Slots |-> Idle] /\ UNCHANGED <<billing, checkouts, stripe>>
  BY DEF Restart, billing
<1>2. requests' \in [Slots -> Requests] /\ \A r \in Slots : requests'[r].at = "idle"
  BY <1>1, IdleType
<1>3. CallsType'
  BY <1>1, <1>2 DEF IInv, TypeOK, CallsType
<1>4. RequestsQuoted'
  BY <1>2 DEF RequestsQuoted
<1>5. CheckoutsQuoted'
  BY <1>1 DEF IInv, CheckoutsQuoted, billing
<1>6. \A s \in DOMAIN stripe : s \in DOMAIN stripe' /\ stripe'[s] = stripe[s]
  BY <1>1
<1> QED BY <1>1, <1>3, <1>4, <1>5, <1>6, CallSteps

\* The coupon that is redeemed has the discount of the quote: it is the first of
\* its code and not revoked, and so the only one that ever had the code.
LEMMA RedeemedAsQuoted ==
  ASSUME IInv, NEW s \in DOMAIN checkouts, checkouts[s].quote.code # NoCode,
         NEW w, NEW i \in Consumable(checkouts[s].quote.code, w)
  PROVE  coupons[i].discount = checkouts[s].quote.discount
<1> DEFINE quote == checkouts[s].quote
<1>1. PICK k \in DOMAIN coupons : coupons[k].code = quote.code /\ coupons[k].discount = quote.discount
  BY DEF IInv, CheckoutsQuoted, QuotedFrom
<1>2. /\ i \in DOMAIN coupons /\ coupons[i].code = quote.code /\ ~coupons[i].revoked
      /\ i <= k
  BY <1>1 DEF Consumable, Of, Eligible
<1>3. DOMAIN coupons \subseteq Nat
  <2>1. coupons \in Seq(Coupons)
    BY DEF IInv, TypeOK
  <2> QED BY <2>1
<1>4. ~(i < k)
  BY <1>1, <1>2 DEF IInv, OneActive
<1>5. i = k
  BY <1>2, <1>3, <1>4
<1> QED BY <1>1, <1>5

LEMMA ConfirmPaidStep ==
  ASSUME IInv, WholeDiscounts, NEW r \in Slots, ConfirmPaid(r)
  PROVE  IInv'
<1> DEFINE session == requests[r].session
           quote == checkouts[session].quote
<1>1. /\ requests[r].at = "confirm" /\ stripe[session].paid
      /\ checkouts' = Completed(session) /\ Goes(r, Idle)
      /\ UNCHANGED <<redemptions, stripe>>
      /\ \/ /\ quote.code = NoCode
            /\ Activates(quote.workspace, quote.plan, Billed(quote.base, quote.discount), NoCode, session)
            /\ UNCHANGED coupons
         \/ \E i \in Consumable(quote.code, quote.workspace) :
              /\ Activates(quote.workspace, quote.plan, Billed(quote.base, coupons[i].discount), quote.code, session)
              /\ coupons' = Consumed(i)
  BY DEF ConfirmPaid
<1>2. session \in Sessions /\ session \in DOMAIN checkouts /\ session \in DOMAIN stripe
  <2>1. requests[r] \in Requests
    BY DEF IInv, TypeOK
  <2>2. session \in Sessions
    BY <1>1, <2>1, RequestTypes
  <2>3. session \in DOMAIN checkouts
    BY <1>1 DEF IInv, RequestsQuoted
  <2> QED BY <2>2, <2>3 DEF IInv, TypeOK
<1>3. /\ quote.workspace \in Workspaces /\ quote.plan \in Plans /\ quote.amount \in Nat
      /\ quote.code \in Codes \cup {NoCode}
      /\ stripe[session].amount = quote.amount /\ quote.amount = Billed(quote.base, quote.discount)
  <2>1. checkouts[session] \in Checkouts
    BY <1>2 DEF IInv, TypeOK
  <2>2. quote \in Quotes
    BY <2>1 DEF Checkouts
  <2>3. /\ quote.workspace \in Workspaces /\ quote.plan \in Plans /\ quote.amount \in Nat
        /\ quote.code \in Codes \cup {NoCode} /\ quote.discount \in {0} \cup Discounts
    BY <2>2 DEF Quotes
  <2>4. Billed(quote.base, quote.discount) = Amount(quote.base, quote.discount)
    BY <2>3, BilledIsAmount
  <2> QED BY <1>2, <2>3, <2>4 DEF IInv, CheckoutsQuoted, QuotedFrom
<1>4. stripe[session] = [amount |-> quote.amount, paid |-> TRUE]
  <2>1. stripe[session] \in [amount : Nat, paid : BOOLEAN]
    BY <1>2 DEF IInv, TypeOK
  <2> QED BY <1>1, <1>3, <2>1
<1>5. /\ CouponsType' /\ KeepsCoupons /\ OneActive'
      /\ Activates(quote.workspace, quote.plan, quote.amount, quote.code, session)
  <2>1. CASE /\ quote.code = NoCode
             /\ Activates(quote.workspace, quote.plan, Billed(quote.base, quote.discount), NoCode, session)
             /\ UNCHANGED coupons
    BY <1>3, <2>1, UnchangedKeeps DEF IInv
  <2>2. ASSUME NEW i \in Consumable(quote.code, quote.workspace),
               Activates(quote.workspace, quote.plan, Billed(quote.base, coupons[i].discount), quote.code, session),
               coupons' = Consumed(i)
        PROVE  /\ CouponsType' /\ KeepsCoupons /\ OneActive'
               /\ Activates(quote.workspace, quote.plan, quote.amount, quote.code, session)
    <3>1. i \in DOMAIN coupons /\ coupons[i].code = quote.code
      BY DEF Consumable, Of
    <3>2. coupons[i].code \in Codes
      BY <3>1, CouponFields DEF IInv
    <3>3. quote.code # NoCode
      BY <3>1, <3>2, BillingAssumption
    <3>4. coupons[i].discount = quote.discount
      BY <1>2, <3>3, RedeemedAsQuoted
    <3>5. CouponsType' /\ KeepsCoupons /\ OneActive'
      BY <2>2, <3>1, ConsumedKeeps DEF IInv
    <3> QED BY <1>3, <2>2, <3>4, <3>5
  <2> QED BY <1>1, <2>1, <2>2
<1>6. /\ InvoicesType'
      /\ \A i \in DOMAIN invoices' :
           \/ i \in DOMAIN invoices /\ invoices'[i] = invoices[i]
           \/ invoices'[i].session = session /\ invoices'[i].amount = quote.amount
  BY <1>2, <1>3, <1>5, ActivatesKeeps DEF IInv
<1>7. \A q \in Slots : requests'[q] = IF q = r THEN Idle ELSE requests[q]
  BY <1>1 DEF Goes, IInv, TypeOK
<1>8. requests' \in [Slots -> Requests]
  BY <1>1, IdleType DEF Goes, IInv, TypeOK
<1>9. DOMAIN checkouts' = DOMAIN checkouts
      /\ \A s \in DOMAIN checkouts : checkouts'[s].quote = checkouts[s].quote /\ checkouts'[s] \in Checkouts
  <2>1. checkouts' = [checkouts EXCEPT ![session].completed = TRUE]
    BY <1>1 DEF Completed
  <2>2. DOMAIN checkouts' = DOMAIN checkouts
        /\ \A s \in DOMAIN checkouts : s # session => checkouts'[s] = checkouts[s]
    BY <2>1
  <2>3. \A s \in DOMAIN checkouts : checkouts[s] \in Checkouts
    BY DEF IInv, TypeOK
  <2>4. checkouts'[session].quote = quote /\ checkouts'[session] \in Checkouts
    BY <1>2, <2>1, <2>3 DEF Checkouts
  <2> QED BY <2>2, <2>3, <2>4
<1> HIDE DEF session, quote
<1>10. TypeOK'
  <2>1. redemptions' \in [Licences -> Workspaces \cup {NoWorkspace}]
    BY <1>1 DEF IInv, TypeOK
  <2>2. /\ DOMAIN checkouts' \subseteq DOMAIN stripe' /\ DOMAIN stripe' \subseteq Sessions
        /\ \A s \in DOMAIN stripe' : stripe'[s] \in [amount : Nat, paid : BOOLEAN]
    BY <1>1, <1>9 DEF IInv, TypeOK
  <2> QED BY <1>5, <1>6, <1>8, <1>9, <2>1, <2>2 DEF TypeOK, CouponsType, InvoicesType
<1>11. RequestsQuoted'
  <2> SUFFICES ASSUME NEW q \in Slots
               PROVE  /\ requests'[q].at \in {"create", "record"} => QuotedFrom(coupons', requests'[q].quote)
                      /\ requests'[q].at = "record" =>
                           /\ requests'[q].session \in DOMAIN stripe
                           /\ stripe[requests'[q].session].amount = requests'[q].quote.amount
                      /\ requests'[q].at = "confirm" => requests'[q].session \in DOMAIN checkouts
    BY <1>1, <1>9 DEF RequestsQuoted
  <2>1. CASE q = r
    BY <1>7, <2>1, IdleType
  <2>2. CASE q # r
    <3>1. requests'[q] = requests[q]
      BY <1>7, <2>2
    <3> QED BY <1>5, <3>1, QuotesStay DEF IInv, RequestsQuoted
  <2> QED BY <2>1, <2>2
<1>12. CheckoutsQuoted'
  BY <1>1, <1>5, <1>9, QuotesStay DEF IInv, CheckoutsQuoted
<1>13. ChargedAsQuoted'
  <2> SUFFICES ASSUME NEW s \in Sessions, NEW i \in DOMAIN invoices', invoices'[i].session = s
               PROVE  s \in DOMAIN stripe /\ stripe[s] = [amount |-> invoices'[i].amount, paid |-> TRUE]
    BY <1>1 DEF ChargedAsQuoted, OfSession
  <2>1. CASE i \in DOMAIN invoices /\ invoices'[i] = invoices[i]
    BY <2>1 DEF IInv, ChargedAsQuoted, OfSession
  <2>2. CASE invoices'[i].session = session /\ invoices'[i].amount = quote.amount
    BY <1>2, <1>4, <2>2
  <2> QED BY <1>6, <2>1, <2>2
<1> QED BY <1>5, <1>10, <1>11, <1>12, <1>13 DEF IInv

-----------------------------------------------------------------------------
(* The invariant *)

LEMMA NewCouponType ==
  ASSUME NEW code \in Codes, NEW discount \in Discounts, NEW cap \in Caps, NEW allowed \in Allowlists
  PROVE  NewCoupon(code, discount, cap, allowed) \in Coupons
  BY DEF NewCoupon, Coupons

LEMMA InitIInv == Init => IInv
<1> SUFFICES ASSUME Init PROVE IInv
  OBVIOUS
<1>1. coupons = <<>> /\ invoices = <<>> /\ checkouts = <<>> /\ stripe = <<>>
      /\ requests = [r \in Slots |-> Idle]
  BY DEF Init
<1>2. TypeOK
  <2>1. coupons \in Seq(Coupons) /\ Len(coupons) <= MaxCoupons
    BY <1>1, BillingAssumption
  <2>2. invoices \in Seq(Invoices)
    BY <1>1
  <2>3. requests \in [Slots -> Requests]
    BY <1>1, IdleType
  <2>4. DOMAIN checkouts = {} /\ DOMAIN stripe = {}
    BY <1>1
  <2>5. subscriptions \in [Workspaces -> {0} \cup Plans]
        /\ redemptions \in [Licences -> Workspaces \cup {NoWorkspace}]
    BY DEF Init
  <2> QED BY <2>1, <2>2, <2>3, <2>4, <2>5 DEF TypeOK
<1>3. OneActive /\ CheckoutsQuoted
  BY <1>1 DEF OneActive, CheckoutsQuoted
<1>4. RequestsQuoted
  BY <1>1, IdleType DEF RequestsQuoted
<1>5. ChargedAsQuoted
  BY <1>1 DEF ChargedAsQuoted, OfSession
<1> QED BY <1>2, <1>3, <1>4, <1>5 DEF IInv

LEMMA NextIInv ==
  ASSUME IInv, ~Unordered, WholeDiscounts, [Next]_vars
  PROVE  IInv'
<1>1. ASSUME NEW code \in Codes, NEW discount \in Discounts, NEW cap \in Caps,
             NEW allowed \in Allowlists, CreateCoupon(NewCoupon(code, discount, cap, allowed))
      PROVE  IInv'
  BY <1>1, NewCouponType, CreateCouponStep
<1>2. ASSUME NEW i \in 1 .. MaxCoupons, RevokeCoupon(i) \/ CouponExpires(i)
      PROVE  IInv'
  BY <1>2, MarkCouponStep
<1>3. ASSUME NEW m \in Managers
      PROVE  m[2] \in Workspaces
  BY BillingAssumption
<1>4. ASSUME NEW m \in Managers, NEW plan \in Plans, NEW code \in Codes \cup {NoCode},
             Activate(m[1], m[2], plan, code)
      PROVE  IInv'
  BY <1>3, <1>4, ActivateStep
<1>5. ASSUME NEW m \in Managers, NEW plan \in Plans, NEW code \in Codes \cup {NoCode},
             NEW r \in Slots, CreateCheckout(r, m[1], m[2], plan, code)
      PROVE  IInv'
  BY <1>3, <1>5, CreateCheckoutStep
<1>6. ASSUME NEW m \in Managers, NEW l \in Licences, ClaimLicence(m[2], l)
      PROVE  IInv'
  BY <1>3, <1>6, ClaimLicenceStep
<1>7. ASSUME NEW r \in Slots, StripeOpens(r)
      PROVE  IInv'
  BY <1>7, StripeOpensStep
<1>8. ASSUME NEW r \in Slots, RecordCheckout(r)
      PROVE  IInv'
  BY <1>8, RecordCheckoutStep
<1>9. ASSUME NEW r \in Slots, ConfirmPaid(r)
      PROVE  IInv'
  BY <1>9, ConfirmPaidStep
<1>10. ASSUME NEW r \in Slots, RequestFails(r)
       PROVE  IInv'
  BY <1>10, RequestEnds DEF RequestFails
<1>11. ASSUME NEW r \in Slots, NEW session \in Sessions, ConfirmCheckout(r, session)
       PROVE  IInv'
  BY <1>11, ConfirmCheckoutStep
<1>12. ASSUME NEW session \in Sessions, Pay(session)
       PROVE  IInv'
  BY <1>12, PayStep
<1>13. CASE Restart
  BY <1>13, RestartStep
<1>14. CASE UNCHANGED vars
  <2>1. CouponsType' /\ KeepsCoupons /\ OneActive'
    BY <1>14, UnchangedKeeps DEF IInv, vars
  <2>2. InvoicesType' /\ redemptions' \in [Licences -> Workspaces \cup {NoWorkspace}]
    BY <1>14 DEF IInv, TypeOK, InvoicesType, vars
  <2>3. UNCHANGED <<invoices, checkouts, stripe, requests>>
    BY <1>14 DEF vars
  <2> QED BY <2>1, <2>2, <2>3, BillingSteps
<1> QED BY <1>1, <1>2, <1>4, <1>5, <1>6, <1>7, <1>8, <1>9, <1>10, <1>11, <1>12, <1>13, <1>14 DEF Next

\* With the coupons in the order they were made in and whole percentages, a payment is invoiced as it
\* was quoted, and every variable keeps its type.
THEOREM Billing == ASSUME ~Unordered, WholeDiscounts PROVE Spec => []IInv
<1>1. Init => IInv
  BY InitIInv
<1>2. IInv /\ [Next]_vars => IInv'
  BY NextIInv
<1> QED BY <1>1, <1>2, PTL DEF Spec

\* An invoice for a checkout has the amount that Stripe was asked for and that
\* has been paid (ChargedAsQuoted).
THEOREM InvoicesAsQuoted == ASSUME ~Unordered, WholeDiscounts PROVE Spec => []ChargedAsQuoted
<1>1. IInv => ChargedAsQuoted
  BY DEF IInv
<1> QED BY <1>1, Billing, PTL

-----------------------------------------------------------------------------
(* The books: what holds in whatever order the coupons are loaded, and whatever
   the discounts *)

RequestsKnown ==
  \A r \in Slots :
    /\ requests[r].at = "record" => requests[r].session \in DOMAIN stripe
    /\ requests[r].at = "confirm" => requests[r].session \in DOMAIN checkouts

\* A workspace without invoices has no plan, and another one the plan of an
\* invoice that no later one of the workspace follows.
PlanOfLast ==
  \A w \in Workspaces :
    \/ subscriptions[w] = 0 /\ \A i \in DOMAIN invoices : invoices[i].workspace # w
    \/ \E i \in DOMAIN invoices :
         /\ invoices[i].workspace = w /\ invoices[i].plan = subscriptions[w]
         /\ \A j \in DOMAIN invoices : invoices[j].workspace = w => j <= i

BooksInv == TypeOK /\ RequestsKnown /\ CapsKept /\ PlanOfLast /\ CompletedIsInvoiced

TableKept == CouponsType' /\ CapsKept'

LEMMA TableChanges ==
  ASSUME TypeOK, CapsKept, NEW i \in DOMAIN coupons, NEW c \in Coupons,
         c.cap > 0 => c.redeemed <= c.cap,
         coupons' = [coupons EXCEPT ![i] = c]
  PROVE  TableKept
<1>1. coupons \in Seq(Coupons)
  BY DEF TypeOK
<1>2. /\ coupons' \in Seq(Coupons) /\ Len(coupons') = Len(coupons)
      /\ DOMAIN coupons' = DOMAIN coupons
  BY <1>1
<1>3. \A k \in DOMAIN coupons : coupons'[k] = IF k = i THEN c ELSE coupons[k]
  BY <1>1
<1>4. CouponsType'
  BY <1>2 DEF CouponsType, TypeOK
<1>5. CapsKept'
  BY <1>2, <1>3 DEF CapsKept
<1> QED BY <1>4, <1>5 DEF TableKept

\* A coupon is only redeemed while it is not full.
LEMMA ConsumedTable ==
  ASSUME TypeOK, CapsKept, NEW code, NEW w, NEW i \in Consumable(code, w), coupons' = Consumed(i)
  PROVE  TableKept
<1> DEFINE c == [coupons[i] EXCEPT !.redeemed = @ + 1]
<1>1. i \in DOMAIN coupons /\ ~IsFull(coupons[i])
  BY DEF Consumable, Of, Eligible
<1>2. coupons[i] \in Coupons
  BY <1>1, CouponFields
<1>3. coupons[i].redeemed \in Nat /\ coupons[i].cap \in Nat
  BY <1>2, BillingAssumption DEF Coupons
<1>4. c \in Coupons /\ c.cap = coupons[i].cap /\ c.redeemed = coupons[i].redeemed + 1
  BY <1>2, <1>3 DEF Coupons
<1>5. c.cap > 0 => c.redeemed <= c.cap
  BY <1>1, <1>3, <1>4 DEF IsFull
<1>6. coupons' = [coupons EXCEPT ![i] = c]
  BY DEF Consumed
<1> QED BY <1>1, <1>4, <1>5, <1>6, TableChanges

LEMMA SameTable ==
  ASSUME TypeOK, CapsKept, coupons' = coupons
  PROVE  TableKept
  BY DEF TableKept, CouponsType, CapsKept, TypeOK

\* A step that invoices nothing completes no checkout.
LEMMA NothingInvoiced ==
  ASSUME BooksInv, TableKept, CallsType', RequestsKnown',
         UNCHANGED <<subscriptions, redemptions, invoices>>,
         \A s \in DOMAIN checkouts' :
           checkouts'[s].completed => s \in DOMAIN checkouts /\ checkouts'[s] = checkouts[s]
  PROVE  BooksInv'
<1>1. TypeOK'
  BY DEF BooksInv, TypeOK, TableKept, CouponsType, CallsType
<1>2. PlanOfLast'
  BY DEF BooksInv, PlanOfLast
<1>3. CompletedIsInvoiced'
  <2> SUFFICES ASSUME NEW s \in DOMAIN checkouts', checkouts'[s].completed
               PROVE  \E i \in OfSession(s) :
                        /\ invoices[i].workspace = checkouts'[s].quote.workspace
                        /\ invoices[i].plan = checkouts'[s].quote.plan
    BY DEF CompletedIsInvoiced, OfSession
  <2> QED BY DEF BooksInv, CompletedIsInvoiced
<1> QED BY <1>1, <1>2, <1>3 DEF BooksInv, TableKept

\* No checkout is completed but that of the session, which is for the plan.
CompletesOnly(w, plan, session) ==
  \A s \in DOMAIN checkouts' :
    /\ s \in DOMAIN checkouts /\ checkouts'[s].quote = checkouts[s].quote
    /\ checkouts'[s].completed =>
         \/ checkouts[s].completed
         \/ s = session /\ checkouts[s].quote.workspace = w /\ checkouts[s].quote.plan = plan

LEMMA SameCheckouts ==
  ASSUME checkouts' = checkouts, NEW w, NEW plan, NEW session
  PROVE  CompletesOnly(w, plan, session)
  BY DEF CompletesOnly

\* A step that applies a plan, of a checkout that it completes or of none.
LEMMA PlanInvoiced ==
  ASSUME BooksInv, TableKept, CallsType', RequestsKnown',
         redemptions' \in [Licences -> Workspaces \cup {NoWorkspace}],
         NEW w \in Workspaces, NEW plan \in Plans, NEW amount \in Nat,
         NEW code \in Codes \cup {NoCode}, NEW session \in Sessions \cup {NoSession},
         Activates(w, plan, amount, code, session),
         CompletesOnly(w, plan, session)
  PROVE  BooksInv'
<1> DEFINE new == [workspace |-> w, plan |-> plan, amount |-> amount, code |-> code, session |-> session]
<1>1. InvoicesType'
  BY ActivatesKeeps DEF BooksInv
<1>2. TypeOK'
  BY <1>1 DEF TypeOK, TableKept, CouponsType, CallsType, InvoicesType
<1>3. /\ invoices \in Seq(Invoices) /\ new \in Invoices /\ invoices' = Append(invoices, new)
      /\ subscriptions \in [Workspaces -> {0} \cup Plans]
      /\ subscriptions' = [subscriptions EXCEPT ![w] = plan]
  BY DEF BooksInv, TypeOK, Activates, Invoiced, Applied, Invoices
<1> DEFINE last == Len(invoices) + 1
<1>4. Len(invoices) \in Nat /\ DOMAIN invoices = 1 .. Len(invoices) /\ DOMAIN invoices' = 1 .. last
  BY <1>3
<1>5. (\A i \in DOMAIN invoices : invoices'[i] = invoices[i]) /\ invoices'[last] = new
  BY <1>3
<1>6. PlanOfLast'
  <2> SUFFICES ASSUME NEW x \in Workspaces
               PROVE  \/ subscriptions'[x] = 0 /\ \A i \in DOMAIN invoices' : invoices'[i].workspace # x
                      \/ \E i \in DOMAIN invoices' :
                           /\ invoices'[i].workspace = x /\ invoices'[i].plan = subscriptions'[x]
                           /\ \A j \in DOMAIN invoices' : invoices'[j].workspace = x => j <= i
    BY DEF PlanOfLast
  <2>1. CASE x = w
    <3>1. last \in DOMAIN invoices' /\ invoices'[last].workspace = x /\ invoices'[last].plan = plan
      BY <1>4, <1>5, <2>1
    <3>2. subscriptions'[x] = plan /\ \A j \in DOMAIN invoices' : j <= last
      BY <1>3, <1>4, <2>1
    <3> QED BY <3>1, <3>2
  <2>2. CASE x # w
    <3>1. subscriptions'[x] = subscriptions[x] /\ invoices'[last].workspace # x
      BY <1>3, <1>5, <2>2
    <3>2. \A j \in DOMAIN invoices' : invoices'[j].workspace = x =>
            j \in DOMAIN invoices /\ invoices[j].workspace = x
      BY <1>4, <1>5, <3>1
    <3>3. CASE subscriptions[x] = 0 /\ \A i \in DOMAIN invoices : invoices[i].workspace # x
      BY <3>1, <3>2, <3>3
    <3>4. ASSUME NEW i \in DOMAIN invoices, invoices[i].workspace = x, invoices[i].plan = subscriptions[x],
                 \A j \in DOMAIN invoices : invoices[j].workspace = x => j <= i
          PROVE  \E k \in DOMAIN invoices' :
                   /\ invoices'[k].workspace = x /\ invoices'[k].plan = subscriptions'[x]
                   /\ \A j \in DOMAIN invoices' : invoices'[j].workspace = x => j <= k
      <4>1. i \in DOMAIN invoices' /\ invoices'[i] = invoices[i]
        BY <1>4, <1>5
      <4> QED BY <3>1, <3>2, <3>4, <4>1
    <3> QED BY <3>3, <3>4 DEF BooksInv, PlanOfLast
  <2> QED BY <2>1, <2>2
<1>7. CompletedIsInvoiced'
  <2> SUFFICES ASSUME NEW s \in DOMAIN checkouts', checkouts'[s].completed
               PROVE  \E i \in DOMAIN invoices' :
                        /\ invoices'[i].session = s
                        /\ invoices'[i].workspace = checkouts'[s].quote.workspace
                        /\ invoices'[i].plan = checkouts'[s].quote.plan
    BY DEF CompletedIsInvoiced, OfSession
  <2>0. /\ s \in DOMAIN checkouts /\ checkouts'[s].quote = checkouts[s].quote
        /\ \/ checkouts[s].completed
           \/ s = session /\ checkouts[s].quote.workspace = w /\ checkouts[s].quote.plan = plan
    BY DEF CompletesOnly
  <2>1. CASE checkouts[s].completed
    <3>1. PICK i \in DOMAIN invoices :
            /\ invoices[i].session = s
            /\ invoices[i].workspace = checkouts[s].quote.workspace
            /\ invoices[i].plan = checkouts[s].quote.plan
      BY <2>0, <2>1 DEF BooksInv, CompletedIsInvoiced, OfSession
    <3>2. i \in DOMAIN invoices' /\ invoices'[i] = invoices[i]
      BY <1>4, <1>5
    <3> QED BY <2>0, <3>1, <3>2
  <2>2. CASE s = session /\ checkouts[s].quote.workspace = w /\ checkouts[s].quote.plan = plan
    <3>1. last \in DOMAIN invoices'
      BY <1>4
    <3> QED BY <1>5, <2>0, <2>2, <3>1
  <2> QED BY <2>0, <2>1, <2>2
<1> QED BY <1>2, <1>6, <1>7 DEF BooksInv, TableKept

LEMMA SameCalls ==
  ASSUME BooksInv, UNCHANGED <<checkouts, stripe, requests>>
  PROVE  CallsType' /\ RequestsKnown'
  BY DEF BooksInv, TypeOK, CallsType, RequestsKnown

\* A request goes on; no checkout goes, and Stripe forgets nothing.
LEMMA CallsGo ==
  ASSUME BooksInv, NEW r \in Slots, NEW with \in Requests, Goes(r, with),
         checkouts' = checkouts, DOMAIN stripe \subseteq DOMAIN stripe',
         DOMAIN stripe' \subseteq Sessions,
         \A s \in DOMAIN stripe' : stripe'[s] \in [amount : Nat, paid : BOOLEAN],
         with.at = "record" => with.session \in DOMAIN stripe',
         with.at = "confirm" => with.session \in DOMAIN checkouts
  PROVE  CallsType' /\ RequestsKnown'
<1>1. \A q \in Slots : requests'[q] = IF q = r THEN with ELSE requests[q]
  BY DEF Goes, BooksInv, TypeOK
<1>2. requests' \in [Slots -> Requests]
  BY DEF Goes, BooksInv, TypeOK
<1>3. CallsType'
  BY <1>2 DEF CallsType, BooksInv, TypeOK
<1>4. RequestsKnown'
  <2> SUFFICES ASSUME NEW q \in Slots
               PROVE  /\ requests'[q].at = "record" => requests'[q].session \in DOMAIN stripe'
                      /\ requests'[q].at = "confirm" => requests'[q].session \in DOMAIN checkouts'
    BY DEF RequestsKnown
  <2>1. CASE q = r
    BY <1>1, <2>1
  <2>2. CASE q # r
    <3>1. requests'[q] = requests[q]
      BY <1>1, <2>2
    <3> QED BY <3>1 DEF BooksInv, RequestsKnown
  <2> QED BY <2>1, <2>2
<1> QED BY <1>3, <1>4

\* A step that changes the table of coupons and nothing else.
LEMMA TableStep ==
  ASSUME BooksInv, TableKept,
         UNCHANGED <<subscriptions, redemptions, invoices, checkouts, stripe, requests>>
  PROVE  BooksInv'
  BY SameCalls, NothingInvoiced

LEMMA CreateCouponBooks ==
  ASSUME BooksInv, NEW code \in Codes, NEW discount \in Discounts, NEW cap \in Caps,
         NEW allowed \in Allowlists, CreateCoupon(NewCoupon(code, discount, cap, allowed))
  PROVE  BooksInv'
<1> DEFINE c == NewCoupon(code, discount, cap, allowed)
<1>1. c \in Coupons
  BY NewCouponType
<1>2. c.redeemed = 0 /\ c.cap \in Nat
  BY BillingAssumption DEF NewCoupon
<1> HIDE DEF c
<1>3. /\ coupons \in Seq(Coupons) /\ Len(coupons) < MaxCoupons /\ MaxCoupons \in Nat
      /\ coupons' = Append(coupons, c)
  BY BillingAssumption DEF BooksInv, TypeOK, CreateCoupon, c
<1>4. coupons' \in Seq(Coupons) /\ Len(coupons') = Len(coupons) + 1 /\ Len(coupons) \in Nat
  BY <1>1, <1>3
<1>5. CouponsType'
  BY <1>3, <1>4 DEF CouponsType
<1>6. \A i \in DOMAIN coupons' : (i \in DOMAIN coupons /\ coupons'[i] = coupons[i]) \/ coupons'[i] = c
  BY <1>1, <1>3, <1>4
<1>7. CapsKept'
  <2> SUFFICES ASSUME NEW i \in DOMAIN coupons', coupons'[i].cap > 0
               PROVE  coupons'[i].redeemed <= coupons'[i].cap
    BY DEF CapsKept
  <2>1. CASE i \in DOMAIN coupons /\ coupons'[i] = coupons[i]
    BY <2>1 DEF BooksInv, CapsKept
  <2>2. CASE coupons'[i] = c
    BY <1>2, <2>2
  <2> QED BY <1>6, <2>1, <2>2
<1>8. UNCHANGED <<subscriptions, redemptions, invoices, checkouts, stripe, requests>>
  BY DEF CreateCoupon
<1> QED BY <1>5, <1>7, <1>8, TableStep DEF TableKept

LEMMA MarkCouponBooks ==
  ASSUME BooksInv, NEW i, RevokeCoupon(i) \/ CouponExpires(i)
  PROVE  BooksInv'
<1>1. i \in DOMAIN coupons /\ UNCHANGED <<subscriptions, redemptions, invoices, checkouts, stripe, requests>>
  BY DEF RevokeCoupon, CouponExpires
<1>2. coupons[i] \in Coupons /\ (coupons[i].cap > 0 => coupons[i].redeemed <= coupons[i].cap)
  BY <1>1, CouponFields DEF BooksInv, CapsKept
<1>3. PICK c \in Coupons :
        /\ c.cap = coupons[i].cap /\ c.redeemed = coupons[i].redeemed
        /\ coupons' = [coupons EXCEPT ![i] = c]
  <2>1. CASE RevokeCoupon(i)
    <3> DEFINE c == [coupons[i] EXCEPT !.revoked = TRUE]
    <3>1. c \in Coupons /\ c.cap = coupons[i].cap /\ c.redeemed = coupons[i].redeemed
      BY <1>2 DEF Coupons
    <3>2. coupons' = [coupons EXCEPT ![i] = c]
      BY <2>1 DEF RevokeCoupon
    <3> QED BY <3>1, <3>2
  <2>2. CASE CouponExpires(i)
    <3> DEFINE c == [coupons[i] EXCEPT !.expired = TRUE]
    <3>1. c \in Coupons /\ c.cap = coupons[i].cap /\ c.redeemed = coupons[i].redeemed
      BY <1>2 DEF Coupons
    <3>2. coupons' = [coupons EXCEPT ![i] = c]
      BY <2>2 DEF CouponExpires
    <3> QED BY <3>1, <3>2
  <2> QED BY <1>1, <2>1, <2>2
<1>4. TableKept
  BY <1>1, <1>2, <1>3, TableChanges DEF BooksInv
<1> QED BY <1>1, <1>4, TableStep

\* A plan is applied with a coupon or without one.
AppliesPlan(w, plan, base, code, session) ==
  \/ /\ code = NoCode /\ UNCHANGED coupons
     /\ \E discount \in 0 .. 1000 : Activates(w, plan, Billed(base, discount), NoCode, session)
  \/ \E i \in Consumable(code, w) :
       /\ Activates(w, plan, Billed(base, coupons[i].discount), code, session)
       /\ coupons' = Consumed(i)

LEMMA PlanBooks ==
  ASSUME BooksInv, NEW w \in Workspaces, NEW plan \in Plans, NEW base \in Nat,
         NEW code \in Codes \cup {NoCode}, NEW session \in Sessions \cup {NoSession},
         AppliesPlan(w, plan, base, code, session),
         redemptions' = redemptions, CallsType', RequestsKnown',
         CompletesOnly(w, plan, session)
  PROVE  BooksInv'
<1>1. redemptions' \in [Licences -> Workspaces \cup {NoWorkspace}]
  BY DEF BooksInv, TypeOK
<1>2. ASSUME code = NoCode, UNCHANGED coupons, NEW discount \in 0 .. 1000,
             Activates(w, plan, Billed(base, discount), NoCode, session)
      PROVE  BooksInv'
  <2>1. Billed(base, discount) \in Nat
    BY BilledType
  <2>2. TableKept
    BY <1>2, SameTable DEF BooksInv
  <2> QED BY <1>1, <1>2, <2>1, <2>2, PlanInvoiced
<1>3. ASSUME NEW i \in Consumable(code, w),
             Activates(w, plan, Billed(base, coupons[i].discount), code, session),
             coupons' = Consumed(i)
      PROVE  BooksInv'
  <2>1. i \in DOMAIN coupons
    BY ConsumableExists
  <2>2. coupons[i].discount \in 0 .. 1000
    BY <2>1, CouponFields DEF BooksInv
  <2>3. Billed(base, coupons[i].discount) \in Nat
    BY <2>2, BilledType
  <2>4. TableKept
    BY <1>3, ConsumedTable DEF BooksInv
  <2> QED BY <1>1, <1>3, <2>3, <2>4, PlanInvoiced
<1> QED BY <1>2, <1>3 DEF AppliesPlan

LEMMA PlanAloneBooks ==
  ASSUME BooksInv, NEW w \in Workspaces, NEW plan \in Plans, NEW base \in Nat,
         NEW code \in Codes \cup {NoCode},
         \/ code = NoCode /\ Activates(w, plan, Billed(base, 0), NoCode, NoSession) /\ UNCHANGED coupons
         \/ \E i \in Consumable(code, w) :
              /\ Activates(w, plan, Billed(base, coupons[i].discount), code, NoSession)
              /\ coupons' = Consumed(i),
         UNCHANGED <<redemptions, checkouts, stripe, requests>>
  PROVE  BooksInv'
<1>1. NoSession \in Sessions \cup {NoSession} /\ 0 \in 0 .. 1000
  OBVIOUS
<1>2. CallsType' /\ RequestsKnown'
  BY SameCalls
<1>3. redemptions' = redemptions
  OBVIOUS
<1>4. CompletesOnly(w, plan, NoSession)
  BY SameCheckouts
<1>5. AppliesPlan(w, plan, base, code, NoSession)
  BY <1>1 DEF AppliesPlan
<1> QED BY <1>1, <1>2, <1>3, <1>4, <1>5, PlanBooks

LEMMA ActivateBooks ==
  ASSUME BooksInv, NEW person, NEW w \in Workspaces, NEW plan \in Plans,
         NEW code \in Codes \cup {NoCode}, Activate(person, w, plan, code)
  PROVE  BooksInv'
<1>1. PICK base \in Bases(w, plan) :
       \/ code = NoCode /\ Activates(w, plan, Billed(base, 0), NoCode, NoSession) /\ UNCHANGED coupons
       \/ \E i \in Consumable(code, w) :
            /\ Activates(w, plan, Billed(base, coupons[i].discount), code, NoSession)
            /\ coupons' = Consumed(i)
  BY DEF Activate
<1>2. base \in Nat
  BY BasesType DEF BooksInv
<1>3. UNCHANGED <<redemptions, checkouts, stripe, requests>>
  BY DEF Activate
<1> QED BY <1>1, <1>2, <1>3, PlanAloneBooks

LEMMA ClaimLicenceBooks ==
  ASSUME BooksInv, NEW w \in Workspaces, NEW l \in Licences, ClaimLicence(w, l)
  PROVE  BooksInv'
<1>1. Licence[l] \in Plans
  BY BillingAssumption DEF Licences
<1>2. redemptions' \in [Licences -> Workspaces \cup {NoWorkspace}]
  BY DEF BooksInv, TypeOK, ClaimLicence
<1>3. Activates(w, Licence[l], 0, NoCode, NoSession) /\ UNCHANGED <<coupons, checkouts, stripe, requests>>
  BY DEF ClaimLicence
<1>4. TableKept
  BY <1>3, SameTable DEF BooksInv
<1>5. CallsType' /\ RequestsKnown'
  BY <1>3, SameCalls
<1> QED BY <1>1, <1>2, <1>3, <1>4, <1>5, SameCheckouts, PlanInvoiced

LEMMA CreateCheckoutBooks ==
  ASSUME BooksInv, NEW r \in Slots, NEW person, NEW w \in Workspaces, NEW plan \in Plans,
         NEW code \in Codes \cup {NoCode}, CreateCheckout(r, person, w, plan, code)
  PROVE  BooksInv'
<1> DEFINE quotes(base) ==
      IF Best(code, w) = {} THEN {Quote(w, plan, base, 0, NoCode)}
      ELSE {Quote(w, plan, base, coupons[i].discount, code) : i \in Best(code, w)}
<1>0. PICK base \in Bases(w, plan) : \E quote \in quotes(base) :
         \/ /\ quote.amount > 0
            /\ Goes(r, [at |-> "create", quote |-> quote])
            /\ UNCHANGED billing
         \/ /\ quote.amount = 0 /\ quote.code = NoCode
            /\ Activates(w, plan, 0, NoCode, NoSession)
            /\ UNCHANGED <<coupons, redemptions, requests>>
         \/ /\ quote.amount = 0 /\ quote.code # NoCode
            /\ \E i \in Consumable(code, w) :
                 /\ Activates(w, plan, Billed(base, coupons[i].discount), code, NoSession)
                 /\ coupons' = Consumed(i)
            /\ UNCHANGED <<redemptions, requests>>
  BY DEF CreateCheckout
<1>1. PICK quote \in quotes(base) :
         \/ /\ quote.amount > 0
            /\ Goes(r, [at |-> "create", quote |-> quote])
            /\ UNCHANGED billing
         \/ /\ quote.amount = 0 /\ quote.code = NoCode
            /\ Activates(w, plan, 0, NoCode, NoSession)
            /\ UNCHANGED <<coupons, redemptions, requests>>
         \/ /\ quote.amount = 0 /\ quote.code # NoCode
            /\ \E i \in Consumable(code, w) :
                 /\ Activates(w, plan, Billed(base, coupons[i].discount), code, NoSession)
                 /\ coupons' = Consumed(i)
            /\ UNCHANGED <<redemptions, requests>>
  BY <1>0
<1>2. UNCHANGED <<checkouts, stripe>>
  BY DEF CreateCheckout
<1>3. base \in Nat
  BY <1>0, BasesType DEF BooksInv
<1>4. CASE Goes(r, [at |-> "create", quote |-> quote]) /\ UNCHANGED billing
  <2>1. quote \in Quotes
    BY <1>1, <1>3, QuoteTypes DEF BooksInv
  <2> DEFINE with == [at |-> "create", quote |-> quote]
  <2>2. with \in Requests /\ with.at = "create"
    BY <2>1 DEF Requests
  <2> HIDE DEF with
  <2>3. Goes(r, with)
    BY <1>4 DEF with
  <2>4. /\ DOMAIN stripe \subseteq DOMAIN stripe' /\ DOMAIN stripe' \subseteq Sessions
        /\ \A s \in DOMAIN stripe' : stripe'[s] \in [amount : Nat, paid : BOOLEAN]
    BY <1>2 DEF BooksInv, TypeOK
  <2>5. CallsType' /\ RequestsKnown'
    BY <1>2, <2>2, <2>3, <2>4, CallsGo
  <2>6. TableKept
    BY <1>4, SameTable DEF BooksInv, billing
  <2>7. UNCHANGED <<subscriptions, redemptions, invoices>>
    BY <1>4 DEF billing
  <2> QED BY <1>2, <2>5, <2>6, <2>7, NothingInvoiced
<1>5. CASE Activates(w, plan, 0, NoCode, NoSession) /\ UNCHANGED <<coupons, redemptions, requests>>
  <2>1. TableKept
    BY <1>5, SameTable DEF BooksInv
  <2>2. CallsType' /\ RequestsKnown'
    BY <1>2, <1>5, SameCalls
  <2>3. redemptions' \in [Licences -> Workspaces \cup {NoWorkspace}]
    BY <1>5 DEF BooksInv, TypeOK
  <2> QED BY <1>2, <1>5, <2>1, <2>2, <2>3, SameCheckouts, PlanInvoiced
<1>6. CASE /\ \E i \in Consumable(code, w) :
                /\ Activates(w, plan, Billed(base, coupons[i].discount), code, NoSession)
                /\ coupons' = Consumed(i)
           /\ UNCHANGED <<redemptions, requests>>
  BY <1>2, <1>3, <1>6, PlanAloneBooks
<1> QED BY <1>1, <1>4, <1>5, <1>6

LEMMA StripeOpensBooks ==
  ASSUME BooksInv, NEW r \in Slots, StripeOpens(r)
  PROVE  BooksInv'
<1> DEFINE quote == requests[r].quote
<1>1. requests[r].at = "create" /\ UNCHANGED <<billing, checkouts>>
  BY DEF StripeOpens
<1>2. PICK session \in Sessions \ DOMAIN stripe :
       /\ stripe' = [s \in DOMAIN stripe \cup {session} |->
                       IF s = session THEN [amount |-> quote.amount, paid |-> FALSE]
                       ELSE stripe[s]]
       /\ Goes(r, [at |-> "record", quote |-> quote, session |-> session])
  BY DEF StripeOpens
<1>3. requests[r] \in Requests
  BY DEF BooksInv, TypeOK
<1>4. quote \in Quotes /\ quote.amount \in Nat
  BY <1>1, <1>3, RequestTypes DEF Quotes
<1> DEFINE with == [at |-> "record", quote |-> quote, session |-> session]
<1>5. with \in Requests /\ with.at = "record" /\ with.session = session
  BY <1>4 DEF Requests
<1>6. Goes(r, with)
  BY <1>2
<1> HIDE DEF with, quote
<1>7. /\ DOMAIN stripe \subseteq DOMAIN stripe' /\ DOMAIN stripe' \subseteq Sessions
      /\ session \in DOMAIN stripe'
      /\ \A s \in DOMAIN stripe' : stripe'[s] \in [amount : Nat, paid : BOOLEAN]
  BY <1>2, <1>4 DEF BooksInv, TypeOK
<1>8. CallsType' /\ RequestsKnown'
  BY <1>1, <1>5, <1>6, <1>7, CallsGo
<1>9. TableKept /\ UNCHANGED <<subscriptions, redemptions, invoices>>
  BY <1>1, SameTable DEF BooksInv, billing
<1> QED BY <1>1, <1>8, <1>9, NothingInvoiced

LEMMA RecordCheckoutBooks ==
  ASSUME BooksInv, NEW r \in Slots, RecordCheckout(r)
  PROVE  BooksInv'
<1> DEFINE session == requests[r].session
           quote == requests[r].quote
<1>1. /\ requests[r].at = "record" /\ Goes(r, Idle) /\ UNCHANGED <<billing, stripe>>
      /\ checkouts' = [s \in DOMAIN checkouts \cup {session} |->
                         IF s = session THEN [quote |-> quote, completed |-> FALSE] ELSE checkouts[s]]
  BY DEF RecordCheckout
<1>2. requests[r] \in Requests
  BY DEF BooksInv, TypeOK
<1>3. quote \in Quotes /\ session \in DOMAIN stripe
  BY <1>1, <1>2, RequestTypes DEF BooksInv, RequestsKnown
<1>4. \A q \in Slots : requests'[q] = IF q = r THEN Idle ELSE requests[q]
  BY <1>1 DEF Goes, BooksInv, TypeOK
<1>5. requests' \in [Slots -> Requests]
  BY <1>1, IdleType DEF Goes, BooksInv, TypeOK
<1> HIDE DEF session, quote
<1>6. [quote |-> quote, completed |-> FALSE] \in Checkouts
  BY <1>3 DEF Checkouts
<1>7. DOMAIN checkouts' = DOMAIN checkouts \cup {session}
      /\ \A s \in DOMAIN checkouts' : checkouts'[s] = IF s = session THEN [quote |-> quote, completed |-> FALSE]
                                                      ELSE checkouts[s]
  BY <1>1
<1>8. CallsType'
  BY <1>1, <1>3, <1>5, <1>6, <1>7 DEF CallsType, BooksInv, TypeOK
<1>9. RequestsKnown'
  <2> SUFFICES ASSUME NEW q \in Slots
               PROVE  /\ requests'[q].at = "record" => requests'[q].session \in DOMAIN stripe'
                      /\ requests'[q].at = "confirm" => requests'[q].session \in DOMAIN checkouts'
    BY DEF RequestsKnown
  <2>1. CASE q = r
    BY <1>4, <2>1, IdleType
  <2>2. CASE q # r
    <3>1. requests'[q] = requests[q]
      BY <1>4, <2>2
    <3> QED BY <1>1, <1>7, <3>1 DEF BooksInv, RequestsKnown
  <2> QED BY <2>1, <2>2
<1>10. \A s \in DOMAIN checkouts' :
         checkouts'[s].completed => s \in DOMAIN checkouts /\ checkouts'[s] = checkouts[s]
  BY <1>7
<1>11. TableKept /\ UNCHANGED <<subscriptions, redemptions, invoices>>
  BY <1>1, SameTable DEF BooksInv, billing
<1> QED BY <1>8, <1>9, <1>10, <1>11, NothingInvoiced

LEMMA PayBooks ==
  ASSUME BooksInv, NEW session \in Sessions, Pay(session)
  PROVE  BooksInv'
<1>1. /\ session \in DOMAIN checkouts /\ stripe' = [stripe EXCEPT ![session].paid = TRUE]
      /\ UNCHANGED <<billing, checkouts, requests>>
  BY DEF Pay
<1>2. session \in DOMAIN stripe /\ \A s \in DOMAIN stripe : stripe[s] \in [amount : Nat, paid : BOOLEAN]
  BY <1>1 DEF BooksInv, TypeOK
<1>3. DOMAIN stripe' = DOMAIN stripe
      /\ \A s \in DOMAIN stripe' : stripe'[s] \in [amount : Nat, paid : BOOLEAN]
  BY <1>1, <1>2
<1>4. CallsType' /\ RequestsKnown'
  BY <1>1, <1>3 DEF CallsType, RequestsKnown, BooksInv, TypeOK
<1>5. TableKept /\ UNCHANGED <<subscriptions, redemptions, invoices>>
  BY <1>1, SameTable DEF BooksInv, billing
<1> QED BY <1>1, <1>4, <1>5, NothingInvoiced

LEMMA ConfirmCheckoutBooks ==
  ASSUME BooksInv, NEW r \in Slots, NEW session \in Sessions, ConfirmCheckout(r, session)
  PROVE  BooksInv'
<1> DEFINE with == [at |-> "confirm", session |-> session]
<1>1. session \in DOMAIN checkouts /\ Goes(r, with) /\ UNCHANGED <<billing, checkouts, stripe>>
  BY DEF ConfirmCheckout
<1>2. with \in Requests /\ with.at = "confirm" /\ with.session = session
  BY DEF Requests
<1> HIDE DEF with
<1>3. /\ DOMAIN stripe' \subseteq Sessions
      /\ \A s \in DOMAIN stripe' : stripe'[s] \in [amount : Nat, paid : BOOLEAN]
  BY <1>1 DEF BooksInv, TypeOK
<1>4. CallsType' /\ RequestsKnown'
  BY <1>1, <1>2, <1>3, CallsGo
<1>5. TableKept /\ UNCHANGED <<subscriptions, redemptions, invoices>>
  BY <1>1, SameTable DEF BooksInv, billing
<1> QED BY <1>1, <1>4, <1>5, NothingInvoiced

LEMMA RequestFailsBooks ==
  ASSUME BooksInv, NEW r \in Slots, RequestFails(r)
  PROVE  BooksInv'
<1>1. Goes(r, Idle) /\ UNCHANGED <<billing, checkouts, stripe>>
  BY DEF RequestFails
<1>2. /\ DOMAIN stripe' \subseteq Sessions
      /\ \A s \in DOMAIN stripe' : stripe'[s] \in [amount : Nat, paid : BOOLEAN]
  BY <1>1 DEF BooksInv, TypeOK
<1>3. CallsType' /\ RequestsKnown'
  BY <1>1, <1>2, IdleType, CallsGo
<1>4. TableKept /\ UNCHANGED <<subscriptions, redemptions, invoices>>
  BY <1>1, SameTable DEF BooksInv, billing
<1> QED BY <1>1, <1>3, <1>4, NothingInvoiced

\* The row of a coupon may be read before that of an older one.
LEMMA RestartBooks ==
  ASSUME BooksInv, Restart
  PROVE  BooksInv'
<1>1. /\ requests' = [r \in Slots |-> Idle]
      /\ UNCHANGED <<subscriptions, redemptions, invoices, checkouts, stripe>>
  BY DEF Restart
<1>2. requests' \in [Slots -> Requests] /\ \A r \in Slots : requests'[r].at = "idle"
  BY <1>1, IdleType
<1>3. CallsType' /\ RequestsKnown'
  BY <1>1, <1>2 DEF BooksInv, TypeOK, CallsType, RequestsKnown
<1>4. TableKept
  <2>1. CASE UNCHANGED coupons
    BY <2>1, SameTable DEF BooksInv
  <2>2. ASSUME NEW i \in DOMAIN coupons, NEW j \in DOMAIN coupons,
               coupons' = [coupons EXCEPT ![i] = coupons[j], ![j] = coupons[i]]
        PROVE  TableKept
    <3>1. coupons \in Seq(Coupons) /\ coupons[i] \in Coupons /\ coupons[j] \in Coupons
      BY CouponFields DEF BooksInv, TypeOK
    <3>2. /\ coupons' \in Seq(Coupons) /\ Len(coupons') = Len(coupons)
          /\ DOMAIN coupons' = DOMAIN coupons
      BY <2>2, <3>1
    <3>3. \A k \in DOMAIN coupons : coupons'[k] \in {coupons[k], coupons[i], coupons[j]}
      BY <2>2, <3>1
    <3>4. CouponsType'
      BY <3>2 DEF CouponsType, BooksInv, TypeOK
    <3>5. CapsKept'
      BY <3>2, <3>3 DEF CapsKept, BooksInv
    <3> QED BY <3>4, <3>5 DEF TableKept
  <2> QED BY <2>1, <2>2 DEF Restart
<1> QED BY <1>1, <1>3, <1>4, NothingInvoiced

\* completedAt is not looked at again, but what is completed has just been invoiced.
LEMMA ConfirmPaidBooks ==
  ASSUME BooksInv, NEW r \in Slots, ConfirmPaid(r),
         NEW session, session = requests[r].session,
         NEW quote, quote = checkouts[session].quote
  PROVE  BooksInv'
<1>1. /\ requests[r].at = "confirm" /\ checkouts' = Completed(session) /\ Goes(r, Idle)
      /\ UNCHANGED <<redemptions, stripe>>
      /\ \/ /\ quote.code = NoCode /\ UNCHANGED coupons
            /\ Activates(quote.workspace, quote.plan, Billed(quote.base, quote.discount), NoCode, session)
         \/ \E i \in Consumable(quote.code, quote.workspace) :
              /\ Activates(quote.workspace, quote.plan, Billed(quote.base, coupons[i].discount), quote.code, session)
              /\ coupons' = Consumed(i)
  BY DEF ConfirmPaid
<1>2. requests[r] \in Requests
  BY DEF BooksInv, TypeOK
<1>3. session \in Sessions /\ session \in DOMAIN checkouts
  BY <1>1, <1>2, RequestTypes DEF BooksInv, RequestsKnown
<1>4. checkouts[session] \in Checkouts
  BY <1>3 DEF BooksInv, TypeOK
<1>5. quote \in Quotes
  BY <1>4 DEF Checkouts
<1>6. /\ quote.workspace \in Workspaces /\ quote.plan \in Plans /\ quote.base \in Nat
      /\ quote.code \in Codes \cup {NoCode} /\ quote.discount \in {0} \cup Discounts
  BY <1>5 DEF Quotes
<1>7. quote.discount \in 0 .. 1000
  BY <1>6, DiscountType
<1>8. \A q \in Slots : requests'[q] = IF q = r THEN Idle ELSE requests[q]
  BY <1>1 DEF Goes, BooksInv, TypeOK
<1>9. requests' \in [Slots -> Requests]
  BY <1>1, IdleType DEF Goes, BooksInv, TypeOK
<1>10. DOMAIN checkouts' = DOMAIN checkouts
       /\ \A s \in DOMAIN checkouts : /\ checkouts'[s] \in Checkouts /\ checkouts'[s].quote = checkouts[s].quote
                                      /\ s # session => checkouts'[s] = checkouts[s]
  <2>1. checkouts' = [checkouts EXCEPT ![session].completed = TRUE]
    BY <1>1 DEF Completed
  <2>2. DOMAIN checkouts' = DOMAIN checkouts
        /\ \A s \in DOMAIN checkouts : s # session => checkouts'[s] = checkouts[s]
    BY <2>1
  <2>3. \A s \in DOMAIN checkouts : checkouts[s] \in Checkouts
    BY DEF BooksInv, TypeOK
  <2>4. checkouts'[session].quote = quote /\ checkouts'[session] \in Checkouts
    BY <1>3, <2>1, <2>3 DEF Checkouts
  <2> QED BY <2>2, <2>3, <2>4
<1>11. CallsType'
  BY <1>1, <1>9, <1>10 DEF CallsType, BooksInv, TypeOK
<1>12. RequestsKnown'
  <2> SUFFICES ASSUME NEW q \in Slots
               PROVE  /\ requests'[q].at = "record" => requests'[q].session \in DOMAIN stripe
                      /\ requests'[q].at = "confirm" => requests'[q].session \in DOMAIN checkouts
    BY <1>1, <1>10 DEF RequestsKnown
  <2>1. CASE q = r
    BY <1>8, <2>1, IdleType
  <2>2. CASE q # r
    <3>1. requests'[q] = requests[q]
      BY <1>8, <2>2
    <3> QED BY <3>1 DEF BooksInv, RequestsKnown
  <2> QED BY <2>1, <2>2
<1>13. CompletesOnly(quote.workspace, quote.plan, session)
  BY <1>10 DEF CompletesOnly
<1>14. AppliesPlan(quote.workspace, quote.plan, quote.base, quote.code, session)
  BY <1>1, <1>7 DEF AppliesPlan
<1>15. redemptions' = redemptions /\ session \in Sessions \cup {NoSession}
  BY <1>1, <1>3
<1> QED BY <1>6, <1>11, <1>12, <1>13, <1>14, <1>15, PlanBooks

LEMMA InitBooks == Init => BooksInv
<1> SUFFICES ASSUME Init PROVE BooksInv
  OBVIOUS
<1>1. TypeOK
  BY InitIInv DEF IInv
<1>2. /\ coupons = <<>> /\ invoices = <<>> /\ checkouts = <<>>
      /\ subscriptions = [w \in Workspaces |-> 0] /\ requests = [r \in Slots |-> Idle]
  BY DEF Init
<1>3. RequestsKnown
  BY <1>2, IdleType DEF RequestsKnown
<1>4. CapsKept /\ PlanOfLast /\ CompletedIsInvoiced
  BY <1>2 DEF CapsKept, PlanOfLast, CompletedIsInvoiced
<1> QED BY <1>1, <1>3, <1>4 DEF BooksInv

LEMMA NextBooks ==
  ASSUME BooksInv, [Next]_vars
  PROVE  BooksInv'
<1>1. ASSUME NEW code \in Codes, NEW discount \in Discounts, NEW cap \in Caps,
             NEW allowed \in Allowlists, CreateCoupon(NewCoupon(code, discount, cap, allowed))
      PROVE  BooksInv'
  BY <1>1, CreateCouponBooks
<1>2. ASSUME NEW i \in 1 .. MaxCoupons, RevokeCoupon(i) \/ CouponExpires(i)
      PROVE  BooksInv'
  BY <1>2, MarkCouponBooks
<1>3. ASSUME NEW m \in Managers
      PROVE  m[2] \in Workspaces
  BY BillingAssumption
<1>4. ASSUME NEW m \in Managers, NEW plan \in Plans, NEW code \in Codes \cup {NoCode},
             Activate(m[1], m[2], plan, code)
      PROVE  BooksInv'
  BY <1>3, <1>4, ActivateBooks
<1>5. ASSUME NEW m \in Managers, NEW plan \in Plans, NEW code \in Codes \cup {NoCode},
             NEW r \in Slots, CreateCheckout(r, m[1], m[2], plan, code)
      PROVE  BooksInv'
  BY <1>3, <1>5, CreateCheckoutBooks
<1>6. ASSUME NEW m \in Managers, NEW l \in Licences, ClaimLicence(m[2], l)
      PROVE  BooksInv'
  BY <1>3, <1>6, ClaimLicenceBooks
<1>7. ASSUME NEW r \in Slots, StripeOpens(r)
      PROVE  BooksInv'
  BY <1>7, StripeOpensBooks
<1>8. ASSUME NEW r \in Slots, RecordCheckout(r)
      PROVE  BooksInv'
  BY <1>8, RecordCheckoutBooks
<1>9. ASSUME NEW r \in Slots, ConfirmPaid(r)
      PROVE  BooksInv'
  BY <1>9, ConfirmPaidBooks
<1>10. ASSUME NEW r \in Slots, RequestFails(r)
       PROVE  BooksInv'
  BY <1>10, RequestFailsBooks
<1>11. ASSUME NEW r \in Slots, NEW session \in Sessions, ConfirmCheckout(r, session)
       PROVE  BooksInv'
  BY <1>11, ConfirmCheckoutBooks
<1>12. ASSUME NEW session \in Sessions, Pay(session)
       PROVE  BooksInv'
  BY <1>12, PayBooks
<1>13. CASE Restart
  BY <1>13, RestartBooks
<1>14. CASE UNCHANGED vars
  <2>1. UNCHANGED <<subscriptions, redemptions, invoices, checkouts, stripe, requests>> /\ UNCHANGED coupons
    BY <1>14 DEF vars
  <2>2. TableKept
    BY <2>1, SameTable DEF BooksInv
  <2> QED BY <2>1, <2>2, TableStep
<1> QED BY <1>1, <1>2, <1>4, <1>5, <1>6, <1>7, <1>8, <1>9, <1>10, <1>11, <1>12, <1>13, <1>14 DEF Next

\* In whatever order the coupons are loaded and however Stripe's calls overlap, tables and
\* requests keep their types, coupons their caps, and plans and completed checkouts their invoices.
THEOREM Books == Spec => []BooksInv
<1>1. BooksInv /\ [Next]_vars => BooksInv'
  BY NextBooks
<1> QED BY InitBooks, <1>1, PTL DEF Spec

\* Types are kept: the shape of every table, request and checkout.
THEOREM BillingTypeCorrect == Spec => []TypeOK
<1>1. BooksInv => TypeOK
  BY DEF BooksInv
<1> QED BY <1>1, Books, PTL

\* No coupon is redeemed beyond its cap, although a checkout is quoted long before its
\* coupon is redeemed and other requests redeem it in between (CapsKept of CouponsAccounted).
THEOREM CapsAreKept == Spec => []CapsKept
<1>1. BooksInv => CapsKept
  BY DEF BooksInv
<1> QED BY <1>1, Books, PTL

\* A workspace has the plan of its last invoice, whichever way to a plan its requests
\* took and however they overlapped (SubscriptionIsInvoiced).
THEOREM PlansAreInvoiced == Spec => []SubscriptionIsInvoiced
<1>1. ASSUME BooksInv
      PROVE  SubscriptionIsInvoiced
  <2> SUFFICES ASSUME NEW w \in Workspaces
               PROVE  LET of == {i \in DOMAIN invoices : invoices[i].workspace = w}
                      IN IF of = {} THEN subscriptions[w] = 0
                         ELSE subscriptions[w] = invoices[CHOOSE i \in of : \A j \in of : j <= i].plan
    BY DEF SubscriptionIsInvoiced
  <2> DEFINE of == {i \in DOMAIN invoices : invoices[i].workspace = w}
  <2>1. of \subseteq Nat
    <3>1. invoices \in Seq(Invoices)
      BY <1>1 DEF BooksInv, TypeOK
    <3> QED BY <3>1
  <2>2. CASE subscriptions[w] = 0 /\ \A i \in DOMAIN invoices : invoices[i].workspace # w
    BY <2>2
  <2>3. ASSUME NEW i \in of, invoices[i].plan = subscriptions[w], \A j \in of : j <= i
        PROVE  subscriptions[w] = invoices[CHOOSE k \in of : \A j \in of : j <= k].plan
    <3> HIDE DEF of
    <3> DEFINE k == CHOOSE k \in of : \A j \in of : j <= k
    <3>1. k \in of /\ \A j \in of : j <= k
      BY <2>3
    <3> HIDE DEF k
    <3>2. k <= i /\ i <= k /\ k \in Nat /\ i \in Nat
      BY <2>1, <2>3, <3>1
    <3>3. k = i
      BY <3>2
    <3> QED BY <2>3, <3>3 DEF k
  <2> QED BY <1>1, <2>2, <2>3 DEF BooksInv, PlanOfLast
<1> QED BY <1>1, Books, PTL

\* A checkout is only completed together with its plan: what it was paid for is on an
\* invoice of its workspace (CompletedIsInvoiced).
THEOREM CompletedAreInvoiced == Spec => []CompletedIsInvoiced
<1>1. BooksInv => CompletedIsInvoiced
  BY DEF BooksInv
<1> QED BY <1>1, Books, PTL

-----------------------------------------------------------------------------
(* The accounts of coupons.  Redemptions and invoices are counted, each    *)
(* redemption of a coupon as a pair of its own.                            *)

Accounts ==
  \A code \in Codes :
    /\ IsFiniteSet(RedeemedOf(code)) /\ IsFiniteSet(InvoicesOf(code))
    /\ Cardinality(RedeemedOf(code)) = Cardinality(InvoicesOf(code))

LEMMA RedeemedPairs ==
  ASSUME NEW code, NEW x
  PROVE  /\ x \in RedeemedOf(code) <=>
              \E i \in Of(code) : \E n \in 1 .. coupons[i].redeemed : x = <<i, n>>
         /\ x \in RedeemedOf(code)' <=>
              \E i \in Of(code)' : \E n \in 1 .. coupons'[i].redeemed : x = <<i, n>>
  BY DEF RedeemedOf

\* A coupon that is redeemed has one redemption more, of its own code.
LEMMA Redeems ==
  ASSUME TypeOK, NEW code, NEW w, NEW i \in Consumable(code, w), coupons' = Consumed(i)
  PROVE  LET pair == <<i, coupons[i].redeemed + 1>>
         IN  /\ RedeemedOf(code)' = RedeemedOf(code) \cup {pair} /\ pair \notin RedeemedOf(code)
             /\ \A other : other # code => RedeemedOf(other)' = RedeemedOf(other)
<1> DEFINE pair == <<i, coupons[i].redeemed + 1>>
<1>1. i \in DOMAIN coupons /\ coupons[i].code = code
  BY DEF Consumable, Of
<1>2. coupons \in Seq(Coupons) /\ coupons[i] \in Coupons /\ coupons[i].redeemed \in Nat
  BY <1>1, CouponFields DEF TypeOK, Coupons
<1>3. /\ DOMAIN coupons' = DOMAIN coupons
      /\ coupons'[i].code = code /\ coupons'[i].redeemed = coupons[i].redeemed + 1
      /\ \A j \in DOMAIN coupons : j # i => coupons'[j] = coupons[j]
  BY <1>1, <1>2 DEF Consumed, Coupons
<1>4. \A c : Of(c)' = Of(c)
  BY <1>1, <1>3 DEF Of
<1>5. ASSUME NEW x PROVE x \in RedeemedOf(code)' <=> x \in RedeemedOf(code) \/ x = pair
  <2>1. x \in RedeemedOf(code)' <=>
          \E j \in Of(code) : \E n \in 1 .. coupons'[j].redeemed : x = <<j, n>>
    BY <1>4 DEF RedeemedOf
  <2>2. 1 .. coupons'[i].redeemed = (1 .. coupons[i].redeemed) \cup {coupons[i].redeemed + 1}
    BY <1>2, <1>3
  <2>3. i \in Of(code) /\ \A j \in Of(code) : j # i => coupons'[j] = coupons[j]
    BY <1>1, <1>3 DEF Of
  <2> QED BY <2>1, <2>2, <2>3, RedeemedPairs
<1>6. pair \notin RedeemedOf(code)
  <2>1. coupons[i].redeemed + 1 \notin 1 .. coupons[i].redeemed
    BY <1>2
  <2> QED BY <2>1, RedeemedPairs
<1>7. ASSUME NEW other, other # code PROVE RedeemedOf(other)' = RedeemedOf(other)
  <2>1. \A j \in Of(other) : coupons'[j] = coupons[j]
    BY <1>1, <1>3, <1>7 DEF Of
  <2> QED BY <1>4, <2>1 DEF RedeemedOf
<1> QED BY <1>5, <1>6, <1>7

\* An invoice that is written is one more of its code.
LEMMA Writes ==
  ASSUME TypeOK, NEW new, invoices' = Append(invoices, new)
  PROVE  LET last == Len(invoices) + 1
         IN  /\ InvoicesOf(new.code)' = InvoicesOf(new.code) \cup {last}
             /\ last \notin InvoicesOf(new.code)
             /\ \A code : code # new.code => InvoicesOf(code)' = InvoicesOf(code)
<1> DEFINE last == Len(invoices) + 1
<1>1. invoices \in Seq(Invoices)
  BY DEF TypeOK
<1>2. /\ DOMAIN invoices' = DOMAIN invoices \cup {last} /\ last \notin DOMAIN invoices
      /\ invoices'[last] = new /\ \A i \in DOMAIN invoices : invoices'[i] = invoices[i]
  BY <1>1
<1> QED BY <1>2 DEF InvoicesOf

Traded(i, j) == coupons' = [coupons EXCEPT ![i] = coupons[j], ![j] = coupons[i]]

\* Coupons that trade places have as many redemptions as before.
LEMMA Exchanges ==
  ASSUME TypeOK, NEW a \in DOMAIN coupons, NEW b \in DOMAIN coupons, Traded(a, b), NEW code
  PROVE  ExistsBijection(RedeemedOf(code), RedeemedOf(code)')
<1> DEFINE place(k) == IF k = a THEN b ELSE IF k = b THEN a ELSE k
           Here == RedeemedOf(code)
           There == RedeemedOf(code)'
           move == [x \in Here |-> <<place(x[1]), x[2]>>]
<1>1. /\ DOMAIN coupons' = DOMAIN coupons
      /\ \A k \in DOMAIN coupons : place(k) \in DOMAIN coupons /\ coupons'[place(k)] = coupons[k]
      /\ \A k \in DOMAIN coupons : coupons[place(k)] = coupons'[k]
      /\ \A k : place(place(k)) = k
  <2>1. coupons \in Seq(Coupons)
    BY DEF TypeOK
  <2> QED BY <2>1 DEF Traded
<1> HIDE DEF place
<1>2. \A k : (k \in Of(code) <=> place(k) \in Of(code)')
  BY <1>1 DEF Of
<1>3. \A x : x \in Here <=> \E k \in Of(code) : \E n \in 1 .. coupons[k].redeemed : x = <<k, n>>
  BY RedeemedPairs
<1>4. ASSUME NEW x
      PROVE  x \in There <=> \E k \in Of(code)' : \E n \in 1 .. coupons'[k].redeemed : x = <<k, n>>
  BY RedeemedPairs
<1>5. \A k \in Of(code) : coupons'[place(k)] = coupons[k]
  BY <1>1 DEF Of
<1> HIDE DEF Here, There
<1>6. ASSUME NEW x \in Here
      PROVE  x = <<x[1], x[2]>> /\ move[x] = <<place(x[1]), x[2]>> /\ move[x] \in There
  <2>0. PICK k \in Of(code) : \E n \in 1 .. coupons[k].redeemed : x = <<k, n>>
    BY <1>3
  <2>1. PICK n \in 1 .. coupons[k].redeemed : x = <<k, n>>
    BY <2>0
  <2>2. x[1] = k /\ x[2] = n /\ move[x] = <<place(x[1]), x[2]>>
    BY <2>1
  <2>3. place(k) \in Of(code)' /\ n \in 1 .. coupons'[place(k)].redeemed
    BY <1>2, <1>5
  <2>4. <<place(k), n>> \in There
    BY <1>4, <2>3
  <2> QED BY <2>1, <2>2, <2>4
<1>7. \A x, y \in Here : move[x] = move[y] => x = y
  <2> SUFFICES ASSUME NEW x \in Here, NEW y \in Here, move[x] = move[y] PROVE x = y
    OBVIOUS
  <2>1. /\ x = <<x[1], x[2]>> /\ move[x] = <<place(x[1]), x[2]>>
        /\ y = <<y[1], y[2]>> /\ move[y] = <<place(y[1]), y[2]>>
    BY <1>6
  <2> HIDE DEF move
  <2>2. <<place(x[1]), x[2]>> = <<place(y[1]), y[2]>>
    BY <2>1
  <2>3. place(x[1]) = place(y[1]) /\ x[2] = y[2]
    BY <2>2
  <2>4. x[1] = y[1]
    BY <1>1, <2>3
  <2> QED BY <2>1, <2>3, <2>4
<1>8. \A y \in There : \E x \in Here : move[x] = y
  <2> SUFFICES ASSUME NEW y \in There PROVE \E x \in Here : move[x] = y
    OBVIOUS
  <2>1. PICK k \in Of(code)' : \E n \in 1 .. coupons'[k].redeemed : y = <<k, n>>
    BY <1>4
  <2>2. PICK n \in 1 .. coupons'[k].redeemed : y = <<k, n>>
    BY <2>1
  <2>3. place(k) \in Of(code)
    BY <1>1, <1>2
  <2>4. coupons[place(k)] = coupons'[k]
    BY <1>1, <1>5, <2>3
  <2>5. <<place(k), n>> \in Here
    BY <1>3, <2>2, <2>3, <2>4
  <2>6. move[<<place(k), n>>] = <<place(place(k)), n>>
    BY <2>5
  <2>7. move[<<place(k), n>>] = y
    BY <1>1, <2>2, <2>6
  <2> QED BY <2>5, <2>7
<1>9. move \in Bijection(Here, There)
  BY <1>6, <1>7, <1>8 DEF Bijection, Injection, Surjection, IsInjective
<1> QED BY <1>9 DEF ExistsBijection, Here, There

\* What a step does to the coupons and the invoices.
LEMMA BookSteps ==
  ASSUME [Next]_vars
  PROVE  \/ /\ invoices' = invoices
            /\ \/ coupons' = coupons
               \/ \E code \in Codes, discount \in Discounts, cap \in Caps, allowed \in Allowlists :
                    coupons' = Append(coupons, NewCoupon(code, discount, cap, allowed))
               \/ \E i \in DOMAIN coupons : \/ coupons' = [coupons EXCEPT ![i].revoked = TRUE]
                                          \/ coupons' = [coupons EXCEPT ![i].expired = TRUE]
               \/ \E i, j \in DOMAIN coupons : Traded(i, j)
         \/ \E new : new.code = NoCode /\ invoices' = Append(invoices, new) /\ coupons' = coupons
         \/ \E code, w, new : \E i \in Consumable(code, w) :
              new.code = code /\ invoices' = Append(invoices, new) /\ coupons' = Consumed(i)
<1> DEFINE Rests == invoices' = invoices /\ coupons' = coupons
           Free == \E new : new.code = NoCode /\ invoices' = Append(invoices, new) /\ coupons' = coupons
           Paid == \E code, w, new : \E i \in Consumable(code, w) :
                     new.code = code /\ invoices' = Append(invoices, new) /\ coupons' = Consumed(i)
<1>1. ASSUME NEW w, NEW plan, NEW amount, NEW code, NEW session, Activates(w, plan, amount, code, session)
      PROVE  \E new : new.code = code /\ invoices' = Append(invoices, new)
  BY <1>1 DEF Activates, Invoiced
<1>2. ASSUME NEW person, NEW w, NEW plan, NEW code, Activate(person, w, plan, code)
      PROVE  Free \/ Paid
  BY <1>1, <1>2 DEF Activate
<1>3. ASSUME NEW w, NEW l, ClaimLicence(w, l) PROVE Free
  BY <1>1, <1>3 DEF ClaimLicence
<1>4. ASSUME NEW r, NEW person, NEW w, NEW plan, NEW code, CreateCheckout(r, person, w, plan, code)
      PROVE  Rests \/ Free \/ Paid
  BY <1>1, <1>4 DEF CreateCheckout, billing
<1>5. ASSUME NEW r, ConfirmPaid(r) PROVE Free \/ Paid
  BY <1>1, <1>5 DEF ConfirmPaid
<1>6. ASSUME NEW r, StripeOpens(r) \/ RecordCheckout(r) \/ RequestFails(r) PROVE Rests
  BY <1>6 DEF StripeOpens, RecordCheckout, RequestFails, billing
<1>7. ASSUME NEW session, Pay(session) \/ \E r \in Slots : ConfirmCheckout(r, session) PROVE Rests
  BY <1>7 DEF Pay, ConfirmCheckout, billing
<1>8. UNCHANGED vars => Rests
  BY DEF vars
<1> HIDE DEF Rests, Free, Paid
<1>9. CASE Rests \/ Free \/ Paid
  BY <1>9 DEF Rests, Free, Paid
<1>10. CASE \E code \in Codes, discount \in Discounts, cap \in Caps, allowed \in Allowlists :
             CreateCoupon(NewCoupon(code, discount, cap, allowed))
  BY <1>10 DEF CreateCoupon
<1>11. CASE \E i \in 1 .. MaxCoupons : RevokeCoupon(i) \/ CouponExpires(i)
  BY <1>11 DEF RevokeCoupon, CouponExpires
<1>12. CASE Restart
  BY <1>12 DEF Restart, Traded
<1> QED BY <1>2, <1>3, <1>4, <1>5, <1>6, <1>7, <1>8, <1>9, <1>10, <1>11, <1>12 DEF Next

LEMMA NextAccounts ==
  ASSUME TypeOK, Accounts, [Next]_vars
  PROVE  Accounts'
<1>0. coupons \in Seq(Coupons)
  BY DEF TypeOK
<1>1. ASSUME invoices' = invoices,
             \A code \in Codes : \/ RedeemedOf(code)' = RedeemedOf(code)
                                \/ ExistsBijection(RedeemedOf(code), RedeemedOf(code)')
      PROVE  Accounts'
  <2>1. \A code : InvoicesOf(code)' = InvoicesOf(code)
    BY <1>1 DEF InvoicesOf
  <2>2. \A code \in Codes : /\ IsFiniteSet(RedeemedOf(code)')
                            /\ Cardinality(RedeemedOf(code)') = Cardinality(RedeemedOf(code))
    BY <1>1, FS_Bijection DEF Accounts
  <2> QED BY <2>1, <2>2 DEF Accounts
<1>2. CASE UNCHANGED <<invoices, coupons>>
  BY <1>1, <1>2 DEF RedeemedOf, Of
<1>3. ASSUME NEW code \in Codes, NEW discount \in Discounts, NEW cap \in Caps, NEW allowed \in Allowlists,
             coupons' = Append(coupons, NewCoupon(code, discount, cap, allowed)), invoices' = invoices
      PROVE  Accounts'
  <2> DEFINE last == Len(coupons) + 1
  <2>1. /\ DOMAIN coupons' = DOMAIN coupons \cup {last} /\ last \notin DOMAIN coupons
        /\ coupons'[last] = NewCoupon(code, discount, cap, allowed)
        /\ \A i \in DOMAIN coupons : coupons'[i] = coupons[i]
    BY <1>0, <1>3
  <2>2. coupons'[last].redeemed = 0
    BY <2>1 DEF NewCoupon
  <2>3. ASSUME NEW other, NEW x PROVE x \in RedeemedOf(other)' <=> x \in RedeemedOf(other)
    <3>1. x \in RedeemedOf(other)' <=>
            \E i \in Of(other)' : \E n \in 1 .. coupons'[i].redeemed : x = <<i, n>>
      BY DEF RedeemedOf
    <3>2. Of(other) \subseteq Of(other)' /\ Of(other)' \subseteq Of(other) \cup {last}
      BY <2>1 DEF Of
    <3>3. 1 .. coupons'[last].redeemed = {}
      BY <2>2
    <3>4. \A i \in Of(other) : coupons'[i] = coupons[i]
      BY <2>1 DEF Of
    <3>5. CASE x \in RedeemedOf(other)
      <4>1. PICK i \in Of(other) : \E n \in 1 .. coupons[i].redeemed : x = <<i, n>>
        BY <3>5, RedeemedPairs
      <4>2. i \in Of(other)' /\ coupons'[i] = coupons[i]
        BY <3>2, <3>4
      <4> QED BY <3>1, <3>5, <4>1, <4>2
    <3>6. CASE x \in RedeemedOf(other)'
      <4>1. PICK i \in Of(other)' : \E n \in 1 .. coupons'[i].redeemed : x = <<i, n>>
        BY <3>1, <3>6
      <4>2. i \in Of(other)
        BY <3>2, <3>3, <4>1
      <4>3. coupons'[i] = coupons[i]
        BY <3>4, <4>2
      <4> QED BY <3>6, <4>1, <4>2, <4>3, RedeemedPairs
    <3> QED BY <3>5, <3>6
  <2>4. ASSUME NEW other PROVE RedeemedOf(other)' = RedeemedOf(other)
    <3>1. \A x : x \in RedeemedOf(other)' <=> x \in RedeemedOf(other)
      BY <2>3
    <3> QED BY <3>1
  <2> QED BY <1>1, <1>3, <2>4
<1>4. ASSUME NEW i \in DOMAIN coupons,
             \/ coupons' = [coupons EXCEPT ![i].revoked = TRUE]
             \/ coupons' = [coupons EXCEPT ![i].expired = TRUE],
             invoices' = invoices
      PROVE  Accounts'
  <2>1. coupons[i] \in Coupons
    BY CouponFields
  <2>2. /\ DOMAIN coupons' = DOMAIN coupons
        /\ \A k \in DOMAIN coupons : /\ coupons'[k].code = coupons[k].code
                                     /\ coupons'[k].redeemed = coupons[k].redeemed
    BY <1>0, <1>4, <2>1 DEF Coupons
  <2>3. \A code : RedeemedOf(code)' = RedeemedOf(code)
    BY <2>2 DEF RedeemedOf, Of
  <2> QED BY <1>1, <1>4, <2>3
<1>5. ASSUME NEW i \in DOMAIN coupons, NEW j \in DOMAIN coupons, invoices' = invoices, Traded(i, j)
      PROVE  Accounts'
  BY <1>1, <1>5, Exchanges
<1>6. ASSUME NEW new, new.code = NoCode, invoices' = Append(invoices, new), coupons' = coupons
      PROVE  Accounts'
  <2>1. \A code \in Codes : InvoicesOf(code)' = InvoicesOf(code)
    BY <1>6, Writes, BillingAssumption
  <2>2. \A code : RedeemedOf(code)' = RedeemedOf(code)
    BY <1>6 DEF RedeemedOf, Of
  <2> QED BY <2>1, <2>2 DEF Accounts
<1>7. ASSUME NEW code, NEW w, NEW new, NEW i \in Consumable(code, w),
             new.code = code, invoices' = Append(invoices, new), coupons' = Consumed(i)
      PROVE  Accounts'
  <2> SUFFICES ASSUME NEW c \in Codes
               PROVE  /\ IsFiniteSet(RedeemedOf(c)') /\ IsFiniteSet(InvoicesOf(c)')
                      /\ Cardinality(RedeemedOf(c)') = Cardinality(InvoicesOf(c)')
    BY DEF Accounts
  <2>0. /\ IsFiniteSet(RedeemedOf(c)) /\ IsFiniteSet(InvoicesOf(c))
        /\ Cardinality(RedeemedOf(c)) = Cardinality(InvoicesOf(c))
    BY DEF Accounts
  <2>1. CASE c = code
    <3> DEFINE pair == <<i, coupons[i].redeemed + 1>>
               last == Len(invoices) + 1
    <3>1. RedeemedOf(c)' = RedeemedOf(c) \cup {pair} /\ pair \notin RedeemedOf(c)
      BY <1>7, <2>1, Redeems
    <3>2. InvoicesOf(c)' = InvoicesOf(c) \cup {last} /\ last \notin InvoicesOf(c)
      BY <1>7, <2>1, Writes
    <3> HIDE DEF pair, last
    <3>3. IsFiniteSet(RedeemedOf(c)') /\ Cardinality(RedeemedOf(c)') = Cardinality(RedeemedOf(c)) + 1
      BY <2>0, <3>1, FS_AddElement
    <3>4. IsFiniteSet(InvoicesOf(c)') /\ Cardinality(InvoicesOf(c)') = Cardinality(InvoicesOf(c)) + 1
      BY <2>0, <3>2, FS_AddElement
    <3> QED BY <2>0, <3>3, <3>4
  <2>2. CASE c # code
    BY <1>7, <2>0, <2>2, Redeems, Writes
  <2> QED BY <2>1, <2>2
<1> QED BY <1>2, <1>3, <1>4, <1>5, <1>6, <1>7, BookSteps

\* Coupons are redeemed as often as invoices name their code and never beyond their cap,
\* whatever is quoted, confirmed, revoked, loaded in another order or lost in between.
THEOREM CouponsAreAccounted == Spec => []CouponsAccounted
<1>1. Init => Accounts
  <2> SUFFICES ASSUME Init, NEW code \in Codes
               PROVE  RedeemedOf(code) = {} /\ InvoicesOf(code) = {}
    BY FS_EmptySet DEF Accounts
  <2> QED BY DEF Init, RedeemedOf, InvoicesOf, Of
<1>2. BooksInv /\ Accounts /\ [Next]_vars => Accounts'
  BY NextAccounts DEF BooksInv
<1>3. BooksInv /\ Accounts => CouponsAccounted
  BY DEF BooksInv, Accounts, CouponsAccounted
<1> QED BY <1>1, <1>2, <1>3, Books, PTL DEF Spec
=============================================================================

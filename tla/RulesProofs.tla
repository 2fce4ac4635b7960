----------------------------- MODULE RulesProofs -----------------------------
(***************************************************************************)
(* The credit policy for every application and every instalment factor:    *)
(* what is offered fits the share of income (BurdenWithinShare), a         *)
(* counter-offer leaves no thousand rupees on the table (OfferIsMaximal)   *)
(* and barely passes the request (CounterOfferBarelyAbove), overstating    *)
(* the income gains nothing (OverstatingGainsNothing) and a better file    *)
(* gets no less (BetterFileNeverHurts).                                    *)
(*                                                                         *)
(* And what seeding promises for any number of customers, fields,          *)
(* overlapping runs, crashes and edits, and from any table an earlier      *)
(* deploy left.  A run commits what it made of the rows it read, so SInv   *)
(* relates what every run has read to what is stored now: rows and values  *)
(* never become unset again, and a customer that a run missed and another  *)
(* inserted came in with all the others.                                   *)
(***************************************************************************)
EXTENDS CreditPolicy, SeedCustomers, TLAPS
-----------------------------------------------------------------------------
(* The credit policy *)

\* Every outcome is that of the application under assessment.
PInv ==
  /\ application \in Files \cup {Pending}
  /\ outcome # Pending => application # Pending /\ outcome = Outcome(application)

LEMMA Invariance == Spec => []PInv
<1>1. Init => PInv
  BY DEF Init, PInv
<1>2. PInv /\ [Next]_vars => PInv'
  <2> SUFFICES ASSUME PInv, [Next]_vars PROVE PInv'
    OBVIOUS
  <2>1. ASSUME NEW a \in Applications, Receive(a) PROVE PInv'
    BY <2>1, PolicyAssumption DEF PInv, Receive
  <2>2. CASE Assess
    BY <2>2 DEF PInv, Assess
  <2>3. CASE Stored
    BY <2>3 DEF PInv, Stored
  <2>4. CASE UNCHANGED vars
    BY <2>4 DEF PInv, vars
  <2> QED
    BY <2>1, <2>2, <2>3, <2>4 DEF Next
<1> QED
  BY <1>1, <1>2, PTL DEF Spec
-----------------------------------------------------------------------------
(* Arithmetic *)

LEMMA DivMod ==
  ASSUME NEW n \in Int, NEW d \in Nat \ {0}
  PROVE  /\ (n \div d) \in Int /\ (n % d) \in Int
         /\ n = d * (n \div d) + (n % d)
         /\ 0 <= (n % d) /\ (n % d) < d
  OBVIOUS

LEMMA Thousands ==
  ASSUME NEW n \in Int
  PROVE  (n \div 1000) * 1000 <= n /\ n < (n \div 1000) * 1000 + 1000
  OBVIOUS

\* Rounding is off by half at most.
LEMMA RoundedBounds ==
  ASSUME NEW n \in Int, NEW d \in Nat \ {0}
  PROVE  /\ Rounded(n, d) \in Int
         /\ 2 * (d * Rounded(n, d)) <= 2 * n + d
         /\ 2 * n <= 2 * (d * Rounded(n, d)) + d
<1> DEFINE q == n \div d
           r == n % d
<1>1. q \in Int /\ r \in Int /\ n = d * q + r /\ 0 <= r /\ r < d
  BY DivMod
<1>2. \/ (Rounded(n, d) = q + 1 /\ d <= 2 * r)
      \/ (Rounded(n, d) = q /\ 2 * r <= d)
  BY <1>1 DEF Rounded
<1>3. d * (q + 1) = d * q + d /\ d * q \in Int
  BY <1>1
<1> HIDE DEF q, r
<1>4. CASE Rounded(n, d) = q + 1 /\ d <= 2 * r
  BY <1>1, <1>3, <1>4
<1>5. CASE Rounded(n, d) = q /\ 2 * r <= d
  BY <1>1, <1>3, <1>5
<1> QED
  BY <1>2, <1>4, <1>5

LEMMA Monotone ==
  ASSUME NEW k \in Nat, NEW x \in Int, NEW y \in Int, x <= y
  PROVE  k * x <= k * y
<1>1. y - x \in Nat /\ k * (y - x) \in Nat
  OBVIOUS
<1>2. k * (y - x) = k * y - k * x
  OBVIOUS
<1> QED
  BY <1>1, <1>2

LEMMA Cancel ==
  ASSUME NEW d \in Nat \ {0}, NEW x \in Int, NEW y \in Int, d * x <= d * y
  PROVE  x <= y
<1> SUFFICES ASSUME y + 1 <= x PROVE FALSE
  OBVIOUS
<1>1. d * (y + 1) <= d * x
  BY Monotone
<1>2. d * (y + 1) = d * y + d /\ d * y \in Int /\ d * x \in Int
  OBVIOUS
<1> QED
  BY <1>1, <1>2
-----------------------------------------------------------------------------
(* The parts of an outcome *)

\* Instalments at the rate and tenure of a: a.num rupees per a.den.
Num(a) == Factor[Rate(a), a.tenure].num
Den(a) == Factor[Rate(a), a.tenure].den

LEMMA Bands ==
  ASSUME NEW a \in Files
  PROVE  /\ Band(a.score) \in {"prime", "near_prime", "subprime"}
         /\ MaxFoir[Band(a.score)] \in Nat
         /\ AssessableIncome(a) \in Nat /\ Headroom(a) \in Int
         /\ Slip(a) \in {-1, 0, 1}
<1>1. a.score \in Nat /\ a.income \in Nat /\ a.onFile \in Nat /\ a.existing \in Nat
  BY DEF Files
<1>2. Band(a.score) \in {"prime", "near_prime", "subprime"}
  BY <1>1 DEF Band
<1>3. MaxFoir[Band(a.score)] \in Nat
  BY <1>2 DEF MaxFoir
<1>4. AssessableIncome(a) \in Nat
  BY <1>1 DEF AssessableIncome
<1>5. Headroom(a) \in Int
  BY <1>1, <1>3, <1>4 DEF Headroom
<1>6. Slip(a) \in {-1, 0, 1}
  BY DEF Slip
<1> QED
  BY <1>2, <1>3, <1>4, <1>5, <1>6

LEMMA Priced ==
  ASSUME NEW a \in Files, a.employment # "unemployed"
  PROVE  /\ Rate(a) \in Rates /\ Rate(a) \in Nat
         /\ Num(a) \in Nat \ {0} /\ Den(a) \in Nat \ {0}
<1>1. a.product \in Products /\ a.employment \in {"salaried", "self_employed"}
  BY DEF Files, Employments
<1>2. Band(a.score) \in {"prime", "near_prime", "subprime"}
  BY Bands
<1>3. Rate(a) \in Rates
  <2>1. DOMAIN Surcharge = {"prime", "near_prime", "subprime"}
    BY Zenon DEF Surcharge
  <2>2. Rate(a) = BaseRates[a.product][a.employment] + Surcharge[Band(a.score)]
    BY DEF Rate
  <2> QED
    BY <1>1, <1>2, <2>1, <2>2 DEF Rates
<1>4. BaseRates[a.product][a.employment] \in Nat /\ Surcharge[Band(a.score)] \in Nat
  BY <1>1, <1>2 DEF BaseRates, Surcharge, Products
<1>5. a.tenure \in Tenures
  BY DEF Files
<1>6. Factor[Rate(a), a.tenure] \in [num : Nat \ {0}, den : Nat \ {0}]
  BY <1>3, <1>5, PolicyAssumption
<1>7. Num(a) \in Nat \ {0} /\ Den(a) \in Nat \ {0}
  BY <1>6, Zenon DEF Num, Den
<1>8. Rate(a) \in Nat
  BY <1>4 DEF Rate
<1> QED
  BY <1>3, <1>7, <1>8

\* A higher rate costs more.
LEMMA PricesGrow ==
  ASSUME NEW a \in Files, NEW b \in Files, a.employment # "unemployed",
         b.employment # "unemployed", a.tenure = b.tenure, Rate(b) <= Rate(a)
  PROVE  /\ Den(a) < 2000 * Num(a)
         /\ Num(b) * Den(a) <= Num(a) * Den(b)
<1>1. a.tenure \in Tenures /\ Rate(a) \in Rates /\ Rate(b) \in Rates
  BY Priced DEF Files
<1>2. /\ Num(a) = Factor[<<Rate(a), a.tenure>>].num
      /\ Den(a) = Factor[<<Rate(a), a.tenure>>].den
      /\ Num(b) = Factor[<<Rate(b), a.tenure>>].num
      /\ Den(b) = Factor[<<Rate(b), a.tenure>>].den
  BY Zenon DEF Num, Den
<1> QED
  BY <1>1, <1>2, FactorAssumption

\* The affordable principal is the largest whose instalment fits the headroom, or,
\* where a product is just missed in binary, the one before it.
LEMMA AffordableBounds ==
  ASSUME NEW a \in Files, a.employment # "unemployed"
  PROVE  /\ Affordable(a) \in Int
         /\ 20 * Num(a) * Affordable(a) <= Headroom(a) * Den(a)
         /\ Headroom(a) * Den(a) <= 20 * Num(a) * (Affordable(a) + 1)
<1> DEFINE h == Headroom(a) * Den(a)
           k == 20 * Num(a)
           q == h \div k
           r == h % k
<1>1. Headroom(a) \in Int /\ Num(a) \in Nat \ {0} /\ Den(a) \in Nat \ {0}
  BY Bands, Priced
<1>2. h \in Int /\ k \in Nat \ {0}
  BY <1>1
<1>3. \/ Affordable(a) = q
      \/ (Affordable(a) = q - 1 /\ r = 0)
  BY <1>1 DEF Affordable, Num, Den
<1> HIDE DEF h, k
<1>4. q \in Int /\ r \in Int /\ h = k * q + r /\ 0 <= r /\ r < k
  BY <1>2, DivMod
<1> HIDE DEF q, r
<1>5. k * (q + 1) = k * q + k /\ k * (q - 1) = k * q - k /\ k * q \in Int
  BY <1>2, <1>4
<1>6. CASE Affordable(a) = q
  <2>1. Affordable(a) \in Int /\ k * Affordable(a) <= h /\ h <= k * (Affordable(a) + 1)
    BY <1>2, <1>4, <1>5, <1>6
  <2> QED
    BY <2>1 DEF h, k
<1>7. CASE Affordable(a) = q - 1 /\ r = 0
  <2>1. Affordable(a) + 1 = q /\ Affordable(a) \in Int
    BY <1>4, <1>7
  <2>2. k * Affordable(a) <= h /\ h <= k * (Affordable(a) + 1)
    BY <1>2, <1>4, <1>5, <1>7, <2>1
  <2> QED
    BY <2>1, <2>2 DEF h, k
<1> QED
  BY <1>3, <1>6, <1>7

LEMMA CounterBounds ==
  ASSUME NEW a \in Files, a.employment # "unemployed"
  PROVE  /\ CounterOffer(a) \in Int
         /\ 20 * Num(a) * CounterOffer(a) <= Headroom(a) * Den(a)
         /\ Headroom(a) * Den(a) <= 20 * Num(a) * (CounterOffer(a) + 1000)
<1> DEFINE k == 20 * Num(a)
           x == Affordable(a)
           c == CounterOffer(a)
<1>1. k \in Nat /\ Headroom(a) * Den(a) \in Int
  BY Bands, Priced
<1>2. /\ x \in Int /\ k * x <= Headroom(a) * Den(a)
      /\ Headroom(a) * Den(a) <= k * (x + 1)
  BY AffordableBounds
<1>3. c \in Int /\ c <= x /\ x + 1 <= c + 1000
  BY <1>2, Thousands DEF CounterOffer
<1> HIDE DEF k, x, c
<1>4. k * c <= k * x /\ k * (x + 1) <= k * (c + 1000)
  BY <1>1, <1>2, <1>3, Monotone
<1>5. /\ k * c \in Int /\ k * x \in Int /\ k * (x + 1) \in Int
      /\ k * (c + 1000) \in Int
  BY <1>1, <1>2, <1>3
<1>6. k * c <= Headroom(a) * Den(a) /\ Headroom(a) * Den(a) <= k * (c + 1000)
  BY <1>1, <1>2, <1>4, <1>5
<1> QED
  BY <1>3, <1>6 DEF k, c

\* The instalment of a principal.
LEMMA InstalmentBounds ==
  ASSUME NEW a \in Files, a.employment # "unemployed", NEW p \in Nat
  PROVE  /\ MonthlyInstalment(a, p) \in Nat
         /\ 2 * (Den(a) * MonthlyInstalment(a, p)) <= 2 * (p * Num(a)) + Den(a)
         /\ 2 * (p * Num(a)) <= 2 * (Den(a) * MonthlyInstalment(a, p)) + Den(a)
<1> DEFINE e == MonthlyInstalment(a, p)
           n == p * Num(a)
           d == Den(a)
<1>1. n \in Nat /\ d \in Nat \ {0}
  BY Priced
<1>2. e = Rounded(n, d)
  BY DEF MonthlyInstalment, Num, Den
<1> HIDE DEF e, n, d
<1>3. e \in Int /\ 2 * (d * e) <= 2 * n + d /\ 2 * n <= 2 * (d * e) + d
  BY <1>1, <1>2, RoundedBounds
<1>4. e >= 0
  <2> SUFFICES ASSUME e <= -1 PROVE FALSE
    BY <1>3
  <2>1. d * e <= d * (-1)
    BY <1>1, <1>3, Monotone
  <2>2. d * (-1) = -d /\ d * e \in Int
    BY <1>1, <1>3
  <2> QED
    BY <1>1, <1>3, <2>1, <2>2
<1> QED
  BY <1>3, <1>4 DEF e, n, d

\* assess either declines, grants the request or makes a counter-offer.
Declines(a, o) ==
  /\ o.decision = "declined" /\ o.amount = 0 /\ o.emi = 0
  /\ o.reason # "counter_offer_limited_by_debt_service_capacity"
  /\ o.reason = "no_affordable_principal" =>
       a.employment # "unemployed" /\ CounterOffer(a) <= 0
Grants(a, o) ==
  /\ a.employment # "unemployed" /\ o.decision # "declined"
  /\ o.amount = a.amount /\ o.emi = MonthlyInstalment(a, a.amount)
  /\ Fits(a, o.emi) /\ o.reason = "within_debt_service_capacity"
Counters(a, o) ==
  /\ a.employment # "unemployed" /\ o.decision # "declined"
  /\ o.amount = CounterOffer(a) /\ o.amount \in Nat \ {0}
  /\ o.emi = MonthlyInstalment(a, CounterOffer(a))
  /\ ~Fits(a, MonthlyInstalment(a, a.amount))

LEMMA ThreeWays ==
  ASSUME NEW a \in Files
  PROVE  \/ Declines(a, Outcome(a))
         \/ Grants(a, Outcome(a))
         \/ Counters(a, Outcome(a))
<1> DEFINE e == MonthlyInstalment(a, a.amount)
<1>1. a.amount \in Nat \ {0}
  BY DEF Files
<1>2. CASE \/ a.employment = "unemployed" \/ a.score < MinCreditScore
           \/ AssessableIncome(a) < MinMonthlyIncome \/ Exhausted(a)
  BY <1>2 DEF Outcome, Declined, Declines
<1>3. CASE ~ \/ a.employment = "unemployed" \/ a.score < MinCreditScore
             \/ AssessableIncome(a) < MinMonthlyIncome \/ Exhausted(a)
  <2>1. CASE Fits(a, e)
    <3>1. Outcome(a) = Offered(a, a.amount, "within_debt_service_capacity")
      BY <1>3, <2>1 DEF Outcome
    <3> QED
      BY <1>1, <1>3, <2>1, <3>1 DEF Offered, Grants
  <2>2. CASE ~Fits(a, e)
    <3>1. Outcome(a) = Offered(a, CounterOffer(a),
                               "counter_offer_limited_by_debt_service_capacity")
      BY <1>3, <2>2 DEF Outcome
    <3>2. CASE CounterOffer(a) <= 0
      BY <1>3, <3>1, <3>2 DEF Offered, Declined, Declines
    <3>3. CASE ~(CounterOffer(a) <= 0)
      <4>1. CounterOffer(a) \in Nat \ {0}
        BY <1>3, <3>3, CounterBounds
      <4> QED
        BY <1>3, <2>2, <3>1, <3>3, <4>1 DEF Offered, Counters
    <3> QED
      BY <3>2, <3>3
  <2> QED
    BY <2>1, <2>2
<1> QED
  BY <1>2, <1>3
-----------------------------------------------------------------------------
(* The theorems *)

\* No offer takes more of the income than the band allows, whatever the factor.
THEOREM BurdenHolds == Spec => []BurdenWithinShare
<1>1. PInv => BurdenWithinShare
  <2> SUFFICES ASSUME PInv, outcome # Pending, outcome.amount > 0
               PROVE  BurdenWithinShare
    BY DEF BurdenWithinShare
  <2> DEFINE a == application
             emi == outcome.emi
             d == Den(a)
             h == Headroom(a)
  <2>1. a \in Files /\ outcome = Outcome(a)
    BY DEF PInv
  <2>2. h \in Int
    BY <2>1, Bands
  <2>3. emi \in Nat /\ 20 * emi <= h + 10
    <3>1. CASE Grants(a, outcome)
      <4>1. emi \in Nat
        BY <2>1, <3>1, InstalmentBounds DEF Grants, Files
      <4> QED
        BY <2>2, <3>1, <4>1 DEF Grants, Fits
    <3>2. CASE Counters(a, outcome)
      <4> DEFINE c == CounterOffer(a)
                 n == Num(a)
      <4>1. /\ emi \in Nat /\ c \in Nat /\ n \in Nat /\ d \in Nat \ {0}
            /\ 2 * (d * emi) <= 2 * (c * n) + d
            /\ 20 * n * c <= h * d
        BY <2>1, <3>2, InstalmentBounds, CounterBounds, Priced DEF Counters
      <4> HIDE DEF c, n, d, h, emi
      <4>2. c * n \in Int /\ d * emi \in Int /\ h * d \in Int
        BY <2>2, <4>1
      <4>3. 20 * n * c = 20 * (c * n) /\ d * (20 * emi) = 20 * (d * emi)
            /\ d * (h + 10) = h * d + 10 * d
        BY <2>2, <4>1
      <4>4. d * (20 * emi) <= d * (h + 10)
        BY <4>1, <4>2, <4>3
      <4> QED
        BY <2>2, <4>1, <4>4, Cancel
    <3>3. ~Declines(a, outcome)
      BY DEF Declines
    <3> QED
      BY <2>1, <3>1, <3>2, <3>3, ThreeWays
  <2>4. /\ a.existing \in Nat /\ AssessableIncome(a) \in Nat
        /\ MaxFoir[Band(a.score)] \in Nat
    BY <2>1, Bands DEF Files
  <2>5. h = AssessableIncome(a) * MaxFoir[Band(a.score)] - 20 * a.existing
    BY DEF Headroom
  <2>6. 20 * (a.existing + emi) <= MaxFoir[Band(a.score)] * AssessableIncome(a) + 10
    BY <2>2, <2>3, <2>4, <2>5
  <2> QED
    BY <2>6 DEF BurdenWithinShare, AssessableIncome
<1> QED
  BY <1>1, Invariance, PTL

\* A counter-offer a thousand rupees higher would not fit.
THEOREM MaximalHolds == Spec => []OfferIsMaximal
<1>1. PInv => OfferIsMaximal
  <2> SUFFICES ASSUME PInv, outcome # Pending,
                      outcome.reason \in {"counter_offer_limited_by_debt_service_capacity",
                                          "no_affordable_principal"}
               PROVE  20 * (outcome.amount + 1000) * Num(application)
                        >= Headroom(application) * Den(application)
    BY DEF OfferIsMaximal, Num, Den
  <2> DEFINE a == application
             c == CounterOffer(a)
             x == outcome.amount
  <2>1. a \in Files /\ outcome = Outcome(a)
    BY DEF PInv
  <2>2. a.employment # "unemployed" /\ x \in Nat /\ c \in Int /\ c <= x
    <3>1. CASE Counters(a, outcome)
      BY <3>1 DEF Counters
    <3>2. CASE Declines(a, outcome)
      BY <2>1, <3>2, CounterBounds DEF Declines
    <3>3. ~Grants(a, outcome)
      BY DEF Grants
    <3> QED
      BY <2>1, <3>1, <3>2, <3>3, ThreeWays
  <2>3. /\ Num(a) \in Nat /\ Headroom(a) * Den(a) \in Int
        /\ Headroom(a) * Den(a) <= 20 * Num(a) * (c + 1000)
    BY <2>1, <2>2, Bands, Priced, CounterBounds
  <2> HIDE DEF c, x
  <2>4. 20 * Num(a) * (c + 1000) <= 20 * Num(a) * (x + 1000)
    <3>1. 20 * Num(a) \in Nat /\ c + 1000 \in Int /\ x + 1000 \in Int /\ c + 1000 <= x + 1000
      BY <2>2, <2>3
    <3> QED
      BY <3>1, Monotone
  <2>5. 20 * (x + 1000) * Num(a) = 20 * Num(a) * (x + 1000)
    BY <2>2, <2>3
  <2>6. 20 * Num(a) * (c + 1000) \in Int /\ 20 * Num(a) * (x + 1000) \in Int
    BY <2>2, <2>3
  <2>7. 20 * (x + 1000) * Num(a) >= Headroom(a) * Den(a)
    BY <2>3, <2>4, <2>5, <2>6
  <2> QED
    BY <2>7 DEF x
<1> QED
  BY <1>1, Invariance, PTL

\* Where a counter-offer exceeds the request, rounding hid half a rupee at most.
THEOREM BarelyAboveHolds == Spec => []CounterOfferBarelyAbove
<1>1. PInv => CounterOfferBarelyAbove
  <2> SUFFICES ASSUME PInv, outcome # Pending, outcome.amount > application.amount
               PROVE  2 * (outcome.amount - application.amount) * Num(application)
                        <= Den(application)
    BY DEF CounterOfferBarelyAbove, Num, Den
  <2> DEFINE a == application
             c == outcome.amount
             r == a.amount
             e == MonthlyInstalment(a, r)
             h == Headroom(a)
             n == Num(a)
             d == Den(a)
  <2>1. a \in Files /\ outcome = Outcome(a) /\ r \in Nat \ {0}
    BY DEF PInv, Files
  <2>2. Counters(a, outcome)
    BY <2>1, ThreeWays DEF Declines, Grants
  <2>3. /\ n \in Nat /\ d \in Nat \ {0} /\ c \in Nat /\ e \in Nat /\ h \in Int
        /\ 2 * (d * e) <= 2 * (r * n) + d
        /\ 20 * n * c <= h * d
    BY <2>1, <2>2, Bands, Priced, InstalmentBounds, CounterBounds DEF Counters
  <2>4. h <= 20 * e
    BY <2>1, <2>2, <2>3 DEF Counters, Fits
  <2> HIDE DEF c, r, e, h, n, d
  <2>5. d * h <= d * (20 * e)
    BY <2>3, <2>4, Monotone
  <2>6. /\ d * h = h * d /\ d * (20 * e) = 20 * (d * e)
        /\ 20 * n * c = 20 * (c * n) /\ 2 * (c - r) * n = 2 * (c * n) - 2 * (r * n)
    BY <2>1, <2>3
  <2>7. c * n \in Int /\ r * n \in Int /\ d * e \in Int /\ h * d \in Int
    BY <2>1, <2>3
  <2>8. 2 * (c - r) * n <= d
    BY <2>3, <2>5, <2>6, <2>7
  <2> QED
    BY <2>8 DEF c, r, n, d
<1> QED
  BY <1>1, Invariance, PTL

\* A declared income above the one on file changes nothing but the referral.
THEOREM OverstatingHolds == Spec => []OverstatingGainsNothing
<1>1. PInv => OverstatingGainsNothing
  <2> SUFFICES ASSUME PInv, outcome # Pending, application.onFile > 0,
                      application.income > application.onFile
               PROVE  LET honest == Outcome([application EXCEPT !.income = application.onFile])
                      IN /\ outcome.amount = honest.amount
                         /\ outcome.emi = honest.emi
                         /\ honest.decision = "declined" => outcome.decision = "declined"
    BY DEF OverstatingGainsNothing
  <2> DEFINE a == application
             b == [a EXCEPT !.income = a.onFile]
  <2>1. a \in Files /\ outcome = Outcome(a) /\ a.onFile \in Nat
    BY DEF PInv, Files
  <2>2. /\ b.product = a.product /\ b.employment = a.employment /\ b.amount = a.amount
        /\ b.tenure = a.tenure /\ b.score = a.score /\ b.existing = a.existing
        /\ b.onFile = a.onFile /\ b.income = a.onFile
    BY <2>1 DEF Files
  <2>3. AssessableIncome(b) = AssessableIncome(a)
    BY <2>1, <2>2 DEF AssessableIncome
  <2> HIDE DEF b
  <2>4. Rate(b) = Rate(a) /\ Headroom(b) = Headroom(a) /\ Slip(b) = Slip(a)
    BY <2>2, <2>3 DEF Rate, Headroom, Slip
  <2>5. /\ Exhausted(b) = Exhausted(a)
        /\ \A e : Fits(b, e) = Fits(a, e)
        /\ \A p : MonthlyInstalment(b, p) = MonthlyInstalment(a, p)
        /\ CounterOffer(b) = CounterOffer(a)
    BY <2>2, <2>4 DEF Exhausted, Fits, MonthlyInstalment, CounterOffer, Affordable
  <2>6. \A p, why : /\ Offered(b, p, why).amount = Offered(a, p, why).amount
                    /\ Offered(b, p, why).emi = Offered(a, p, why).emi
                    /\ Offered(b, p, why).decision = "declined" =>
                         Offered(a, p, why).decision = "declined"
    BY <2>5 DEF Offered, Declined
  <2>7. \A q, why : /\ Declined(b, q, why).amount = Declined(a, q, why).amount
                    /\ Declined(b, q, why).emi = Declined(a, q, why).emi
                    /\ Declined(a, q, why).decision = "declined"
    BY DEF Declined
  <2> QED
    BY <2>1, <2>2, <2>3, <2>5, <2>6, <2>7 DEF Outcome, b
<1> QED
  BY <1>1, Invariance, PTL

\* A decline offers nothing, and nothing else does; what is offered from a thousand
\* rupees up has a price.
THEOREM DeclinesHold == Spec => []DeclineOffersNothing
<1>1. PInv => DeclineOffersNothing
  <2> SUFFICES ASSUME PInv, outcome # Pending PROVE DeclineOffersNothing
    BY DEF DeclineOffersNothing
  <2> DEFINE a == application
             x == outcome.amount
             n == Num(a)
             d == Den(a)
             e == outcome.emi
  <2>1. a \in Files /\ outcome = Outcome(a)
    BY DEF PInv
  <2>2. outcome.decision = "declined" <=> outcome.amount = 0
    BY <2>1, ThreeWays DEF Declines, Grants, Counters, Files
  <2>3. ASSUME x >= 1000 PROVE e > 0
    <3>1. /\ a.employment # "unemployed" /\ x \in Nat
          /\ e = MonthlyInstalment(a, x)
      BY <2>1, <2>3, ThreeWays DEF Declines, Grants, Counters, Files
    <3>2. /\ n \in Nat \ {0} /\ d \in Nat \ {0} /\ e \in Nat
          /\ 2 * (x * n) <= 2 * (d * e) + d
      BY <2>1, <3>1, Priced, InstalmentBounds
    <3>3. d < 2000 * n
      BY <2>1, <3>1, Priced, PricesGrow
    <3> HIDE DEF x, n, d, e
    <3>4. n * 1000 <= n * x
      BY <2>3, <3>1, <3>2, Monotone
    <3>5. n * x = x * n /\ x * n \in Int
      BY <3>1, <3>2
    <3>6. CASE e = 0
      <4>1. d * e = 0
        BY <3>2, <3>6
      <4> QED
        BY <3>2, <3>3, <3>4, <3>5, <4>1
    <3> QED
      BY <3>2, <3>6
  <2> QED
    BY <2>2, <2>3 DEF DeclineOffersNothing
<1> QED
  BY <1>1, Invariance, PTL

\* The types of the request and of its assessment.
THEOREM TypeCorrect == Spec => []TypeOK
<1>1. PInv => TypeOK
  <2> SUFFICES ASSUME PInv, outcome # Pending PROVE outcome \in Outcomes
    BY DEF PInv, TypeOK
  <2> DEFINE a == application
  <2>1. a \in Files /\ outcome = Outcome(a) /\ a.amount \in Nat
    BY DEF PInv, Files
  <2>2. \A r \in Nat, why \in Reasons : Declined(a, r, why) \in Outcomes
    <3>1. (a.employment # "unemployed" /\ Deviates(a)) \in BOOLEAN
      BY Zenon
    <3> QED
      BY <3>1 DEF Declined, Outcomes
  <2>3. ASSUME a.employment # "unemployed"
        PROVE  \A p \in Nat, why \in Reasons : Offered(a, p, why) \in Outcomes
    <3>1. Deviates(a) \in BOOLEAN
      BY Zenon DEF Deviates
    <3>2. Rate(a) \in Nat /\ \A p \in Nat : MonthlyInstalment(a, p) \in Nat
      BY <2>1, <2>3, Priced, InstalmentBounds
    <3>3. "no_affordable_principal" \in Reasons
      BY DEF Reasons
    <3> QED
      BY <2>2, <3>1, <3>2, <3>3 DEF Offered, Outcomes
  <2>4. ASSUME a.employment # "unemployed", ~(CounterOffer(a) \in Nat)
        PROVE  \A why : Offered(a, CounterOffer(a), why) =
                          Declined(a, Rate(a), "no_affordable_principal")
    BY <2>1, <2>4, CounterBounds DEF Offered
  <2>5. a.employment # "unemployed" => Rate(a) \in Nat
    BY <2>1, Priced
  <2> QED
    BY <2>1, <2>2, <2>3, <2>4, <2>5 DEF Outcome, Reasons
<1> QED
  BY <1>1, Invariance, PTL
-----------------------------------------------------------------------------
(* A better file *)

\* Half-up or half-even, a larger quotient is rounded no lower.
LEMMA RoundedGrows ==
  ASSUME NEW n \in Nat, NEW d \in Nat \ {0}, NEW m \in Nat, NEW c \in Nat \ {0},
         n * c <= m * d
  PROVE  Rounded(n, d) <= Rounded(m, c)
<1> DEFINE q == n \div d
           r == n % d
           s == m \div c
           u == m % c
<1>1. q \in Int /\ r \in Int /\ n = d * q + r /\ 0 <= r /\ r < d
  BY DivMod
<1>2. s \in Int /\ u \in Int /\ m = c * s + u /\ 0 <= u /\ u < c
  BY DivMod
<1>3. /\ Rounded(n, d) = IF 2 * r > d \/ (2 * r = d /\ q % 2 = 1) THEN q + 1 ELSE q
      /\ Rounded(m, c) = IF 2 * u > c \/ (2 * u = c /\ s % 2 = 1) THEN s + 1 ELSE s
  BY DEF Rounded
<1> HIDE DEF q, r, s, u
<1>4. /\ n * c = (c * d) * q + r * c /\ m * d = (c * d) * s + u * d
      /\ c * d \in Nat \ {0} /\ r * c \in Nat /\ u * d \in Nat
      /\ (c * d) * q \in Int /\ (c * d) * s \in Int
  BY <1>1, <1>2
<1>5. u * d < c * d /\ r * c < c * d
  <2>1. c * d - u * d = (c - u) * d /\ (c - u) \in Nat \ {0} /\ (c - u) * d > 0
    BY <1>2
  <2>2. c * d - r * c = (d - r) * c /\ (d - r) \in Nat \ {0} /\ (d - r) * c > 0
    BY <1>1
  <2> QED
    BY <2>1, <2>2, <1>4
<1>6. q <= s
  <2> SUFFICES ASSUME s + 1 <= q PROVE FALSE
    BY <1>1, <1>2
  <2>1. (c * d) * (s + 1) <= (c * d) * q
    BY <1>1, <1>2, <1>4, Monotone
  <2>2. (c * d) * (s + 1) = (c * d) * s + c * d
    BY <1>2, <1>4
  <2> QED
    BY <1>4, <1>5, <2>1, <2>2
<1>7. CASE q < s
  BY <1>1, <1>2, <1>3, <1>7
<1>8. CASE q = s
  <2>1. r * c <= u * d
    BY <1>4, <1>8
  <2>2. ASSUME 2 * r >= d PROVE 2 * u >= c /\ (2 * r > d => 2 * u > c)
    <3>1. d * c <= (2 * r) * c /\ (2 * r > d => d * c < (2 * r) * c)
      <4>1. (2 * r) * c - d * c = (2 * r - d) * c /\ 2 * r - d \in Nat
        BY <1>1, <2>2
      <4>2. (2 * r - d) * c >= 0 /\ (2 * r > d => (2 * r - d) * c > 0)
        BY <1>1, <4>1
      <4>3. (2 * r) * c \in Int /\ d * c \in Int
        BY <1>1
      <4> QED
        BY <4>1, <4>2, <4>3
    <3>2. (2 * r) * c = 2 * (r * c) /\ (2 * u) * d = 2 * (u * d) /\ d * c = c * d
      BY <1>1, <1>2
    <3>3. d * c <= (2 * u) * d /\ (2 * r > d => d * c < (2 * u) * d)
      BY <1>4, <2>1, <3>1, <3>2
    <3>4. d * c <= d * (2 * u) /\ d * (2 * u) = (2 * u) * d
      BY <1>2, <3>3
    <3>5. c <= 2 * u
      BY <1>2, <3>4, Cancel
    <3>6. 2 * r > d => c # 2 * u
      BY <1>2, <3>3
    <3> QED
      BY <1>2, <3>5, <3>6
  <2> QED
    BY <1>1, <1>2, <1>3, <1>8, <2>2
<1> QED
  BY <1>1, <1>2, <1>6, <1>7, <1>8

\* A higher score, a higher income on file and a smaller debt.
AtLeast(a, b) ==
  /\ a \in Files /\ b \in Files
  /\ b.product = a.product /\ b.employment = a.employment
  /\ b.amount = a.amount /\ b.tenure = a.tenure /\ b.income = a.income
  /\ b.score >= a.score /\ b.existing <= a.existing
  /\ a.onFile > 0 /\ b.onFile >= a.onFile

LEMMA BetterIsAtLeast ==
  ASSUME NEW a \in Files, NEW b \in Better(a)
  PROVE  AtLeast(a, b)
<1>1. /\ b \in Applications
      /\ [a EXCEPT !.score = b.score, !.onFile = b.onFile, !.existing = b.existing] = b
      /\ b.score >= a.score /\ b.existing <= a.existing
      /\ a.onFile > 0 /\ b.onFile >= a.onFile
  BY DEF Better
<1>2. b \in Files
  BY <1>1, PolicyAssumption
<1>3. /\ b.product = a.product /\ b.employment = a.employment
      /\ b.amount = a.amount /\ b.tenure = a.tenure /\ b.income = a.income
  BY <1>1 DEF Files
<1> QED
  BY <1>1, <1>2, <1>3 DEF AtLeast

\* The band is no worse: the share is no smaller and the rate no higher, and the
\* same share is the same band.
LEMMA BetterBand ==
  ASSUME NEW a, NEW b, AtLeast(a, b), a.employment # "unemployed"
  PROVE  /\ MaxFoir[Band(a.score)] <= MaxFoir[Band(b.score)]
         /\ MaxFoir[Band(a.score)] > 0
         /\ Rate(b) <= Rate(a)
         /\ MaxFoir[Band(a.score)] = MaxFoir[Band(b.score)] => Band(a.score) = Band(b.score)
<1>1. /\ a \in Files /\ b \in Files /\ a.score \in Nat /\ b.score \in Nat
      /\ b.score >= a.score
      /\ b.product = a.product /\ b.employment = a.employment
  BY DEF AtLeast, Files
<1>2. /\ a.score >= 750 => Band(a.score) = "prime"
      /\ a.score >= 700 /\ a.score < 750 => Band(a.score) = "near_prime"
      /\ a.score < 700 => Band(a.score) = "subprime"
  BY <1>1 DEF Band
<1>3. /\ b.score >= 750 => Band(b.score) = "prime"
      /\ b.score >= 700 /\ b.score < 750 => Band(b.score) = "near_prime"
      /\ b.score < 700 => Band(b.score) = "subprime"
  BY <1>1 DEF Band
<1>4. /\ MaxFoir["prime"] = 11 /\ MaxFoir["near_prime"] = 9 /\ MaxFoir["subprime"] = 7
      /\ Surcharge["prime"] = 0 /\ Surcharge["near_prime"] = 15
      /\ Surcharge["subprime"] = 30
  BY DEF MaxFoir, Surcharge
<1>5. Surcharge[Band(b.score)] <= Surcharge[Band(a.score)]
  BY <1>1, <1>2, <1>3, <1>4
<1>6. Rate(b) <= Rate(a)
  <2>1. /\ Rate(a) = BaseRates[a.product][a.employment] + Surcharge[Band(a.score)]
        /\ Rate(b) = BaseRates[a.product][a.employment] + Surcharge[Band(b.score)]
    BY <1>1 DEF Rate
  <2>2. BaseRates[a.product][a.employment] \in Int
    <3>1. a.product \in Products /\ a.employment \in {"salaried", "self_employed"}
      BY <1>1 DEF Files, Employments
    <3> QED
      BY <3>1 DEF BaseRates, Products
  <2>3. Surcharge[Band(a.score)] \in Int /\ Surcharge[Band(b.score)] \in Int
    BY <1>1, <1>2, <1>3, <1>4
  <2> QED
    BY <1>5, <2>1, <2>2, <2>3
<1> QED
  BY <1>1, <1>2, <1>3, <1>4, <1>6

\* There is more room; where there is not, nothing differs that the offer depends on.
LEMMA BetterHeadroom ==
  ASSUME NEW a, NEW b, AtLeast(a, b), a.employment # "unemployed"
  PROVE  /\ AssessableIncome(a) <= AssessableIncome(b)
         /\ \/ Headroom(a) < Headroom(b)
            \/ /\ Headroom(a) = Headroom(b)
               /\ Band(a.score) = Band(b.score) /\ Slip(a) = Slip(b)
<1> DEFINE i == AssessableIncome(a)
           j == AssessableIncome(b)
           m == MaxFoir[Band(a.score)]
           n == MaxFoir[Band(b.score)]
<1>1. /\ a.income \in Nat \ {0} /\ b.income = a.income /\ a.onFile \in Nat /\ b.onFile \in Nat
      /\ a.onFile > 0 /\ b.onFile >= a.onFile
      /\ a.existing \in Nat /\ b.existing \in Nat /\ b.existing <= a.existing
  BY DEF AtLeast, Files
<1>2. i \in Nat \ {0} /\ j \in Nat /\ i <= j
  BY <1>1 DEF AssessableIncome
<1>3. m \in Nat /\ n \in Nat /\ m <= n /\ m > 0 /\ (m = n => Band(a.score) = Band(b.score))
  BY BetterBand, Bands DEF AtLeast
<1>4. Headroom(a) = i * m - 20 * a.existing /\ Headroom(b) = j * n - 20 * b.existing
  BY DEF Headroom
<1>5. i = j /\ Band(a.score) = Band(b.score) => Slip(a) = Slip(b)
  BY DEF Slip
<1> HIDE DEF i, j, m, n
<1>6. i * m <= i * n /\ n * i <= n * j /\ i * n = n * i /\ j * n = n * j
      /\ i * m \in Int /\ n * i \in Int /\ n * j \in Int
  BY <1>2, <1>3, Monotone
<1>7. CASE m < n
  <2>1. i * n - i * m = i * (n - m) /\ i * (n - m) > 0
    BY <1>2, <1>3, <1>7
  <2>2. Headroom(a) < Headroom(b)
    BY <1>1, <1>4, <1>6, <2>1
  <2> QED
    BY <1>2, <2>2 DEF i, j
<1>8. CASE m = n /\ i < j
  <2>1. n * j - n * i = n * (j - i) /\ n * (j - i) > 0
    BY <1>2, <1>3, <1>8
  <2>2. Headroom(a) < Headroom(b)
    BY <1>1, <1>4, <1>6, <2>1
  <2> QED
    BY <1>2, <2>2 DEF i, j
<1>9. CASE m = n /\ i = j
  <2>1. Band(a.score) = Band(b.score) /\ Slip(a) = Slip(b)
    BY <1>3, <1>5, <1>9
  <2>2. Headroom(a) <= Headroom(b)
    BY <1>1, <1>4, <1>6, <1>9
  <2>3. Headroom(a) \in Int /\ Headroom(b) \in Int
    BY Bands DEF AtLeast
  <2> QED
    BY <1>2, <2>1, <2>2, <2>3 DEF i, j
<1> QED
  BY <1>2, <1>3, <1>7, <1>8, <1>9

\* Instalments are no higher.
LEMMA BetterPrice ==
  ASSUME NEW a, NEW b, AtLeast(a, b), a.employment # "unemployed"
  PROVE  /\ Num(b) * Den(a) <= Num(a) * Den(b)
         /\ \A p \in Nat : MonthlyInstalment(b, p) <= MonthlyInstalment(a, p)
<1>1. a \in Files /\ b \in Files /\ b.tenure = a.tenure /\ b.employment # "unemployed"
  BY DEF AtLeast
<1>2. /\ Num(a) \in Nat \ {0} /\ Den(a) \in Nat \ {0}
      /\ Num(b) \in Nat \ {0} /\ Den(b) \in Nat \ {0}
  BY <1>1, Priced
<1>3. Num(b) * Den(a) <= Num(a) * Den(b)
  BY <1>1, BetterBand, PricesGrow
<1>4. ASSUME NEW p \in Nat PROVE MonthlyInstalment(b, p) <= MonthlyInstalment(a, p)
  <2> DEFINE k == Num(a)
             d == Den(a)
             l == Num(b)
             c == Den(b)
  <2>1. MonthlyInstalment(b, p) = Rounded(p * l, c) /\ MonthlyInstalment(a, p) = Rounded(p * k, d)
    BY DEF MonthlyInstalment, Num, Den
  <2> HIDE DEF k, d, l, c
  <2>2. k \in Nat /\ l \in Nat /\ c \in Nat \ {0} /\ d \in Nat \ {0} /\ l * d <= k * c
    BY <1>2, <1>3 DEF k, d, l, c
  <2>3. p * l \in Nat /\ p * k \in Nat
    BY <2>2
  <2>4. p * (l * d) <= p * (k * c)
    <3>1. l * d \in Int /\ k * c \in Int
      BY <2>2
    <3> QED
      BY <2>2, <3>1, Monotone
  <2>5. (p * l) * d = p * (l * d) /\ (p * k) * c = p * (k * c)
    BY <2>2
  <2>6. Rounded(p * l, c) <= Rounded(p * k, d)
    BY <2>2, <2>3, <2>4, <2>5, RoundedGrows
  <2> QED
    BY <2>1, <2>6
<1> QED
  BY <1>3, <1>4

\* More room at no higher price buys no less.
LEMMA BetterCounterOffer ==
  ASSUME NEW a, NEW b, AtLeast(a, b), a.employment # "unemployed",
         Headroom(a) < Headroom(b), CounterOffer(a) > 0
  PROVE  CounterOffer(a) <= CounterOffer(b)
<1> DEFINE x == Affordable(a)
           y == Affordable(b)
           k == Num(a)
           d == Den(a)
           l == Num(b)
           c == Den(b)
           g == Headroom(a)
           h == Headroom(b)
<1>1. a \in Files /\ b \in Files /\ b.employment # "unemployed"
  BY DEF AtLeast
<1>2. /\ k \in Nat \ {0} /\ d \in Nat \ {0} /\ l \in Nat \ {0} /\ c \in Nat \ {0}
      /\ g \in Int /\ h \in Int /\ g < h /\ l * d <= k * c
  BY <1>1, Priced, Bands, BetterPrice
<1>3. /\ x \in Int /\ y \in Int
      /\ 20 * k * x <= g * d /\ h * c <= 20 * l * (y + 1)
  BY <1>1, AffordableBounds
<1>4. x > 0
  <2>1. CounterOffer(a) <= x
    BY <1>3, Thousands DEF CounterOffer
  <2>2. CounterOffer(a) \in Int
    BY <1>3 DEF CounterOffer
  <2> QED
    BY <1>3, <2>1, <2>2
<1>5. CounterOffer(a) = (x \div 1000) * 1000 /\ CounterOffer(b) = (y \div 1000) * 1000
  BY DEF CounterOffer
<1> HIDE DEF x, y, k, d, l, c, g, h
<1>6. x <= y
  <2> SUFFICES ASSUME y + 1 <= x PROVE FALSE
    BY <1>3
  <2>1. (20 * l) * (y + 1) <= (20 * l) * x
    BY <1>2, <1>3, Monotone
  <2>2. h * c <= 20 * (l * x)
    <3>1. 20 * l * (y + 1) = (20 * l) * (y + 1) /\ (20 * l) * x = 20 * (l * x)
      BY <1>2, <1>3
    <3>2. h * c \in Int /\ (20 * l) * (y + 1) \in Int /\ (20 * l) * x \in Int
      BY <1>2, <1>3
    <3> QED
      BY <1>3, <2>1, <3>1, <3>2
  <2>3. d * (h * c) <= d * (20 * (l * x))
    <3>1. h * c \in Int /\ 20 * (l * x) \in Int
      BY <1>2, <1>3
    <3> QED
      BY <1>2, <2>2, <3>1, Monotone
  <2>4. (20 * x) * (l * d) <= (20 * x) * (k * c)
    <3>1. l * d \in Int /\ k * c \in Int /\ 20 * x \in Nat
      BY <1>2, <1>3, <1>4
    <3> QED
      BY <1>2, <3>1, Monotone
  <2>5. c * (20 * k * x) <= c * (g * d)
    <3>1. 20 * k * x \in Int /\ g * d \in Int
      BY <1>2, <1>3
    <3> QED
      BY <1>2, <1>3, <3>1, Monotone
  <2>6. d * (20 * (l * x)) = (20 * x) * (l * d) /\ (20 * x) * (k * c) = c * (20 * k * x)
    BY <1>2, <1>3
  <2>7. d * (h * c) = (c * d) * h /\ c * (g * d) = (c * d) * g
    BY <1>2
  <2>8. c * d \in Nat \ {0} /\ (c * d) * g \in Int /\ (c * d) * h \in Int
    BY <1>2
  <2>9. (c * d) * h <= (c * d) * g
    <3>1. (20 * x) * (l * d) \in Int /\ (20 * x) * (k * c) \in Int
      BY <1>2, <1>3
    <3> QED
      BY <2>3, <2>4, <2>5, <2>6, <2>7, <2>8, <3>1
  <2>10. h <= g
    BY <1>2, <2>8, <2>9, Cancel
  <2> QED
    BY <1>2, <2>10
<1>7. x \div 1000 <= y \div 1000
  BY <1>3, <1>6
<1>8. (x \div 1000) \in Int /\ (y \div 1000) \in Int
  BY <1>3
<1> QED
  BY <1>5, <1>7, <1>8

\* What assess refuses outright.
Refuses(a) ==
  \/ a.employment = "unemployed" \/ a.score < MinCreditScore
  \/ AssessableIncome(a) < MinMonthlyIncome \/ Exhausted(a)

\* What is offered is the request where it fits, and else the counter-offer.
LEMMA OfferedAmount ==
  ASSUME NEW a \in Files
  PROVE  /\ Outcome(a).amount \in Nat
         /\ Refuses(a) => Outcome(a).amount = 0
         /\ ~Refuses(a) /\ Fits(a, MonthlyInstalment(a, a.amount)) =>
              Outcome(a).amount = a.amount
         /\ ~Refuses(a) /\ ~Fits(a, MonthlyInstalment(a, a.amount)) =>
              Outcome(a).amount = IF CounterOffer(a) > 0 THEN CounterOffer(a) ELSE 0
<1>1. a.amount \in Nat \ {0}
  BY DEF Files
<1>2. Outcome(a).amount \in Nat
  BY <1>1, ThreeWays DEF Declines, Grants, Counters
<1>3. ASSUME Refuses(a) PROVE Outcome(a).amount = 0
  BY <1>3 DEF Refuses, Outcome, Declined
<1>4. ASSUME ~Refuses(a), Fits(a, MonthlyInstalment(a, a.amount))
      PROVE  Outcome(a).amount = a.amount
  <2>1. Outcome(a) = Offered(a, a.amount, "within_debt_service_capacity")
    BY <1>4 DEF Refuses, Outcome
  <2> QED
    BY <1>1, <2>1 DEF Offered
<1>5. ASSUME ~Refuses(a), ~Fits(a, MonthlyInstalment(a, a.amount))
      PROVE  Outcome(a).amount = IF CounterOffer(a) > 0 THEN CounterOffer(a) ELSE 0
  <2>1. Outcome(a) = Offered(a, CounterOffer(a),
                             "counter_offer_limited_by_debt_service_capacity")
    BY <1>5 DEF Refuses, Outcome
  <2>2. CounterOffer(a) \in Int
    BY <1>5, CounterBounds DEF Refuses
  <2> QED
    BY <2>1, <2>2 DEF Offered, Declined
<1> QED
  BY <1>2, <1>3, <1>4, <1>5

LEMMA BetterOutcome ==
  ASSUME NEW a, NEW b, AtLeast(a, b)
  PROVE  Usable(a) <= Usable(b)
<1> DEFINE x == Outcome(a).amount
           y == Outcome(b).amount
           r == a.amount
           e == MonthlyInstalment(a, r)
           f == MonthlyInstalment(b, r)
<1>1. /\ a \in Files /\ b \in Files /\ b.amount = r /\ r \in Nat \ {0}
      /\ b.employment = a.employment /\ a.score \in Nat /\ b.score \in Nat
      /\ b.score >= a.score
  BY DEF AtLeast, Files
<1>2. x \in Nat /\ y \in Nat
  BY <1>1, OfferedAmount
<1>3. /\ Usable(a) = IF x < r THEN x ELSE r
      /\ Usable(b) = IF y < r THEN y ELSE r
  BY <1>1 DEF Usable
<1>4. CASE x = 0 \/ y >= r
  <2> HIDE DEF x, y, r
  <2> QED
    BY <1>1, <1>2, <1>3, <1>4
<1>5. CASE x # 0 /\ ~(y >= r)
  <2>1. ~Refuses(a) /\ a.employment # "unemployed" /\ ~Exhausted(a)
    BY <1>1, <1>5, OfferedAmount DEF Refuses
  <2>2. /\ AssessableIncome(a) <= AssessableIncome(b)
        /\ AssessableIncome(a) \in Nat /\ AssessableIncome(b) \in Nat
        /\ Headroom(a) \in Int /\ Headroom(b) \in Int
    BY <1>1, <2>1, BetterHeadroom, Bands
  <2>3. /\ e \in Nat /\ f \in Nat /\ f <= e
    BY <1>1, <2>1, BetterPrice, InstalmentBounds
  <2>4. ~Refuses(b) <=> ~Exhausted(b)
    BY <1>1, <2>1, <2>2 DEF Refuses, MinCreditScore, MinMonthlyIncome
  <2>5. CASE Headroom(a) < Headroom(b)
    <3>1. ~Refuses(b)
      BY <2>1, <2>2, <2>4, <2>5 DEF Exhausted
    <3>2. ~Fits(b, f)
      BY <1>1, <1>5, <3>1, OfferedAmount
    <3>3. ~Fits(a, e)
      BY <2>2, <2>3, <2>5, <3>2 DEF Fits
    <3>4. x = CounterOffer(a) /\ CounterOffer(a) > 0
      BY <1>1, <1>5, <2>1, <3>3, OfferedAmount
    <3>5. CounterOffer(a) <= CounterOffer(b)
      BY <2>1, <2>5, <3>4, BetterCounterOffer
    <3>6. CounterOffer(a) \in Int /\ CounterOffer(b) \in Int
      BY <1>1, <2>1, CounterBounds
    <3>7. y = CounterOffer(b)
      BY <1>1, <3>1, <3>2, <3>4, <3>5, <3>6, OfferedAmount
    <3>8. x <= y
      BY <3>4, <3>5, <3>7
    <3> HIDE DEF x, y, r
    <3> QED
      BY <1>1, <1>2, <1>3, <3>8
  <2>6. CASE ~(Headroom(a) < Headroom(b))
    <3>1. /\ Headroom(a) = Headroom(b) /\ Band(a.score) = Band(b.score)
          /\ Slip(a) = Slip(b)
      BY <2>1, <2>6, BetterHeadroom
    <3>2. Rate(a) = Rate(b) /\ a.tenure = b.tenure
      BY <3>1 DEF AtLeast, Rate
    <3>3. f = e /\ CounterOffer(a) = CounterOffer(b)
      BY <3>1, <3>2 DEF MonthlyInstalment, CounterOffer, Affordable
    <3>4. ~Refuses(b)
      BY <2>1, <2>4, <3>1 DEF Exhausted
    <3>5. Fits(b, f) <=> Fits(a, e)
      BY <3>1, <3>3 DEF Fits
    <3>6. x = y
      BY <1>1, <2>1, <3>3, <3>4, <3>5, OfferedAmount
    <3> HIDE DEF x, y, r
    <3> QED
      BY <1>1, <1>2, <1>3, <3>6
  <2> QED
    BY <2>5, <2>6
<1> QED
  BY <1>2, <1>4, <1>5

\* A higher score, a higher income on file and a smaller debt never get less of
\* what was asked for (eligibility.py:40-45, 119-150).
THEOREM BetterFilesHold == Spec => []BetterFileNeverHurts
<1>1. PInv => BetterFileNeverHurts
  <2> SUFFICES ASSUME PInv, outcome # Pending, NEW b \in Better(application)
               PROVE  Usable(application) <= Usable(b)
    BY DEF BetterFileNeverHurts
  <2>1. application \in Files
    BY DEF PInv
  <2>2. AtLeast(application, b)
    BY <2>1, BetterIsAtLeast
  <2> QED
    BY <2>2, BetterOutcome
<1> QED
  BY <1>1, Invariance, PTL
-----------------------------------------------------------------------------
(* The seed data *)

\* What a run has read is still there.
ReadStays ==
  \A p \in Seeders, pan \in Pans :
    seen[p][pan] \in Rows =>
      /\ customers[pan] \in Rows
      /\ \A f \in Fields : seen[p][pan][f] # Unset => customers[pan][f] # Unset

\* Only a commit of another run fills in a row that a run missed.
InsertedTogether ==
  \A p \in Seeders : Collides(p) => \A pan \in Pans : customers[pan] # Unset

SInv == SeedTypeOK /\ ReadStays /\ InsertedTogether /\ SeedingCompletes

LEMMA ValuesApart ==
  /\ Unset # Unread /\ Unset \notin Rows /\ Unread \notin Rows
  /\ Unset # "seed" /\ Unset # "edited"
BY SeedAssumption

LEMMA InitSInv == SeedInit => SInv
<1> SUFFICES ASSUME SeedInit PROVE SInv
  OBVIOUS
<1>1. \A p \in Seeders, pan \in Pans : seen[p][pan] = Unread
  BY DEF SeedInit, NothingRead
<1>2. SeedTypeOK
  BY DEF SeedInit, SeedTypeOK, NothingRead
<1>3. ReadStays /\ InsertedTogether
  BY <1>1, ValuesApart DEF ReadStays, InsertedTogether, Collides
<1>4. SeedingCompletes
  BY DEF SeedInit, SeedingCompletes
<1> QED
  BY <1>2, <1>3, <1>4 DEF SInv
-----------------------------------------------------------------------------
(* The steps of a run that write nothing *)

\* A run forgets what it has read, and has not committed.
LEMMA ForgetStep ==
  ASSUME SInv, NEW p \in Seeders, UNCHANGED customers,
         NEW st \in {"idle", "failed"}, phase' = [phase EXCEPT ![p] = st],
         seen' = [seen EXCEPT ![p] = NothingRead],
         st = "failed" => Collides(p)
  PROVE  SInv'
<1>1. SeedTypeOK'
  BY DEF SInv, SeedTypeOK, NothingRead
<1>2. \A q \in Seeders, pan \in Pans :
        seen'[q][pan] = IF q = p THEN Unread ELSE seen[q][pan]
  BY DEF SInv, SeedTypeOK, NothingRead
<1>3. ReadStays' /\ InsertedTogether'
  BY <1>2, ValuesApart DEF SInv, ReadStays, InsertedTogether, Collides
<1>4. \A q \in Seeders : phase'[q] = IF q = p THEN st ELSE phase[q]
  BY DEF SInv, SeedTypeOK
<1>5. st = "failed" => \A pan \in Pans : customers[pan] # Unset
  BY DEF SInv, InsertedTogether
<1>6. SeedingCompletes'
  BY <1>4, <1>5 DEF SInv, SeedingCompletes
<1> QED
  BY <1>1, <1>3, <1>6 DEF SInv

LEMMA StartStep == ASSUME SInv, NEW p \in Seeders, Start(p) PROVE SInv'
<1>1. UNCHANGED <<customers, seen>> /\ phase' = [phase EXCEPT ![p] = "reading"]
  BY DEF Start
<1>2. SeedTypeOK' /\ ReadStays' /\ InsertedTogether'
  BY <1>1 DEF SInv, SeedTypeOK, ReadStays, InsertedTogether, Collides
<1>3. \A q \in Seeders : phase'[q] \in {"done", "failed"} => phase'[q] = phase[q]
  BY <1>1 DEF SInv, SeedTypeOK
<1>4. SeedingCompletes'
  BY <1>1, <1>3 DEF SInv, SeedingCompletes
<1> QED
  BY <1>2, <1>4 DEF SInv

LEMMA ReadRowStep ==
  ASSUME SInv, NEW p \in Seeders, NEW pan \in Pans, ReadRow(p, pan) PROVE SInv'
<1>1. /\ UNCHANGED <<customers, phase>>
      /\ seen' = [seen EXCEPT ![p][pan] = customers[pan]]
      /\ customers[pan] \in Rows \cup {Unset}
  BY DEF ReadRow, SInv, SeedTypeOK
<1>2. SeedTypeOK'
  BY <1>1 DEF SInv, SeedTypeOK
<1>3. \A q \in Seeders, n \in Pans :
        seen'[q][n] = IF q = p /\ n = pan THEN customers[pan] ELSE seen[q][n]
  BY <1>1 DEF SInv, SeedTypeOK
<1>4. ReadStays'
  BY <1>1, <1>3 DEF SInv, ReadStays
<1>5. InsertedTogether'
  BY <1>1, <1>3 DEF SInv, InsertedTogether, Collides
<1>6. SeedingCompletes'
  BY <1>1 DEF SInv, SeedingCompletes
<1> QED
  BY <1>2, <1>4, <1>5, <1>6 DEF SInv
-----------------------------------------------------------------------------
(* The commit and the edit *)

\* What a commit makes of each row.
LEMMA CommitRows ==
  ASSUME SInv, NEW p \in Seeders, Commit(p), NEW pan \in Pans
  PROVE  /\ customers'[pan] \in Rows
         /\ \A f \in Fields : customers'[pan][f] # Unset
         /\ \A f \in Fields :
              /\ customers[pan] # Unset /\ customers[pan][f] = "edited"
              /\ ~Backfilling(pan, f)
              => customers'[pan][f] = "edited"
<1>1. /\ customers'[pan] = Seeded(customers[pan], seen[p][pan])
      /\ seen[p][pan] # Unread /\ ~Collides(p)
  BY DEF Commit
<1>2. CASE seen[p][pan] = Unset
  <2>1. customers'[pan] = [f \in Fields |-> "seed"]
    BY <1>1, <1>2 DEF Seeded
  <2>2. customers[pan] = Unset
    BY <1>1, <1>2 DEF Collides
  <2> QED
    BY <2>1, <2>2, ValuesApart DEF Rows, FieldValues
<1>3. CASE seen[p][pan] # Unset
  <2>1. seen[p][pan] \in Rows
    BY <1>1, <1>3 DEF SInv, SeedTypeOK
  <2>2. /\ customers[pan] \in Rows
        /\ \A f \in Fields : seen[p][pan][f] # Unset => customers[pan][f] # Unset
    BY <2>1 DEF SInv, ReadStays
  <2>3. customers'[pan] = [f \in Fields |-> IF seen[p][pan][f] = Unset THEN "seed"
                                            ELSE customers[pan][f]]
    BY <1>1, <1>3 DEF Seeded
  <2>4. \A f \in Fields : ~Backfilling(pan, f) => seen[p][pan][f] # Unset
    BY <2>1, ValuesApart DEF Backfilling
  <2> QED
    BY <2>2, <2>3, <2>4, ValuesApart DEF Rows, FieldValues
<1> QED
  BY <1>2, <1>3

LEMMA CommitStep == ASSUME SInv, NEW p \in Seeders, Commit(p) PROVE SInv'
<1>1. /\ DOMAIN customers' = Pans
      /\ phase' = [phase EXCEPT ![p] = "done"]
      /\ seen' = [seen EXCEPT ![p] = NothingRead]
  BY DEF Commit
<1>2. \A pan \in Pans : /\ customers'[pan] \in Rows
                        /\ \A f \in Fields : customers'[pan][f] # Unset
  BY CommitRows
<1>3. customers' \in [Pans -> Rows \cup {Unset}]
  <2>1. customers' = [pan \in Pans |-> customers'[pan]]
    BY DEF Commit
  <2> QED
    BY <1>2, <2>1
<1>4. SeedTypeOK'
  BY <1>1, <1>3 DEF SInv, SeedTypeOK, NothingRead
<1>5. ReadStays' /\ InsertedTogether' /\ SeedingCompletes'
  BY <1>2, ValuesApart DEF ReadStays, InsertedTogether, SeedingCompletes
<1> QED
  BY <1>4, <1>5 DEF SInv

\* What an edit makes of each row.
LEMMA EditRows ==
  ASSUME SInv, NEW pan \in Pans, NEW f \in Fields, Edit(pan, f)
  PROVE  /\ customers' \in [Pans -> Rows \cup {Unset}]
         /\ \A n \in Pans : customers[n] \in Rows <=> customers'[n] \in Rows
         /\ \A n \in Pans : customers[n] = Unset <=> customers'[n] = Unset
         /\ \A n \in Pans, g \in Fields : customers[n] \in Rows =>
              customers'[n][g] = IF n = pan /\ g = f THEN "edited" ELSE customers[n][g]
<1>1. customers[pan] \in Rows /\ customers \in [Pans -> Rows \cup {Unset}]
  BY DEF Edit, SInv, SeedTypeOK
<1>2. customers' = [customers EXCEPT ![pan] = [customers[pan] EXCEPT ![f] = "edited"]]
  BY DEF Edit
<1>3. PICK row : row = [customers[pan] EXCEPT ![f] = "edited"]
  OBVIOUS
<1>4. row \in Rows /\ \A g \in Fields : row[g] = IF g = f THEN "edited" ELSE customers[pan][g]
  BY <1>1, <1>3 DEF Rows, FieldValues
<1>5. customers' = [customers EXCEPT ![pan] = row]
  BY <1>2, <1>3
<1>6. \A n \in Pans : customers'[n] = IF n = pan THEN row ELSE customers[n]
  BY <1>1, <1>5
<1>7. customers' \in [Pans -> Rows \cup {Unset}]
  BY <1>1, <1>4, <1>5
<1> QED
  BY <1>1, <1>4, <1>6, <1>7, ValuesApart

LEMMA EditStep ==
  ASSUME SInv, NEW pan \in Pans, NEW f \in Fields, Edit(pan, f) PROVE SInv'
<1>1. UNCHANGED <<phase, seen>>
  BY DEF Edit
<1>2. SeedTypeOK'
  BY <1>1, EditRows DEF SInv, SeedTypeOK
<1>3. ReadStays'
  BY <1>1, EditRows, ValuesApart DEF SInv, ReadStays
<1>4. InsertedTogether'
  BY <1>1, EditRows DEF SInv, InsertedTogether, Collides
<1>5. SeedingCompletes'
  <2>1. \A n \in Pans : customers[n] # Unset => customers[n] \in Rows
    BY DEF SInv, SeedTypeOK
  <2> QED
    BY <1>1, <2>1, EditRows, ValuesApart DEF SInv, SeedingCompletes
<1> QED
  BY <1>2, <1>3, <1>4, <1>5 DEF SInv

LEMMA NextSInv == SInv /\ [SeedNext]_seedVars => SInv'
<1> SUFFICES ASSUME SInv, [SeedNext]_seedVars PROVE SInv'
  OBVIOUS
<1>1. CASE UNCHANGED seedVars
  BY <1>1 DEF seedVars, SInv, SeedTypeOK, ReadStays, InsertedTogether, Collides,
              SeedingCompletes
<1>2. ASSUME NEW p \in Seeders, Duplicate(p) \/ Crash(p) PROVE SInv'
  BY <1>2, ForgetStep DEF Duplicate, Crash
<1> QED
  BY <1>1, <1>2, StartStep, ReadRowStep, CommitStep, EditStep DEF SeedNext
-----------------------------------------------------------------------------
(* The theorems *)

\* SInv holds in every reachable state.
THEOREM SeedInvariance == SeedSpec => []SInv
<1> QED
  BY InitSInv, NextSInv, PTL DEF SeedSpec

\* A run that ended leaves every seed customer in the table, even when it failed on
\* what another run inserted, and one that committed leaves no field unset
\* (seed.py:132-139, 151-178).
THEOREM SeedingIsComplete == SeedSpec => []SeedingCompletes
<1>1. SInv => SeedingCompletes
  BY DEF SInv
<1> QED
  BY <1>1, SeedInvariance, PTL

\* No step turns a settled edit back, or reads it as a field to be filled in.
LEMMA SettledStays ==
  ASSUME SInv, [SeedNext]_seedVars, NEW pan \in Pans, NEW f \in Fields, Settled(pan, f)
  PROVE  Settled(pan, f)'
<1>1. /\ customers[pan] \in Rows /\ customers[pan][f] = "edited" /\ customers[pan] # Unset
      /\ \A p \in Seeders :
           seen[p][pan] \notin {Unset, Unread} => seen[p][pan][f] # Unset
      /\ ~Backfilling(pan, f)
  BY DEF Settled, Backfilling, SInv, SeedTypeOK
<1>2. ASSUME UNCHANGED customers,
             \A p \in Seeders : \/ seen'[p][pan] = seen[p][pan]
                                \/ seen'[p][pan] \in {Unread, customers[pan]}
      PROVE  Settled(pan, f)'
  BY <1>1, <1>2, ValuesApart DEF Settled, Backfilling
<1>3. CASE UNCHANGED seedVars
  BY <1>2, <1>3 DEF seedVars
<1>4. ASSUME NEW p \in Seeders, Start(p) \/ Duplicate(p) \/ Crash(p)
      PROVE  Settled(pan, f)'
  BY <1>2, <1>4 DEF Start, Duplicate, Crash, SInv, SeedTypeOK, NothingRead
<1>5. ASSUME NEW p \in Seeders, NEW n \in Pans, ReadRow(p, n) PROVE Settled(pan, f)'
  BY <1>2, <1>5 DEF ReadRow, SInv, SeedTypeOK
<1>6. ASSUME NEW p \in Seeders, Commit(p) PROVE Settled(pan, f)'
  <2>1. customers'[pan] \in Rows /\ customers'[pan][f] = "edited"
    BY <1>1, <1>6, CommitRows
  <2>2. \A q \in Seeders :
          seen'[q][pan] = IF q = p THEN Unread ELSE seen[q][pan]
    BY <1>6 DEF Commit, SInv, SeedTypeOK, NothingRead
  <2> QED
    BY <1>1, <2>1, <2>2, ValuesApart DEF Settled, Backfilling
<1>7. ASSUME NEW n \in Pans, NEW g \in Fields, Edit(n, g) PROVE Settled(pan, f)'
  <2>1. customers'[pan] \in Rows /\ customers'[pan][f] = "edited"
    BY <1>1, <1>7, EditRows
  <2>2. UNCHANGED seen
    BY <1>7 DEF Edit
  <2> QED
    BY <1>1, <2>1, <2>2, ValuesApart DEF Settled, Backfilling
<1> QED
  BY <1>3, <1>4, <1>5, <1>6, <1>7 DEF SeedNext

\* What somebody edited is never overwritten, but by a run that had found the field
\* unset and had not committed yet (seed.py:137).
THEOREM EditsAreKept == SeedSpec => EditsSurvive
<1>1. SInv /\ [SeedNext]_seedVars =>
        \A pan \in Pans, f \in Fields : Settled(pan, f) => Settled(pan, f)'
  BY SettledStays
<1> QED
  BY <1>1, SeedInvariance, PTL DEF SeedSpec, EditsSurvive
=============================================================================

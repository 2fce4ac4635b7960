----------------------------- MODULE CreditPolicy -----------------------------
(***************************************************************************)
(* The credit policy: app/services/eligibility.py, as check_eligibility     *)
(* calls it.  Amounts are whole rupees; the share of income that may serve  *)
(* debt is counted in twentieths and rates in tenths of a percent, so that  *)
(* everything but the instalment factor is exact.                           *)
(***************************************************************************)
EXTENDS Integers

CONSTANTS
  Applications,   \* customer files and requests that reach the policy
  Tenures,        \* months
  Factor,         \* instalment per rupee at a rate and a tenure, a fraction
  Pending         \* no outcome yet

Products    == {"personal_loan", "credit_card"}
Employments == {"salaried", "self_employed", "unemployed"}

\* MIN_CREDIT_SCORE, MIN_MONTHLY_INCOME
MinCreditScore   == 650
MinMonthlyIncome == 20000

\* BASE_RATES, in tenths of a percent.
BaseRates ==
  [personal_loan |-> [salaried |-> 125, self_employed |-> 145],
   credit_card   |-> [salaried |-> 360, self_employed |-> 380]]

\* Mutant: the shares of the two lower bands are swapped.
FoirSwapped == [prime |-> 11, near_prime |-> 7, subprime |-> 9]

\* MAX_FOIR, in twentieths.
MaxFoir == [prime |-> 11, near_prime |-> 9, subprime |-> 7]

Surcharge == [prime |-> 0, near_prime |-> 15, subprime |-> 30]

Rates == {BaseRates[p][e] + Surcharge[b] :
            p \in Products, e \in {"salaried", "self_employed"}, b \in DOMAIN Surcharge}

\* score, onFile and existing are the customer's credit_score, monthly_income
\* and existing_emi.
Files ==
  [product : Products, employment : Employments, amount : Nat \ {0},
   tenure : Tenures, income : Nat \ {0}, onFile : Nat, existing : Nat,
   score : Nat]

ASSUME PolicyAssumption ==
  /\ Tenures \subseteq Nat
  /\ Applications \subseteq Files
  /\ Factor \in [Rates \X Tenures -> [num : Nat \ {0}, den : Nat \ {0}]]

\* What an amortising instalment is: it grows with the rate, and within the 120
\* months of the request schema a thousand rupees cost more than half a rupee.
ASSUME FactorAssumption ==
  \A q \in Rates, r \in Rates, t \in Tenures :
    LET f == Factor[<<q, t>>]
        g == Factor[<<r, t>>]
    IN f.den < 2000 * f.num /\ (q <= r => f.num * g.den <= g.num * f.den)

Reasons == {"no_verifiable_income", "credit_score_below_threshold",
            "income_below_minimum", "existing_obligations_exhaust_capacity",
            "no_affordable_principal", "within_debt_service_capacity",
            "counter_offer_limited_by_debt_service_capacity"}

Outcomes == [decision : {"approved", "referred", "declined"}, amount : Nat,
             rate : Nat, emi : Nat, reason : Reasons, deviates : BOOLEAN]
-----------------------------------------------------------------------------
(* The parts of assess *)

Band(score) ==
  CASE score >= 750 -> "prime"
    [] score >= 700 /\ score < 750 -> "near_prime"
    [] score < 700 -> "subprime"

Rate(a) == BaseRates[a.product][a.employment] + Surcharge[Band(a.score)]

\* More than 30 percent away from the income on file, when there is one.
Deviates(a) ==
  /\ a.onFile > 0
  /\ LET gap == IF a.income > a.onFile THEN a.income - a.onFile ELSE a.onFile - a.income
     IN 10 * gap > 3 * a.onFile

\* Mutant: what the caller declares is taken at face value.
DeclaredIncome(a) == a.income

AssessableIncome(a) ==
  IF a.onFile > 0 /\ a.onFile < a.income THEN a.onFile ELSE a.income

\* Mutant: what is already owed is forgotten.
WholeShare(a) == AssessableIncome(a) * MaxFoir[Band(a.score)]

\* What is left of the permitted burden after existing instalments, in twentieths.
Headroom(a) == AssessableIncome(a) * MaxFoir[Band(a.score)] - 20 * a.existing

PowerOfTwoBelow(n) ==
  CHOOSE p \in {2 ^ k : k \in 0..29} : p <= n /\ n < 2 * p

\* 0.55 is a little more in binary than in decimal, and 0.35 a little less: where
\* income * share is a whole number of rupees the computed product may be just
\* above it (1) or just below (-1), depending on its place between powers of two.
Slip(a) ==
  LET whole == (AssessableIncome(a) * MaxFoir[Band(a.score)]) \div 20
      power == PowerOfTwoBelow(whole)
  IN IF Band(a.score) = "prime" /\ 8 * whole > 11 * power THEN 1
     ELSE IF Band(a.score) = "subprime" /\ 4 * whole > 7 * power THEN -1
     ELSE 0

\* headroom <= 0 and emi <= headroom: the slip decides a tie.
Exhausted(a) == Headroom(a) < 0 \/ (Headroom(a) = 0 /\ Slip(a) <= 0)
Fits(a, emi) == 20 * emi < Headroom(a) \/ (20 * emi = Headroom(a) /\ Slip(a) >= 0)

\* Python's round(n / d): a half goes to the even neighbour.
Rounded(n, d) ==
  LET q == n \div d
      r == n % d
  IN IF 2 * r > d \/ (2 * r = d /\ q % 2 = 1) THEN q + 1 ELSE q

MonthlyInstalment(a, principal) ==
  LET f == Factor[Rate(a), a.tenure] IN Rounded(principal * f.num, f.den)

\* The principal whose instalment uses up the headroom.
Affordable(a) ==
  LET f == Factor[Rate(a), a.tenure]
      q == (Headroom(a) * f.den) \div (20 * f.num)
  IN IF Slip(a) = -1 /\ q > 0 /\ (Headroom(a) * f.den) % (20 * f.num) = 0 THEN q - 1 ELSE q

\* Mutant: the counter-offer is rounded up.
RoundedUp(a) == ((Affordable(a) \div 1000) + 1) * 1000

\* Mutant: the counter-offer is rounded to steps of ten thousand.
CoarseOffer(a) == (Affordable(a) \div 10000) * 10000

\* The counter-offer, rounded down to thousands.
CounterOffer(a) == (Affordable(a) \div 1000) * 1000

\* Mutant: a decline leaves the rate unset.
DeclinedUnpriced(a, rate, reason) ==
  [decision |-> "declined", amount |-> 0, rate |-> Pending, emi |-> 0,
   reason |-> reason, deviates |-> a.employment # "unemployed" /\ Deviates(a)]

Declined(a, rate, reason) ==
  [decision |-> "declined", amount |-> 0, rate |-> rate, emi |-> 0,
   reason |-> reason, deviates |-> a.employment # "unemployed" /\ Deviates(a)]

\* Mutant: an offer of nothing is not turned into a decline.
OfferedAnything(a, amount, reason) ==
  [decision |-> IF Deviates(a) THEN "referred" ELSE "approved",
   amount |-> amount, rate |-> Rate(a), emi |-> MonthlyInstalment(a, amount),
   reason |-> reason, deviates |-> Deviates(a)]

Offered(a, amount, reason) ==
  IF amount <= 0 THEN Declined(a, Rate(a), "no_affordable_principal")
  ELSE [decision |-> IF Deviates(a) THEN "referred" ELSE "approved",
        amount |-> amount, rate |-> Rate(a), emi |-> MonthlyInstalment(a, amount),
        reason |-> reason, deviates |-> Deviates(a)]

\* assess
Outcome(a) ==
  IF a.employment = "unemployed" THEN Declined(a, 0, "no_verifiable_income")
  ELSE IF a.score < MinCreditScore THEN Declined(a, 0, "credit_score_below_threshold")
  ELSE IF AssessableIncome(a) < MinMonthlyIncome THEN Declined(a, 0, "income_below_minimum")
  ELSE IF Exhausted(a) THEN Declined(a, 0, "existing_obligations_exhaust_capacity")
  ELSE IF Fits(a, MonthlyInstalment(a, a.amount))
    THEN Offered(a, a.amount, "within_debt_service_capacity")
  ELSE Offered(a, CounterOffer(a), "counter_offer_limited_by_debt_service_capacity")
-----------------------------------------------------------------------------
VARIABLES application, outcome

vars == <<application, outcome>>

Init == application = Pending /\ outcome = Pending

\* check_eligibility has a request that passed its guards, and its customer.
Receive(a) ==
  /\ application = Pending
  /\ application' = a
  /\ UNCHANGED outcome

Assess ==
  /\ application # Pending /\ outcome = Pending
  /\ outcome' = Outcome(application)
  /\ UNCHANGED application

\* The assessment is staged and the handler goes on.
Stored ==
  /\ outcome # Pending
  /\ application' = Pending /\ outcome' = Pending

Next == (\E a \in Applications : Receive(a)) \/ Assess \/ Stored

Spec == Init /\ [][Next]_vars
-----------------------------------------------------------------------------
(* Properties *)

\* The types of the request and of its assessment.
TypeOK ==
  /\ application \in Files \cup {Pending}
  /\ outcome \in Outcomes \cup {Pending}
  /\ outcome # Pending => application # Pending

\* What is offered, and of what was asked for.
Usable(a) == LET o == Outcome(a).amount IN IF o < a.amount THEN o ELSE a.amount

\* An offer and what the customer already owes take no more of the lower of the
\* two incomes than the band allows, but for half a rupee of rounding
\* (eligibility.py:127-149; tests/test_eligibility.py, "must never exceed the
\* policy's debt-service limit").
BurdenWithinShare ==
  outcome # Pending /\ outcome.amount > 0 =>
    LET a == application
        lower == IF a.onFile > 0 /\ a.onFile < a.income THEN a.onFile ELSE a.income
    IN 20 * (a.existing + outcome.emi) <= MaxFoir[Band(a.score)] * lower + 10

\* A counter-offer leaves no thousand rupees on the table (eligibility.py:144-149).
OfferIsMaximal ==
  outcome # Pending
    /\ outcome.reason \in {"counter_offer_limited_by_debt_service_capacity",
                           "no_affordable_principal"} =>
    LET f == Factor[Rate(application), application.tenure]
    IN 20 * (outcome.amount + 1000) * f.num >= Headroom(application) * f.den

\* A counter-offer may exceed the request by a few rupees, never by more than the
\* half rupee of instalment that rounding hides (eligibility.py:138-148).
CounterOfferBarelyAbove ==
  outcome # Pending /\ outcome.amount > application.amount =>
    LET f == Factor[Rate(application), application.tenure]
    IN 2 * (outcome.amount - application.amount) * f.num <= f.den

\* Files better than a: a higher score, a higher income on file, a smaller debt.
Better(a) ==
  {b \in Applications :
     /\ [a EXCEPT !.score = b.score, !.onFile = b.onFile, !.existing = b.existing] = b
     /\ b.score >= a.score /\ b.existing <= a.existing
     /\ a.onFile > 0 /\ b.onFile >= a.onFile}

\* A better file never gets less of what was asked for, across the boundaries of
\* bands, rounding and counter-offers (eligibility.py:40-45, 119-150).
BetterFileNeverHurts ==
  outcome # Pending =>
    \A b \in Better(application) : Usable(application) <= Usable(b)

\* Declaring more than the income on file gains nothing: the offer is the one an
\* honest declaration gets (eligibility.py:88-108).
OverstatingGainsNothing ==
  outcome # Pending /\ application.onFile > 0 /\ application.income > application.onFile =>
    LET honest == Outcome([application EXCEPT !.income = application.onFile])
    IN /\ outcome.amount = honest.amount
       /\ outcome.emi = honest.emi
       /\ honest.decision = "declined" => outcome.decision = "declined"

\* The reply, the record and the evaluations agree on what a decline is: nothing
\* is offered, and whatever is offered from a thousand rupees up has a price
\* (eligibility.py:152-160, evals/run_evals.py:175-210).
DeclineOffersNothing ==
  outcome # Pending =>
    /\ outcome.decision = "declined" <=> outcome.amount = 0
    /\ outcome.amount >= 1000 => outcome.emi > 0
=============================================================================

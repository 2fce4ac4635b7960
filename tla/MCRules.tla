------------------------------- MODULE MCRules -------------------------------
(***************************************************************************)
(* Small instances for TLC of the two parts that share nothing with a call *)
(* in progress: the credit policy, a function of the customer file, and    *)
(* the script that fills the customer table.  They take turns: requests are *)
(* assessed before the first run of the script, which waits for each.      *)
(***************************************************************************)
EXTENDS CreditPolicy, SeedCustomers

\* Instalments over twelve months, per three thousand rupees.
TwelveMonths ==
  [q \in Rates \X Tenures |->
     [num |-> CASE q[1] = 125 -> 267 [] q[1] = 140 -> 269 [] q[1] = 155 -> 271
                [] q[1] = 145 -> 270 [] q[1] = 160 -> 272 [] q[1] = 175 -> 274
                [] q[1] = 360 -> 301 [] q[1] = 375 -> 304 [] q[1] = 390 -> 306
                [] q[1] = 380 -> 304 [] q[1] = 395 -> 307 [] q[1] = 410 -> 309,
      den |-> 3000]]

\* Both sides of every limit: 20500 is an income whose share is a whole number
\* that floating point misses, 26650 deviates from it by exactly 30 percent, 6272
\* leaves exactly the instalment of ten thousand, 11275 leaves nothing, and 8911
\* leaves of 20002 just less than a counter-offer of a thousand rounds to.
Borderline ==
  [product : {"personal_loan"}, employment : {"salaried"},
   amount : {1, 999, 10000, 400000}, tenure : Tenures,
   income : {19999, 20500, 26650, 26651}, onFile : {0, 20000, 20002, 20500},
   existing : {0, 6272, 8911, 11275}, score : {649, 650, 700, 749, 750}]

\* Every product and employment.
Ordinary ==
  [product : Products, employment : Employments, amount : {50000},
   tenure : Tenures, income : {30000}, onFile : {30000},
   existing : {0}, score : {700}]

MCApplications == Borderline \cup Ordinary

RulesInit == Init /\ SeedInit

EmptyTable == \A pan \in Pans : customers[pan] = Unset

RulesNext ==
  \/ Next /\ SeedInit /\ EmptyTable /\ UNCHANGED seedVars
  \/ SeedNext /\ Init /\ UNCHANGED vars

RulesSpec == RulesInit /\ [][RulesNext]_<<vars, seedVars>>
=============================================================================

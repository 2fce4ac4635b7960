SPECIFICATION RulesSpec
CONSTANTS
  Applications <- MCApplications
  Tenures = {12}
  Factor <- TwelveMonths
  Pans = {r1, r2}
  Fields = {email}
  Seeders = {d1, d2}
  Pending = Pending
  Unset = Unset
  Unread = Unread
INVARIANTS
  TypeOK
  BurdenWithinShare
  OfferIsMaximal
  CounterOfferBarelyAbove
  BetterFileNeverHurts
  OverstatingGainsNothing
  DeclineOffersNothing
  SeedingCompletes
PROPERTIES
  EditsSurvive

---------------------------- MODULE SeedCustomers ----------------------------
(***************************************************************************)
(* Seeding the customer table of a live database: app/seed.py.  Every run   *)
(* of the script reads the row of each PAN, stages an insert or a backfill  *)
(* of the fields it found unset, and commits once at the end; meanwhile     *)
(* operators edit rows and another run may be under way.  Nothing calls     *)
(* seed(reset=True), and it is left out.                                    *)
(***************************************************************************)
CONSTANTS
  Pans,       \* rows of SEED_CUSTOMERS, by their unique PAN
  Fields,     \* columns that a row of an earlier deploy may have left unset
  Seeders,    \* runs of the script
  Unset,      \* SQL NULL, the empty string, and no row
  Unread      \* a row a run has not read yet

FieldValues == {Unset, "seed", "edited"}
Rows == [Fields -> FieldValues]

ASSUME SeedAssumption ==
  /\ Unset # Unread
  /\ {Unset, Unread} \cap (Rows \cup {"seed", "edited"}) = {}

VARIABLES
  customers,  \* committed rows
  phase,      \* of each run of the script
  seen        \* the rows each run has read

seedVars == <<customers, phase, seen>>

NothingRead == [pan \in Pans |-> Unread]
-----------------------------------------------------------------------------
SeedInit ==
  /\ customers \in [Pans -> Rows \cup {Unset}]
  /\ phase = [p \in Seeders |-> "idle"]
  /\ seen = [p \in Seeders |-> NothingRead]

Start(p) ==
  /\ phase[p] = "idle"
  /\ phase' = [phase EXCEPT ![p] = "reading"]
  /\ UNCHANGED <<customers, seen>>

\* One turn of the loop: what is read is staged, and nothing is flushed.
ReadRow(p, pan) ==
  /\ phase[p] = "reading" /\ seen[p][pan] = Unread
  /\ seen' = [seen EXCEPT ![p][pan] = customers[pan]]
  /\ UNCHANGED <<customers, phase>>

\* Mutant: an existing PAN is skipped.
Skipped(stored, read) ==
  IF read = Unset THEN [f \in Fields |-> "seed"] ELSE stored

\* Mutant: an existing row is brought back to the seed's values.
Overwritten(stored, read) == [f \in Fields |-> "seed"]

\* What the commit makes of a row: an insert, or an UPDATE of the fields that
\* were unset when the row was read.
Seeded(stored, read) ==
  IF read = Unset THEN [f \in Fields |-> "seed"]
  ELSE [f \in Fields |-> IF read[f] = Unset THEN "seed" ELSE stored[f]]

\* The unique constraint on the PAN rejects an insert.
Collides(p) == \E pan \in Pans : seen[p][pan] = Unset /\ customers[pan] # Unset

Commit(p) ==
  /\ phase[p] = "reading"
  /\ \A pan \in Pans : seen[p][pan] # Unread
  /\ ~Collides(p)
  /\ customers' = [pan \in Pans |-> Seeded(customers[pan], seen[p][pan])]
  /\ phase' = [phase EXCEPT ![p] = "done"]
  /\ seen' = [seen EXCEPT ![p] = NothingRead]

\* IntegrityError at the commit: everything is rolled back.
Duplicate(p) ==
  /\ phase[p] = "reading"
  /\ \A pan \in Pans : seen[p][pan] # Unread
  /\ Collides(p)
  /\ phase' = [phase EXCEPT ![p] = "failed"]
  /\ seen' = [seen EXCEPT ![p] = NothingRead]
  /\ UNCHANGED customers

\* The process dies before the commit, and may be started again.
Crash(p) ==
  /\ phase[p] = "reading"
  /\ phase' = [phase EXCEPT ![p] = "idle"]
  /\ seen' = [seen EXCEPT ![p] = NothingRead]
  /\ UNCHANGED customers

\* An operator fills in or corrects a value.
Edit(pan, f) ==
  /\ customers[pan] # Unset
  /\ customers' = [customers EXCEPT ![pan][f] = "edited"]
  /\ UNCHANGED <<phase, seen>>

SeedNext ==
  \/ \E p \in Seeders :
       \/ Start(p) \/ Commit(p) \/ Duplicate(p) \/ Crash(p)
       \/ \E pan \in Pans : ReadRow(p, pan)
  \/ \E pan \in Pans, f \in Fields : Edit(pan, f)

SeedSpec == SeedInit /\ [][SeedNext]_seedVars
-----------------------------------------------------------------------------
(* Properties *)

\* The types of the tables and of the runs.
SeedTypeOK ==
  /\ customers \in [Pans -> Rows \cup {Unset}]
  /\ phase \in [Seeders -> {"idle", "reading", "done", "failed"}]
  /\ seen \in [Seeders -> [Pans -> Rows \cup {Unset, Unread}]]

\* A run that ended, even on a duplicate of another run's insert, leaves every
\* seed customer in the table, and one that committed leaves no field unset
\* (seed.py:132-139, 151-178).
SeedingCompletes ==
  /\ (\E p \in Seeders : phase[p] \in {"done", "failed"}) =>
       \A pan \in Pans : customers[pan] # Unset
  /\ (\E p \in Seeders : phase[p] = "done") =>
       \A pan \in Pans, f \in Fields : customers[pan][f] # Unset

\* A run under way found the field unset, and will fill it in.
Backfilling(pan, f) ==
  \E p \in Seeders :
    seen[p][pan] \notin {Unset, Unread} /\ seen[p][pan][f] = Unset

\* An edit that no run under way is about to overwrite.
Settled(pan, f) ==
  /\ customers[pan] # Unset
  /\ customers[pan][f] = "edited"
  /\ ~Backfilling(pan, f)

\* "Never overwriting a value someone might have edited" (seed.py:137), as far as
\* it is true: an edit survives every later run, and it can be lost only to a run
\* that had found the field unset and has not committed yet.
EditsSurvive ==
  [][\A pan \in Pans, f \in Fields : Settled(pan, f) => Settled(pan, f)']_seedVars
=============================================================================

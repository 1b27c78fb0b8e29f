------------------------------ MODULE Seeding ------------------------------
(***************************************************************************)
(* The reseed command (cmd/reseed, platform/wiring Reseed, platform/seed   *)
(* Load): everything is wiped, then the demo dataset is created row by row *)
(* in the order of its parts.  The command may fail or be killed anywhere, *)
(* and is then run again.  Between two runs the application adds rows.     *)
(***************************************************************************)
EXTENDS Naturals, Sequences

CONSTANTS Dataset,   \* the sequence of <<table, row>> Load creates
          Unique,    \* tables that refuse a second copy of a row
          MaxCopies  \* bound: copies of one row

ASSUME SeedingAssumption ==
    /\ Dataset \in Seq({"users", "employers", "roles", "candidates", "profiles",
                        "interviews", "applications"} \X Nat)
    /\ \A i, j \in 1..Len(Dataset) : Dataset[i] = Dataset[j] => i = j
    /\ MaxCopies \in Nat \ {0}

VARIABLES
    copies,    \* [rows of the dataset -> how many there are]
    strays,    \* tables with a row that is not of the dataset
    next,      \* the row Load creates next
    command    \* "idle", "resetting", "loading", "ok", "failed"

seedVars == <<copies, strays, next, command>>

-----------------------------------------------------------------------------
DemoRows == {Dataset[i] : i \in 1..Len(Dataset)}
Tables   == {"users", "employers", "roles", "candidates", "profiles", "interviews", "applications"}

SeedingTypeOK ==
    /\ copies \in [DemoRows -> 0..MaxCopies]
    /\ strays \subseteq Tables
    /\ next \in 1..(Len(Dataset) + 1)
    /\ command \in {"idle", "resetting", "loading", "ok", "failed"}

SeedingInit ==
    /\ copies = [r \in DemoRows |-> 0]
    /\ strays = {}
    /\ next = 1
    /\ command = "idle"

-----------------------------------------------------------------------------
StartReseed ==
    /\ command \in {"idle", "ok", "failed"}
    /\ command' = "resetting"
    /\ UNCHANGED <<copies, strays, next>>

\* A faulty Truncated: a table that was added later is not named.
TruncatedButOne == Tables \ {"applications"}

\* TruncateAll: one statement, which names every table of the application.
Truncated == Tables

Reset ==
    /\ command = "resetting"
    /\ copies' = [r \in DemoRows |-> IF r[1] \in Truncated THEN 0 ELSE copies[r]]
    /\ strays' = strays \ Truncated
    /\ next' = 1
    /\ command' = "loading"

\* One Create: refused if it is there already.
Create ==
    /\ command = "loading" /\ next <= Len(Dataset)
    /\ LET row == Dataset[next] IN
       IF row[1] \in Unique /\ copies[row] > 0
       THEN command' = "failed" /\ UNCHANGED <<copies, next>>
       ELSE /\ copies[row] < MaxCopies
            /\ copies' = [copies EXCEPT ![row] = @ + 1]
            /\ next' = next + 1
            /\ UNCHANGED command
    /\ UNCHANGED strays

Succeed ==
    /\ command = "loading" /\ next = Len(Dataset) + 1
    /\ command' = "ok"
    /\ UNCHANGED <<copies, strays, next>>

\* The reset, the embedder, the model or a statement fails, or the command is
\* killed: what is loaded stays, and the exit code is not zero.
Fail ==
    /\ command \in {"resetting", "loading"}
    /\ command' = "failed"
    /\ UNCHANGED <<copies, strays, next>>

\* The application, before the next run.
Use(table) ==
    /\ command \in {"idle", "ok", "failed"}
    /\ strays' = strays \cup {table}
    /\ command' = "idle"
    /\ UNCHANGED <<copies, next>>

SeedingNext ==
    \/ StartReseed \/ Reset \/ Create \/ Succeed \/ Fail
    \/ \E table \in Tables : Use(table)

SeedingSpec == SeedingInit /\ [][SeedingNext]_seedVars

-----------------------------------------------------------------------------
(* After a run that succeeded the store is exactly the dataset, whatever       *)
(* earlier runs left behind half-way and whatever the application added: no    *)
(* row twice, none missing, nothing else (Reseed exits non-zero otherwise,     *)
(* "so CI sees an empty-database load rather than a silent success").          *)
SeedIsWhole ==
    command = "ok" => strays = {} /\ \A r \in DemoRows : copies[r] = 1

=============================================================================

------------------------------ MODULE Rotation ------------------------------
(***************************************************************************)
(* Re-encryption under a new key (platform/wiring/reencrypt.go) of one of  *)
(* the tables that are listed newest first (candidates, talent_profiles,   *)
(* talent_interviews), page by page, while the application goes on using   *)
(* it.  Rows are numbered by their creation.  The application writes with  *)
(* the new key already; it is redeployed before the command runs           *)
(* (docs/runbooks/key-rotation.md).                                        *)
(***************************************************************************)
EXTENDS Naturals, FiniteSets

CONSTANTS MaxSealed,    \* bound: rows ever created
          OldRows,     \* rows stored under the old key when the pass begins
          PageSize,   \* kernel.MaxPageSize
          MaxEdits    \* bound: edits of a row

ASSUME RotationAssumption ==
    /\ {MaxSealed, OldRows, MaxEdits} \subseteq Nat
    /\ OldRows <= MaxSealed
    /\ PageSize \in Nat \ {0}

VARIABLES
    table,      \* the rows: a function on the ids that exist
    created,    \* rows created so far
    gone,       \* history: a row was deleted since the pass began
    pass,       \* "listing", "counting", "writing", "done", "aborted"
    pageNo, batch, delivered, total   \* the locals of eachPage

rotationVars == <<table, created, gone, pass, pageNo, batch, delivered, total>>

SealedRow == [key : {"old", "new"}, text : 0..MaxEdits]
Rows == DOMAIN table

RotationTypeOK ==
    /\ Rows \subseteq 1..MaxSealed
    /\ table \in [Rows -> SealedRow]
    /\ created \in Nat
    /\ gone \in BOOLEAN
    /\ pass \in {"listing", "counting", "writing", "done", "aborted"}
    /\ pageNo \in Nat \ {0}
    /\ batch \subseteq [id : Nat, text : 0..MaxEdits]
    /\ {delivered, total} \subseteq Nat

RotationInit ==
    /\ table = [r \in 1..OldRows |-> [key |-> "old", text |-> 0]]
    /\ created = OldRows
    /\ gone = FALSE
    /\ pass = "listing" /\ pageNo = 1 /\ batch = {} /\ delivered = 0 /\ total = 0

-----------------------------------------------------------------------------
\* ORDER BY created_at DESC LIMIT .. OFFSET ..
Rank(r) == Cardinality({s \in Rows : s >= r})
OnPage(n) == {r \in Rows : (n - 1) * PageSize < Rank(r) /\ Rank(r) <= n * PageSize}

ListPage ==
    /\ pass = "listing"
    /\ batch' = {[id |-> r, text |-> table[r].text] : r \in OnPage(pageNo)}
    /\ pass' = "counting"
    /\ UNCHANGED <<table, created, gone, pageNo, delivered, total>>

\* The total is a statement of its own; an empty page ends the pass.
Count ==
    /\ pass = "counting"
    /\ total' = Cardinality(Rows)
    /\ pass' = IF batch = {} THEN "done" ELSE "writing"
    /\ UNCHANGED <<table, created, gone, pageNo, batch, delivered>>

\* A faulty Finished: the pass ends one row early.
FinishedEarly(written) == written + 1 >= total

Finished(written) == written >= total

\* Each row is written back whole, as it was read, under the new key.  A row that
\* has been deleted aborts the pass.
Rewrite(item) ==
    /\ pass = "writing"
    /\ item \in batch /\ \A other \in batch : other.id <= item.id
    /\ IF item.id \in Rows
       THEN /\ table' = [table EXCEPT ![item.id] = [key |-> "new", text |-> item.text]]
            /\ batch' = batch \ {item}
            /\ delivered' = delivered + 1
            /\ LET last == batch' = {} IN
               /\ pass' = IF last THEN IF Finished(delivered + 1) THEN "done" ELSE "listing"
                                  ELSE "writing"
               /\ pageNo' = IF last /\ ~Finished(delivered + 1) THEN pageNo + 1 ELSE pageNo
       ELSE /\ pass' = "aborted" /\ batch' = {}
            /\ UNCHANGED <<table, delivered, pageNo>>
    /\ UNCHANGED <<created, gone, total>>

\* "Re-run if it is interrupted": the pass stops anywhere, and is started anew.
Interrupt ==
    /\ pass \in {"listing", "counting", "writing"}
    /\ pass' = "aborted" /\ batch' = {}
    /\ UNCHANGED <<table, created, gone, pageNo, delivered, total>>

Rerun ==
    /\ pass = "aborted"
    /\ pass' = "listing" /\ pageNo' = 1 /\ delivered' = 0 /\ total' = 0
    /\ gone' = FALSE
    /\ UNCHANGED <<table, created, batch>>

-----------------------------------------------------------------------------
(* The application. *)

InsertRow ==
    /\ created < MaxSealed
    /\ created' = created + 1
    /\ table' = [r \in Rows \cup {created + 1} |->
                   IF r \in Rows THEN table[r] ELSE [key |-> "new", text |-> 0]]
    /\ UNCHANGED <<gone, pass, pageNo, batch, delivered, total>>

EditRow(r) ==
    /\ table[r].text < MaxEdits
    /\ table' = [table EXCEPT ![r] = [key |-> "new", text |-> @.text + 1]]
    /\ UNCHANGED <<created, gone, pass, pageNo, batch, delivered, total>>

DeleteRow(r) ==
    /\ table' = [s \in Rows \ {r} |-> table[s]]
    /\ gone' = TRUE
    /\ UNCHANGED <<created, pass, pageNo, batch, delivered, total>>

RotationNext ==
    \/ ListPage \/ Count \/ Interrupt \/ Rerun \/ InsertRow
    \/ \E item \in batch : Rewrite(item)
    \/ \E r \in Rows : EditRow(r) \/ DeleteRow(r)

RotationSpec == RotationInit /\ [][RotationNext]_rotationVars

-----------------------------------------------------------------------------
(* "A successful run leaves nothing on the old key" (key-rotation.md), also    *)
(* with the application up: rows created during the pass shift the pages, but  *)
(* only towards those still to come, so that every old row is met.             *)
NothingOnTheOldKey ==
    pass = "done" /\ ~gone => \A r \in Rows : table[r].key = "new"

(* The same as the runbook says it: "deleted rows need no work" (key-rotation.md). *)
(* It fails: the rows after a deleted one move to a page that has been read        *)
(* (eachPage goes by OFFSET).                                                      *)
NothingLeftOnTheOldKey ==
    pass = "done" => \A r \in Rows : table[r].key = "new"

=============================================================================

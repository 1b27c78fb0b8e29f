--------------------------- MODULE ErasureProofs ---------------------------
(***************************************************************************)
(* Proofs about Erasure for any number of candidates, overlapping erasure   *)
(* calls and sweeps, with failures and restarts anywhere.                   *)
(***************************************************************************)
EXTENDS Erasure, TLAPS

\* What an eraser past a statement of the cascade has achieved.
Achieved ==
  \A e \in Erasers :
    /\ step[e] \in {"user", "audit"} => subject[e] \notin present
    /\ step[e] = "audit" => subject[e] \in anonymised

\* The inductive invariant: SuccessMeansErased needs to know what a cascade has
\* done before the statement that reports success.
ErasureInv ==
  TypeOK /\ Achieved /\ ErasedHasNoRecords /\ SuccessMeansErased /\ IdentityGoesLast

-----------------------------------------------------------------------------
\* Requests of others write no row without its candidate.
LEMMA WriteKeeps ==
  ASSUME ErasureInv, NEW c \in Candidates, Write(c) \/ Age(c)
  PROVE  ErasureInv'
<1> USE DEF ErasureInv, TypeOK, Achieved, ErasedHasNoRecords, SuccessMeansErased,
            IdentityGoesLast, Erasers, Kinds, Processes, database, memory, requests, erasers
<1>1. ASSUME NEW k \in Kinds, Insert(c, k) PROVE ErasureInv'
  BY <1>1 DEF Insert
<1>2. ASSUME NEW p \in Processes, Apply(c, p) PROVE ErasureInv'
  BY <1>2 DEF Apply
<1>3. ASSUME NEW p \in Processes, Record(p, c) PROVE ErasureInv'
  BY <1>3 DEF Record
<1>4. CASE RaiseContest(c)
  BY <1>4 DEF RaiseContest
<1>5. CASE CreateContest(c)
  BY <1>5 DEF CreateContest
<1>6. CASE Age(c)
  BY <1>6 DEF Age
<1> QED
  BY <1>1, <1>2, <1>3, <1>4, <1>5, <1>6 DEF Write

\* Each statement of a cascade achieves what the next one relies on.
LEMMA CascadeKeeps ==
  ASSUME ErasureInv, NEW e \in Erasers, CascadeStep(e)
  PROVE  ErasureInv'
<1> USE CandidatesAssumption
    DEF ErasureInv, TypeOK, Achieved, ErasedHasNoRecords, SuccessMeansErased,
        IdentityGoesLast, Statements, After, Kinds, Processes, Advance, End,
        database, memory, requests, erasers
<1>1. CASE DeleteRecords(e)
  BY <1>1 DEF DeleteRecords
<1>2. CASE DeleteContests(e)
  BY <1>2 DEF DeleteContests
<1>3. CASE DeleteCandidate(e)
  BY <1>3 DEF DeleteCandidate
<1>4. CASE Anonymize(e)
  BY <1>4 DEF Anonymize
<1>5. CASE TombstoneActor(e)
  BY <1>5 DEF TombstoneActor
<1>6. CASE StatementFails(e)
  BY <1>6 DEF StatementFails
<1> QED
  BY <1>1, <1>2, <1>3, <1>4, <1>5, <1>6 DEF CascadeStep

\* Cascades begin anew, end with a sweep, or are lost with their process.
LEMMA ControlKeeps ==
  ASSUME ErasureInv,
         \/ \E e \in Calls, c \in Candidates : DeleteMyData(e, c)
         \/ \E e \in Sweepers :
              Sweep(e) \/ SweepEnds(e) \/ \E c \in Candidates : Visit(e, c)
         \/ \E p \in Processes : Restart(p)
  PROVE  ErasureInv'
<1> USE CandidatesAssumption
    DEF ErasureInv, TypeOK, Achieved, ErasedHasNoRecords, SuccessMeansErased,
        IdentityGoesLast, Erasers, Statements, After, Kinds, Processes, Begin,
        database, memory, requests, erasers
<1>1. ASSUME NEW e \in Calls, NEW c \in Candidates, DeleteMyData(e, c) PROVE ErasureInv'
  BY <1>1 DEF DeleteMyData
<1>2. ASSUME NEW e \in Sweepers, Sweep(e) PROVE ErasureInv'
  BY <1>2 DEF Sweep, Eligible
<1>3. ASSUME NEW e \in Sweepers, SweepEnds(e) PROVE ErasureInv'
  BY <1>3 DEF SweepEnds
<1>4. ASSUME NEW e \in Sweepers, NEW c \in Candidates, Visit(e, c) PROVE ErasureInv'
  BY <1>4 DEF Visit
<1>5. ASSUME NEW p \in Processes, Restart(p) PROVE ErasureInv'
  BY <1>5 DEF Restart, Home
<1> QED
  BY <1>1, <1>2, <1>3, <1>4, <1>5

LEMMA ErasureStep == ErasureInv /\ [Next]_vars => ErasureInv'
<1> SUFFICES ASSUME ErasureInv, [Next]_vars PROVE ErasureInv'
  OBVIOUS
<1>1. CASE UNCHANGED vars
  BY <1>1
  DEF vars, database, memory, requests, erasers, ErasureInv, TypeOK, Achieved,
      ErasedHasNoRecords, SuccessMeansErased, IdentityGoesLast
<1>2. CASE Next
  <2>1. Active \subseteq Candidates /\ Calls \subseteq Erasers /\ Sweepers \subseteq Erasers
    BY CandidatesAssumption DEF Erasers
  <2> QED
    BY <1>2, <2>1, WriteKeeps, CascadeKeeps, ControlKeeps DEF Next, SweeperStep
<1> QED
  BY <1>1, <1>2

\* The erasure invariant holds throughout.
LEMMA ErasureInvariant == Spec => []ErasureInv
<1>1. Init => ErasureInv
  BY CandidatesAssumption
  DEF Init, ErasureInv, TypeOK, Achieved, ErasedHasNoRecords, SuccessMeansErased,
      IdentityGoesLast, Erasers, Statements, After, Kinds, Processes
<1> QED
  BY <1>1, ErasureStep, PTL DEF Spec

(* Every variable keeps its type: no statement of a cascade, nor a request beside  *)
(* it, leaves a row, a report or an eraser in a state the code has none for.       *)
THEOREM ErasureTypeCorrect == Spec => []TypeOK
<1>1. ErasureInv => TypeOK
  BY DEF ErasureInv
<1> QED
  BY <1>1, ErasureInvariant, PTL

\* No row about an erased candidate survives or appears, whatever was under way.
THEOREM NoRowsOfErased == Spec => []ErasedHasNoRecords
<1>1. ErasureInv => ErasedHasNoRecords
  BY DEF ErasureInv
<1> QED
  BY <1>1, ErasureInvariant, PTL

\* A reported erasure is complete in the database, and remains so.
THEOREM ReportedErasureIsComplete == Spec => []SuccessMeansErased
<1>1. ErasureInv => SuccessMeansErased
  BY DEF ErasureInv
<1> QED
  BY <1>1, ErasureInvariant, PTL

\* A user is anonymised only after the candidate is gone.
THEOREM IdentityIsLast == Spec => []IdentityGoesLast
<1>1. ErasureInv => IdentityGoesLast
  BY DEF ErasureInv
<1> QED
  BY <1>1, ErasureInvariant, PTL
=============================================================================

----------------------------- MODULE JobsProofs -----------------------------
(***************************************************************************)
(* Proofs about Jobs for any number of tasks and workers, any retry limit   *)
(* and any faults but handlers that outlive their claim.                    *)
(***************************************************************************)
EXTENDS Jobs, TLAPS

\* What a worker under the claim knows of the claim's entry: it is there, it is
\* not yet done while the handler runs, and it belongs to no one else.
EntryHeld ==
  \A t \in Tasks : \A w \in Workers :
    Claimant(w, t) =>
      /\ key[t] # "free"
      /\ pc[w] \in {"run", "complete"} => key[t] = "in-progress"

\* The inductive invariant: NoOverlap is kept by Claim because a free entry has
\* no claimant, and a free entry has none because nobody else's Release can
\* take it away from under one.
ClaimInv == TypeOK /\ EntryHeld /\ NoOverlap

-----------------------------------------------------------------------------
\* The steps of one worker leave every variable in its type.
LEMMA WorkerType ==
  ASSUME TypeOK, NEW w \in Workers, HandlerStep(w) \/ Crash(w) \/ Shutdown(w)
  PROVE  TypeOK'
<1> USE MaxRetryAssumption, NobodyAssumption DEF TypeOK, Busy, UnderClaim, Goto, Free
<1>1. CASE Claim(w)
  BY <1>1 DEF Claim
<1>2. CASE SkipDuplicate(w)
  BY <1>2 DEF SkipDuplicate
<1>3. CASE ClaimError(w)
  BY <1>3 DEF ClaimError
<1>4. CASE RunSucceeds(w)
  BY <1>4 DEF RunSucceeds, MaxEffects
<1>5. CASE RunFails(w)
  BY <1>5 DEF RunFails
<1>6. CASE Complete(w)
  BY <1>6 DEF Complete
<1>7. CASE CompleteError(w)
  BY <1>7 DEF CompleteError
<1>8. CASE Release(w)
  BY <1>8 DEF Release
<1>9. CASE ReleaseError(w)
  BY <1>9 DEF ReleaseError
<1>10. CASE Ack(w)
  BY <1>10 DEF Ack
<1>11. CASE Nack(w)
  BY <1>11 DEF Nack, Retry
<1>12. CASE Crash(w)
  BY <1>12 DEF Crash
<1>13. CASE Shutdown(w)
  BY <1>13 DEF Shutdown
<1> QED
  BY <1>1, <1>2, <1>3, <1>4, <1>5, <1>6, <1>7, <1>8, <1>9, <1>10, <1>11, <1>12, <1>13
  DEF HandlerStep

\* So do the steps of asynq and of the claim store.
LEMMA TaskType ==
  ASSUME TypeOK, NEW t \in Tasks,
         \/ Enqueue(t) \/ Forward(t) \/ Recover(t) \/ LoseLease(t)
         \/ ClaimExpires(t) \/ DoneExpires(t)
         \/ \E w \in Workers : Deliver(w, t)
  PROVE  TypeOK'
<1> USE MaxRetryAssumption, NobodyAssumption DEF TypeOK
<1>1. CASE Enqueue(t)
  BY <1>1 DEF Enqueue
<1>2. CASE Forward(t)
  BY <1>2 DEF Forward
<1>3. CASE Recover(t)
  BY <1>3 DEF Recover, Retry
<1>4. CASE LoseLease(t)
  BY <1>4 DEF LoseLease, Retry
<1>5. CASE ClaimExpires(t)
  BY <1>5 DEF ClaimExpires
<1>6. CASE DoneExpires(t)
  BY <1>6 DEF DoneExpires
<1>7. CASE \E w \in Workers : Deliver(w, t)
  BY <1>7 DEF Deliver, Goto, Busy
<1> QED
  BY <1>1, <1>2, <1>3, <1>4, <1>5, <1>6, <1>7

LEMMA TypeStep == TypeOK /\ [Next]_vars => TypeOK'
<1> SUFFICES ASSUME TypeOK, [Next]_vars PROVE TypeOK'
  OBVIOUS
<1>1. CASE UNCHANGED vars
  BY <1>1 DEF vars, TypeOK
<1>2. CASE Next
  BY <1>2, WorkerType, TaskType DEF Next
<1> QED
  BY <1>1, <1>2

\* Every reachable state of the task system is well typed.
THEOREM TypeCorrect == Spec => []TypeOK
<1>1. Init => TypeOK
  BY MaxRetryAssumption, NobodyAssumption DEF Init, TypeOK, Busy, UnderClaim, MaxEffects
<1> QED
  BY <1>1, TypeStep, PTL DEF Spec

-----------------------------------------------------------------------------
\* A step of one worker keeps the claims: only Claim puts a worker under one, and
\* the entry Release takes away has no second claimant.
LEMMA WorkerKeepsClaims ==
  ASSUME ClaimInv, NEW v \in Workers, HandlerStep(v) \/ Crash(v) \/ Shutdown(v)
  PROVE  (EntryHeld /\ NoOverlap)'
<1> USE DEF ClaimInv, TypeOK, EntryHeld, NoOverlap, Claimant, UnderClaim, Busy, Goto, Free
<1>1. CASE Claim(v)
  BY <1>1 DEF Claim
<1>2. CASE SkipDuplicate(v)
  BY <1>2 DEF SkipDuplicate
<1>3. CASE ClaimError(v)
  BY <1>3 DEF ClaimError
<1>4. CASE RunSucceeds(v)
  BY <1>4 DEF RunSucceeds
<1>5. CASE RunFails(v)
  BY <1>5 DEF RunFails
<1>6. CASE Complete(v)
  BY <1>6 DEF Complete
<1>7. CASE CompleteError(v)
  BY <1>7 DEF CompleteError
<1>8. CASE Release(v)
  BY <1>8 DEF Release
<1>9. CASE ReleaseError(v)
  BY <1>9 DEF ReleaseError
<1>10. CASE Ack(v)
  BY <1>10, NobodyAssumption DEF Ack
<1>11. CASE Nack(v)
  BY <1>11, NobodyAssumption DEF Nack
<1>12. CASE Crash(v)
  BY <1>12, NobodyAssumption DEF Crash
<1>13. CASE Shutdown(v)
  BY <1>13, NobodyAssumption DEF Shutdown
<1> QED
  BY <1>1, <1>2, <1>3, <1>4, <1>5, <1>6, <1>7, <1>8, <1>9, <1>10, <1>11, <1>12, <1>13
  DEF HandlerStep

\* So does a step of asynq or of the claim store, if no claim expires under the
\* worker that holds it.
LEMMA TaskKeepsClaims ==
  ASSUME ClaimInv, "slow" \notin Faults, NEW t \in Tasks,
         \/ Enqueue(t) \/ Forward(t) \/ Recover(t) \/ LoseLease(t)
         \/ ClaimExpires(t) \/ DoneExpires(t)
         \/ \E w \in Workers : Deliver(w, t)
  PROVE  (EntryHeld /\ NoOverlap)'
<1> USE DEF ClaimInv, TypeOK, EntryHeld, NoOverlap, Claimant, UnderClaim
<1>1. CASE Enqueue(t)
  BY <1>1 DEF Enqueue
<1>2. CASE Forward(t)
  BY <1>2 DEF Forward
<1>3. CASE Recover(t)
  BY <1>3 DEF Recover
<1>4. CASE LoseLease(t)
  BY <1>4 DEF LoseLease
<1>5. CASE ClaimExpires(t)
  BY <1>5 DEF ClaimExpires
<1>6. CASE DoneExpires(t)
  BY <1>6 DEF DoneExpires
<1>7. CASE \E w \in Workers : Deliver(w, t)
  BY <1>7 DEF Deliver, Goto
<1> QED
  BY <1>1, <1>2, <1>3, <1>4, <1>5, <1>6, <1>7

LEMMA ClaimStep ==
  ASSUME "slow" \notin Faults
  PROVE  ClaimInv /\ [Next]_vars => ClaimInv'
<1> SUFFICES ASSUME ClaimInv, [Next]_vars PROVE ClaimInv'
  OBVIOUS
<1>1. TypeOK'
  BY TypeStep DEF ClaimInv
<1>2. CASE UNCHANGED vars
  BY <1>1, <1>2 DEF vars, ClaimInv, EntryHeld, NoOverlap, Claimant
<1>3. CASE Next
  BY <1>1, <1>3, WorkerKeepsClaims, TaskKeepsClaims DEF Next, ClaimInv
<1> QED
  BY <1>2, <1>3

\* The claim invariant holds throughout.
LEMMA ClaimsHeld == ASSUME "slow" \notin Faults PROVE Spec => []ClaimInv
<1>1. Init => ClaimInv
  <2> SUFFICES ASSUME Init PROVE ClaimInv
    OBVIOUS
  <2>1. TypeOK
    BY MaxRetryAssumption, NobodyAssumption DEF Init, TypeOK, Busy, UnderClaim, MaxEffects
  <2>2. EntryHeld /\ NoOverlap
    BY DEF Init, EntryHeld, NoOverlap, Claimant, UnderClaim
  <2> QED
    BY <2>1, <2>2 DEF ClaimInv
<1> QED
  BY <1>1, ClaimStep, PTL DEF Spec

\* Two workers are never inside the handler of one task, through any sequence of
\* crashes, redeliveries and claim store errors.
THEOREM ExclusiveHandlers == ASSUME "slow" \notin Faults PROVE Spec => []NoOverlap
<1>1. ClaimInv => NoOverlap
  BY DEF ClaimInv
<1> QED
  BY <1>1, ClaimsHeld, PTL

\* A task recorded as done stays so, and is not run, while asynq may deliver it.
THEOREM DoneIsKept == ASSUME "slow" \notin Faults PROVE Spec => DoneSuppresses
<1> DEFINE Kept ==
      \A t \in Tasks : key[t] = "done" =>
        /\ effects'[t] = effects[t]
        /\ key'[t] = "done" \/ queue[t] \in {"completed", "archived"}
<1>1. ASSUME ClaimInv, Next PROVE Kept
  <2> USE <1>1 DEF ClaimInv, TypeOK, EntryHeld, Claimant, UnderClaim, Busy
  <2>1. ASSUME NEW v \in Workers, HandlerStep(v) PROVE Kept
    BY <2>1 DEF HandlerStep, Claim, SkipDuplicate, ClaimError, RunSucceeds, RunFails,
                Complete, CompleteError, Release, ReleaseError, Ack, Nack
  <2>2. ASSUME NEW v \in Workers, Crash(v) \/ Shutdown(v) \/ \E t \in Tasks : Deliver(v, t)
        PROVE  Kept
    BY <2>2 DEF Crash, Shutdown, Deliver
  <2>3. ASSUME NEW t \in Tasks,
               \/ Enqueue(t) \/ Forward(t) \/ Recover(t) \/ LoseLease(t)
               \/ ClaimExpires(t) \/ DoneExpires(t)
        PROVE  Kept
    BY <2>3 DEF Enqueue, Forward, Recover, LoseLease, ClaimExpires, DoneExpires
  <2> QED
    BY <2>1, <2>2, <2>3 DEF Next
<1>2. ClaimInv /\ [Next]_vars => [Kept]_vars
  BY <1>1
<1> QED
  BY <1>2, ClaimsHeld, PTL DEF Spec, DoneSuppresses

-----------------------------------------------------------------------------
(* Without faults *)

\* What a worker knows of the task in its hands at each of its steps.
WorkerKnows(w) ==
  LET t == job[w] IN
  pc[w] # "idle" =>
    /\ lessee[t] = w
    /\ queue[t] = "active"
    /\ pc[w] \in {"claim", "nack"} => key[t] = "free" /\ effects[t] = 0
    /\ pc[w] \in {"run", "release"} => key[t] = "in-progress" /\ effects[t] = 0
    /\ pc[w] = "complete" => key[t] = "in-progress" /\ effects[t] = 1
    /\ pc[w] = "ack" => key[t] = "done" /\ effects[t] = 1

\* What the queue tells of a task: an active one is in a worker's hands, a
\* completed one has had its effect, any other has not.
TaskKnows(t) ==
  /\ queue[t] = "active" => lessee[t] \in Workers /\ job[lessee[t]] = t
  /\ queue[t] = "completed" => key[t] # "in-progress" /\ effects[t] = 1
  /\ queue[t] \notin {"active", "completed"} => key[t] = "free" /\ effects[t] = 0

\* The inductive invariant.
FaultlessInv ==
  /\ TypeOK
  /\ \A w \in Workers : WorkerKnows(w)
  /\ \A t \in Tasks : TaskKnows(t)

\* A worker's own step: no error of the claim store is possible.
LEMMA FaultlessWorker ==
  ASSUME Faults = {}, FaultlessInv, NEW v \in Workers, HandlerStep(v)
  PROVE  /\ \A w \in Workers : WorkerKnows(w)'
         /\ \A t \in Tasks : TaskKnows(t)'
<1> USE NobodyAssumption
    DEF FaultlessInv, TypeOK, WorkerKnows, TaskKnows, UnderClaim, Busy, Goto, Free
<1>1. CASE Claim(v)
  BY <1>1 DEF Claim
<1>2. CASE RunSucceeds(v)
  BY <1>2 DEF RunSucceeds, MaxEffects
<1>3. CASE RunFails(v)
  BY <1>3 DEF RunFails
<1>4. CASE Complete(v)
  BY <1>4 DEF Complete
<1>5. CASE Release(v)
  BY <1>5 DEF Release
<1>6. CASE Ack(v)
  BY <1>6 DEF Ack
<1>7. CASE Nack(v)
  BY <1>7 DEF Nack, Retry
<1>8. ~(SkipDuplicate(v) \/ ClaimError(v) \/ CompleteError(v) \/ ReleaseError(v))
  BY DEF SkipDuplicate, ClaimError, CompleteError, ReleaseError, CutOff, Live
<1> QED
  BY <1>1, <1>2, <1>3, <1>4, <1>5, <1>6, <1>7, <1>8 DEF HandlerStep

\* A step of asynq or of the claim store: nothing is recovered and no claim
\* expires, for both would need a task in nobody's hands.
LEMMA FaultlessTask ==
  ASSUME Faults = {}, FaultlessInv, NEW t \in Tasks,
         \/ Enqueue(t) \/ Forward(t) \/ Recover(t) \/ LoseLease(t)
         \/ ClaimExpires(t) \/ DoneExpires(t)
         \/ \E w \in Workers : Deliver(w, t)
  PROVE  /\ \A w \in Workers : WorkerKnows(w)'
         /\ \A u \in Tasks : TaskKnows(u)'
<1> USE NobodyAssumption
    DEF FaultlessInv, TypeOK, WorkerKnows, TaskKnows, UnderClaim, Busy
<1>1. CASE Enqueue(t)
  BY <1>1 DEF Enqueue
<1>2. CASE Forward(t)
  BY <1>2 DEF Forward
<1>3. CASE DoneExpires(t)
  BY <1>3 DEF DoneExpires
<1>4. CASE \E w \in Workers : Deliver(w, t)
  BY <1>4 DEF Deliver, Goto
<1>5. ~(Recover(t) \/ LoseLease(t))
  BY DEF Recover, LoseLease
<1>6. ~ClaimExpires(t)
  BY DEF ClaimExpires
<1> QED
  BY <1>1, <1>2, <1>3, <1>4, <1>5, <1>6

LEMMA FaultlessStep ==
  ASSUME Faults = {}
  PROVE  FaultlessInv /\ [Next]_vars => FaultlessInv'
<1> SUFFICES ASSUME FaultlessInv, [Next]_vars PROVE FaultlessInv'
  OBVIOUS
<1>1. TypeOK'
  BY TypeStep DEF FaultlessInv
<1>2. CASE UNCHANGED vars
  BY <1>1, <1>2 DEF vars, FaultlessInv, WorkerKnows, TaskKnows
<1>3. CASE Next
  <2>1. \A w \in Workers : ~(Crash(w) \/ Shutdown(w))
    BY DEF Crash, Shutdown
  <2> QED
    BY <1>1, <1>3, <2>1, FaultlessWorker, FaultlessTask DEF Next, FaultlessInv
<1> QED
  BY <1>2, <1>3

\* While nothing but a handler fails, a task that leaves the queue as completed
\* has had its effect exactly once, and an archived one not at all.
THEOREM ExactlyOnceWithoutFaults == ASSUME Faults = {} PROVE Spec => []SettledExactly
<1>1. Init => FaultlessInv
  <2> SUFFICES ASSUME Init PROVE FaultlessInv
    OBVIOUS
  <2>1. TypeOK
    BY MaxRetryAssumption, NobodyAssumption DEF Init, TypeOK, Busy, UnderClaim, MaxEffects
  <2> QED
    BY <2>1 DEF Init, FaultlessInv, WorkerKnows, TaskKnows
<1>2. FaultlessInv => SettledExactly
  BY DEF FaultlessInv, TaskKnows, SettledExactly
<1> QED
  BY <1>1, <1>2, FaultlessStep, PTL DEF Spec
=============================================================================

-------------------------------- MODULE Jobs --------------------------------
(***************************************************************************)
(* Background tasks: the idempotent handler framework of                    *)
(* internal/adapters/inbound/jobs over its Redis claim store, driven by     *)
(* asynq's at-least-once delivery. asynq is external: Enqueue, Deliver, the  *)
(* retry set, the archive, leases and their recovery are modelled from how   *)
(* the worker configures and relies on it. A task's idempotency key is its   *)
(* asynq task id, so tasks and keys are one to one.                          *)
(*                                                                         *)
(* Faults names what may go wrong besides a handler returning an error:      *)
(*   "crash"    a worker process dies and keeps nothing                      *)
(*   "shutdown" a deploy outlasts ShutdownTimeout: running tasks go back      *)
(*   "lease"    asynq gives up on a delivery and cancels the context of its     *)
(*              handler, which may still go on                               *)
(*   "redis"    a call to the claim store fails                              *)
(*   "slow"     a handler outlives the claim's TTL                           *)
(***************************************************************************)
EXTENDS Naturals

CONSTANTS
  Tasks,      \* enqueued tasks
  Workers,    \* handler goroutines of the whole fleet
  MaxRetry,   \* RetryPolicy.MaxRetry
  Faults,
  NoTask, NoWorker

ASSUME MaxRetryAssumption == MaxRetry \in Nat
ASSUME NobodyAssumption == NoTask \notin Tasks /\ NoWorker \notin Workers

VARIABLES
  queue,     \* per task: where asynq holds it
  retried,   \* per task: asynq's retry count
  lessee,    \* per task: the worker whose delivery asynq still waits for
  key,       \* per task: its entry in the claim store
  pc, job,   \* per worker: its next step and the task it was handed
  effects    \* per task: how often the handler function ran to success

vars == <<queue, retried, lessee, key, pc, job, effects>>

\* The handler function and what follows it run under the claim.
UnderClaim == {"run", "complete", "release"}
Busy == {"claim", "ack", "nack"} \cup UnderClaim

\* Bound: the history counter of a task saturates at the second effect.
MaxEffects == 2

Init ==
  /\ queue = [t \in Tasks |-> "new"]
  /\ retried = [t \in Tasks |-> 0]
  /\ lessee = [t \in Tasks |-> NoWorker]
  /\ key = [t \in Tasks |-> "free"]
  /\ pc = [w \in Workers |-> "idle"]
  /\ job = [w \in Workers |-> NoTask]
  /\ effects = [t \in Tasks |-> 0]

Goto(w, l) == pc' = [pc EXCEPT ![w] = l]

\* The worker is free for its next delivery.
Free(w) == Goto(w, "idle") /\ job' = [job EXCEPT ![w] = NoTask]

-----------------------------------------------------------------------------
(* asynq *)

\* The API's dispatcher enqueues a task.
Enqueue(t) ==
  /\ queue[t] = "new"
  /\ queue' = [queue EXCEPT ![t] = "pending"]
  /\ UNCHANGED <<retried, lessee, key, pc, job, effects>>

\* A free worker takes a pending task under a lease; the wrapped handler starts.
Deliver(w, t) ==
  /\ pc[w] = "idle"
  /\ queue[t] = "pending"
  /\ queue' = [queue EXCEPT ![t] = "active"]
  /\ lessee' = [lessee EXCEPT ![t] = w]
  /\ job' = [job EXCEPT ![w] = t]
  /\ Goto(w, "claim")
  /\ UNCHANGED <<retried, key, effects>>

\* A faulty retry: the limit is not looked at.
RetryForever(t) ==
  /\ lessee' = [lessee EXCEPT ![t] = NoWorker]
  /\ queue' = [queue EXCEPT ![t] = "retry"]
  /\ retried' = [retried EXCEPT ![t] = @ + 1]

\* A delivery failed: back to the retry set, or archived once retries are spent.
Retry(t) ==
  /\ lessee' = [lessee EXCEPT ![t] = NoWorker]
  /\ IF retried[t] < MaxRetry
     THEN /\ queue' = [queue EXCEPT ![t] = "retry"]
          /\ retried' = [retried EXCEPT ![t] = @ + 1]
     ELSE /\ queue' = [queue EXCEPT ![t] = "archived"]
          /\ UNCHANGED retried

\* The handler returned nil: the task is gone from the queue, unless asynq had
\* already given up on this delivery.
Ack(w) ==
  LET t == job[w] IN
  /\ pc[w] = "ack"
  /\ IF lessee[t] = w
     THEN /\ queue' = [queue EXCEPT ![t] = "completed"]
          /\ lessee' = [lessee EXCEPT ![t] = NoWorker]
     ELSE UNCHANGED <<queue, lessee>>
  /\ Free(w)
  /\ UNCHANGED <<retried, key, effects>>

\* The handler returned an error.
Nack(w) ==
  LET t == job[w] IN
  /\ pc[w] = "nack"
  /\ IF lessee[t] = w THEN Retry(t) ELSE UNCHANGED <<queue, retried, lessee>>
  /\ Free(w)
  /\ UNCHANGED <<key, effects>>

\* The backoff has passed.
Forward(t) ==
  /\ queue[t] = "retry"
  /\ queue' = [queue EXCEPT ![t] = "pending"]
  /\ UNCHANGED <<retried, lessee, key, pc, job, effects>>

\* The worker process dies. The task stays active under a lease nobody renews,
\* and a claim it held stays in Redis.
Crash(w) ==
  /\ "crash" \in Faults
  /\ pc[w] \in Busy
  /\ lessee' = [t \in Tasks |-> IF lessee[t] = w THEN NoWorker ELSE lessee[t]]
  /\ Free(w)
  /\ UNCHANGED <<queue, retried, key, effects>>

\* The recoverer finds an active task without a live lease.
Recover(t) ==
  /\ queue[t] = "active"
  /\ lessee[t] = NoWorker
  /\ Retry(t)
  /\ UNCHANGED <<key, pc, job, effects>>

\* Worker.Run drains on shutdown; a handler that outlasts ShutdownTimeout is
\* abandoned with the process and its task requeued as it was.
Shutdown(w) ==
  LET t == job[w] IN
  /\ "shutdown" \in Faults
  /\ pc[w] \in Busy
  /\ IF lessee[t] = w
     THEN /\ queue' = [queue EXCEPT ![t] = "pending"]
          /\ lessee' = [lessee EXCEPT ![t] = NoWorker]
     ELSE UNCHANGED <<queue, lessee>>
  /\ Free(w)
  /\ UNCHANGED <<retried, key, effects>>

\* The lease runs out, or the task times out, under a handler that goes on: its
\* context is cancelled and the task is scheduled again.
LoseLease(t) ==
  /\ "lease" \in Faults
  /\ lessee[t] # NoWorker
  /\ Retry(t)
  /\ UNCHANGED <<key, pc, job, effects>>

-----------------------------------------------------------------------------
(* The handler framework: wrap and runClaimed *)

\* asynq still waits for this delivery, so its context is not cancelled.
Live(w) == lessee[job[w]] = w

\* A call to the claim store under the delivery's context can go wrong, before
\* or after Redis has carried it out.
CutOff(w) == "redis" \in Faults \/ ~Live(w)

\* Claim (SET NX) took the key: the handler function runs.
Claim(w) ==
  LET t == job[w] IN
  /\ pc[w] = "claim"
  /\ Live(w)
  /\ key[t] = "free"
  /\ key' = [key EXCEPT ![t] = "in-progress"]
  /\ Goto(w, "run")
  /\ UNCHANGED <<queue, retried, lessee, job, effects>>

\* Faulty duplicates: the deferred Release runs for them too; and a delivery
\* that waits for the claim it lost.
SkipReleasing(w) ==
  /\ pc[w] = "claim"
  /\ Live(w)
  /\ key[job[w]] # "free"
  /\ Goto(w, "release")
  /\ UNCHANGED <<queue, retried, lessee, key, job, effects>>

SkipOnlyDone(w) ==
  /\ pc[w] = "claim"
  /\ Live(w)
  /\ key[job[w]] = "done"
  /\ Goto(w, "ack")
  /\ UNCHANGED <<queue, retried, lessee, key, job, effects>>

\* The key is in progress or done: the delivery is taken for a duplicate and
\* the wrapper returns nil.
SkipDuplicate(w) ==
  /\ pc[w] = "claim"
  /\ Live(w)
  /\ key[job[w]] # "free"
  /\ Goto(w, "ack")
  /\ UNCHANGED <<queue, retried, lessee, key, job, effects>>

\* Claim failed; SET NX may or may not have been carried out.
ClaimError(w) ==
  LET t == job[w] IN
  /\ pc[w] = "claim"
  /\ CutOff(w)
  /\ \/ UNCHANGED key
     \/ key[t] = "free" /\ key' = [key EXCEPT ![t] = "in-progress"]
  /\ Goto(w, "nack")
  /\ UNCHANGED <<queue, retried, lessee, job, effects>>

RunSucceeds(w) ==
  /\ pc[w] = "run"
  /\ effects' = [effects EXCEPT ![job[w]] = IF @ < MaxEffects THEN @ + 1 ELSE @]
  /\ Goto(w, "complete")
  /\ UNCHANGED <<queue, retried, lessee, key, job>>

\* A faulty wrapper: the error is swallowed.
RunFailsSilently(w) ==
  /\ pc[w] = "run"
  /\ Goto(w, "complete")
  /\ UNCHANGED <<queue, retried, lessee, key, job, effects>>

\* The handler function returns an error or panics.
RunFails(w) ==
  /\ pc[w] = "run"
  /\ Goto(w, "release")
  /\ UNCHANGED <<queue, retried, lessee, key, job, effects>>

\* Complete writes "done" whatever the entry holds.
Complete(w) ==
  /\ pc[w] = "complete"
  /\ Live(w)
  /\ key' = [key EXCEPT ![job[w]] = "done"]
  /\ Goto(w, "ack")
  /\ UNCHANGED <<queue, retried, lessee, job, effects>>

\* Complete failed, with or without effect: the deferred Release runs and the
\* wrapper returns the error although the work is done.
CompleteError(w) ==
  /\ pc[w] = "complete"
  /\ CutOff(w)
  /\ \/ UNCHANGED key
     \/ key' = [key EXCEPT ![job[w]] = "done"]
  /\ Goto(w, "release")
  /\ UNCHANGED <<queue, retried, lessee, job, effects>>

\* A faulty Release: DEL without looking.
ReleaseAnything(w) ==
  /\ pc[w] = "release"
  /\ key' = [key EXCEPT ![job[w]] = "free"]
  /\ Goto(w, "nack")
  /\ UNCHANGED <<queue, retried, lessee, job, effects>>

\* Release deletes the entry unless it is done, whoever put it there. Its
\* context is WithoutCancel, so it reaches Redis without a lease too.
Release(w) ==
  LET t == job[w] IN
  /\ pc[w] = "release"
  /\ key' = [key EXCEPT ![t] = IF @ = "done" THEN "done" ELSE "free"]
  /\ Goto(w, "nack")
  /\ UNCHANGED <<queue, retried, lessee, job, effects>>

\* Release failed; the error is dropped and the claim stays.
ReleaseError(w) ==
  /\ "redis" \in Faults
  /\ pc[w] = "release"
  /\ Goto(w, "nack")
  /\ UNCHANGED <<queue, retried, lessee, key, job, effects>>

\* A claim's TTL runs out, for a claim nobody works under unless a handler is
\* slow: the TTL "should exceed the longest expected task runtime".
ClaimExpires(t) ==
  /\ key[t] = "in-progress"
  /\ "slow" \in Faults \/ \A w \in Workers : ~(job[w] = t /\ pc[w] \in UnderClaim)
  /\ key' = [key EXCEPT ![t] = "free"]
  /\ UNCHANGED <<queue, retried, lessee, pc, job, effects>>

\* A completed task's suppression window ends, long after its last delivery.
DoneExpires(t) ==
  /\ key[t] = "done"
  /\ queue[t] \in {"completed", "archived"}
  /\ \A w \in Workers : job[w] # t
  /\ key' = [key EXCEPT ![t] = "free"]
  /\ UNCHANGED <<queue, retried, lessee, pc, job, effects>>

-----------------------------------------------------------------------------
HandlerStep(w) ==
  \/ Claim(w) \/ SkipDuplicate(w) \/ ClaimError(w)
  \/ RunSucceeds(w) \/ RunFails(w)
  \/ Complete(w) \/ CompleteError(w)
  \/ Release(w) \/ ReleaseError(w)
  \/ Ack(w) \/ Nack(w)

Next ==
  \/ \E t \in Tasks :
       \/ Enqueue(t) \/ Forward(t) \/ Recover(t) \/ LoseLease(t)
       \/ ClaimExpires(t) \/ DoneExpires(t)
  \/ \E w \in Workers, t \in Tasks : Deliver(w, t)
  \/ \E w \in Workers : HandlerStep(w) \/ Crash(w) \/ Shutdown(w)

Spec == Init /\ [][Next]_vars

\* The steps of a handler that take no fault of Redis.
Proceed(w) ==
  \/ Claim(w) \/ SkipDuplicate(w) \/ (ClaimError(w) /\ ~Live(w))
  \/ RunSucceeds(w) \/ RunFails(w)
  \/ Complete(w) \/ (CompleteError(w) /\ ~Live(w))
  \/ Release(w)
  \/ Ack(w) \/ Nack(w)

\* What keeps running: handlers return, workers poll every queue, asynq's
\* forwarder and recoverer run in every server. Nothing obliges a fault.
Fairness ==
  /\ \A w \in Workers : WF_vars(Proceed(w))
  /\ \A t \in Tasks : SF_vars(\E w \in Workers : Deliver(w, t))
  /\ \A t \in Tasks : WF_vars(Forward(t)) /\ WF_vars(Recover(t))

FairSpec == Spec /\ Fairness

-----------------------------------------------------------------------------
(* Properties *)

\* Every variable holds what asynq, Redis and a worker can hold.
TypeOK ==
  /\ queue \in [Tasks -> {"new", "pending", "active", "retry", "archived", "completed"}]
  /\ retried \in [Tasks -> 0..MaxRetry]
  /\ lessee \in [Tasks -> Workers \cup {NoWorker}]
  /\ key \in [Tasks -> {"free", "in-progress", "done"}]
  /\ pc \in [Workers -> Busy \cup {"idle"}]
  /\ job \in [Workers -> Tasks \cup {NoTask}]
  /\ effects \in [Tasks -> 0..MaxEffects]
  /\ \A w \in Workers : pc[w] = "idle" <=> job[w] = NoTask

Claimant(w, t) == job[w] = t /\ pc[w] \in UnderClaim

\* As long as no handler outlives its claim, two workers are never inside the
\* handler of one task at once, whatever crashes, redeliveries and Redis
\* errors there are: the claim outlives every delivery made under it.
NoOverlap ==
  \A t \in Tasks : \A v, w \in Workers :
    Claimant(v, t) /\ Claimant(w, t) => v = w

\* A task recorded as done is not run again while asynq may still deliver it:
\* nothing takes the record away, not even the release of a stale claim.
DoneSuppresses ==
  [][\A t \in Tasks : key[t] = "done" =>
       /\ effects'[t] = effects[t]
       /\ key'[t] = "done" \/ queue[t] \in {"completed", "archived"}]_vars

\* Without faults a settled task had its effect exactly once, or, archived,
\* not at all.
SettledExactly ==
  \A t \in Tasks :
    /\ queue[t] = "completed" => effects[t] = 1
    /\ queue[t] = "archived" => effects[t] = 0

\* At most one effect. A task asynq hands to a second worker while the first
\* still runs it is not carried out twice.
AtMostOnce == \A t \in Tasks : effects[t] <= 1

\* Crashes, lost leases and Redis errors do not make a task hang, not even one
\* whose claim nobody will release: once deploys stop requeueing it, it leaves the
\* queue as completed or shows up in the archive.
EverySettles ==
  <>[][~ \E w \in Workers : Shutdown(w)]_vars =>
    \A t \in Tasks : queue[t] = "pending" ~> queue[t] \in {"completed", "archived"}

\* What the claim TTL is documented to give after a crash: the task is retried,
\* so a task that leaves the queue as completed has been carried out.
CompletedWasRun == \A t \in Tasks : queue[t] = "completed" => effects[t] > 0
=============================================================================

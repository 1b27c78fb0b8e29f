------------------------------ MODULE Erasure ------------------------------
(***************************************************************************)
(* The right to erasure and the retention sweep: the Eraser's cascade of    *)
(* internal/app/privacy over the Postgres stores, run by the API            *)
(* (DeleteMyData) and by the worker (RetentionSweeper), while other          *)
(* requests go on writing about the same candidates.                        *)
(*                                                                         *)
(* Profiles, applications, interviews, matches, the candidate and the user  *)
(* live in the database. Contests and the audit trail live in the memory of *)
(* each process: the worker's eraser is wired to stores of its own. A       *)
(* cascade is a sequence of statements without a transaction.               *)
(***************************************************************************)
EXTENDS Naturals, FiniteSets

CONSTANTS
  Candidates,  \* registered candidates; the id is the user's id too
  Calls,       \* DeleteMyData calls of the API, each made any number of times
  Sweepers,    \* data_retention task executions of the worker
  Active,      \* candidates who use the service; the others only age
  Failing,     \* candidates whose erasure statements may fail
  Restarting,  \* processes that may restart
  Nobody

ASSUME ErasersAssumption == Calls \cap Sweepers = {}
ASSUME CandidatesAssumption ==
  Active \subseteq Candidates /\ Failing \subseteq Candidates /\ Nobody \notin Candidates

VARIABLES
  records,     \* per candidate: the kinds of rows the database holds
  present,     \* candidates with a row in candidates
  anonymised,  \* users whose row was scrubbed
  aged,        \* users created before the retention cutoff
  contests,    \* candidates with a contest in the API process
  trail,       \* <<process, candidate>>: its audit trail names the candidate
  writing,     \* <<process, candidate>>: an audit entry about to be appended
  raising,     \* candidates with a contest about to be created
  step,        \* per eraser: the cascade statement it will run next
  subject,     \* per eraser: whom it is erasing
  todo,        \* per sweeper: listed candidates still to visit
  settled      \* candidates for whom some EraseCandidate returned nil

database == <<records, present, anonymised>>
memory == <<contests, trail>>
requests == <<writing, raising>>
erasers == <<step, subject, todo, settled>>
vars == <<database, aged, memory, requests, erasers>>

Kinds == {"profile", "application", "interview", "match"}
Processes == {"api", "worker"}
Erasers == Calls \cup Sweepers
Home(e) == IF e \in Calls THEN "api" ELSE "worker"

\* A faulty order: the identity before the candidate.
AfterIdentityFirst ==
  [profile |-> "application", application |-> "interview", interview |-> "match",
   match |-> "contest", contest |-> "user", user |-> "candidate",
   candidate |-> "audit"]

\* EraseCandidate's order, as wired by BuildEraser.
After ==
  [profile |-> "application", application |-> "interview", interview |-> "match",
   match |-> "contest", contest |-> "candidate", candidate |-> "user",
   user |-> "audit"]

Statements == DOMAIN After \cup {"audit"}

Init ==
  /\ records = [c \in Candidates |-> {}]
  /\ present = Candidates
  /\ anonymised = {}
  /\ aged = {}
  /\ contests = {}
  /\ trail = {}
  /\ writing = {}
  /\ raising = {}
  /\ step = [e \in Erasers |-> "idle"]
  /\ subject = [e \in Erasers |-> Nobody]
  /\ todo = [e \in Sweepers |-> {}]
  /\ settled = {}

-----------------------------------------------------------------------------
(* Requests that write about candidates *)

\* A row about a candidate is inserted; the foreign key wants the candidate.
Insert(c, k) ==
  /\ k \in Kinds \ {"application"}
  /\ c \in present
  /\ records' = [records EXCEPT ![c] = @ \cup {k}]
  /\ UNCHANGED <<present, anonymised, aged, memory, requests, erasers>>

\* The agent applies for a candidate from either process: the application
\* refers to the profile it was drafted from, and an audit entry follows.
Apply(c, p) ==
  /\ c \in present
  /\ "profile" \in records[c]
  /\ records' = [records EXCEPT ![c] = @ \cup {"application"}]
  /\ writing' = writing \cup {<<p, c>>}
  /\ UNCHANGED <<present, anonymised, aged, memory, raising, erasers>>

\* Service.Raise, the check: the contested match or interview is the candidate's.
RaiseContest(c) ==
  /\ records[c] \cap {"match", "interview"} # {}
  /\ raising' = raising \cup {c}
  /\ UNCHANGED <<database, aged, memory, writing, erasers>>

\* Service.Raise, the write.
CreateContest(c) ==
  /\ c \in raising
  /\ raising' = raising \ {c}
  /\ contests' = contests \cup {c}
  /\ writing' = writing \cup {<<"api", c>>}
  /\ UNCHANGED <<database, aged, trail, erasers>>

\* The audit entry with the candidate as its actor.
Record(p, c) ==
  /\ <<p, c>> \in writing
  /\ writing' = writing \ {<<p, c>>}
  /\ trail' = trail \cup {<<p, c>>}
  /\ UNCHANGED <<database, aged, contests, raising, erasers>>

\* The retention window closes on an account.
Age(c) ==
  /\ c \notin aged
  /\ aged' = aged \cup {c}
  /\ UNCHANGED <<database, memory, requests, erasers>>

-----------------------------------------------------------------------------
(* Erasers *)

Begin(e, c) ==
  /\ step' = [step EXCEPT ![e] = "profile"]
  /\ subject' = [subject EXCEPT ![e] = c]

\* A faulty return: the sweep's cursor still points at the candidate.
EndPointing(e) ==
  /\ step' = [step EXCEPT ![e] = IF e \in Calls THEN "idle" ELSE "sweeping"]
  /\ UNCHANGED subject

\* EraseCandidate returns: a call is over, a sweep goes on with the next one.
End(e) ==
  /\ step' = [step EXCEPT ![e] = IF e \in Calls THEN "idle" ELSE "sweeping"]
  /\ subject' = [subject EXCEPT ![e] = Nobody]

Advance(e) ==
  /\ step' = [step EXCEPT ![e] = After[@]]
  /\ UNCHANGED <<subject, todo, settled>>

\* The candidate asks for erasure, possibly again.
DeleteMyData(e, c) ==
  /\ step[e] = "idle"
  /\ Begin(e, c)
  /\ UNCHANGED <<database, aged, memory, requests, todo, settled>>

\* The candidates ListEligibleForRetention returns: by role and age alone.
Eligible == aged

\* The task starts (by cron or as a retry) with the eligible candidates.
Sweep(e) ==
  /\ step[e] = "idle"
  /\ Eligible # {}
  /\ todo' = [todo EXCEPT ![e] = Eligible]
  /\ step' = [step EXCEPT ![e] = "sweeping"]
  /\ UNCHANGED <<database, aged, memory, requests, subject, settled>>

Visit(e, c) ==
  /\ step[e] = "sweeping"
  /\ c \in todo[e]
  /\ todo' = [todo EXCEPT ![e] = @ \ {c}]
  /\ Begin(e, c)
  /\ UNCHANGED <<database, aged, memory, requests, settled>>

\* Everyone was visited; with a failure among them the task is retried.
SweepEnds(e) ==
  /\ step[e] = "sweeping"
  /\ todo[e] = {}
  /\ step' = [step EXCEPT ![e] = "idle"]
  /\ UNCHANGED <<database, aged, memory, requests, subject, todo, settled>>

\* DeleteByCandidate of one kind; deleting nothing is no error.
DeleteRecords(e) ==
  /\ step[e] \in Kinds
  /\ records' = [records EXCEPT ![subject[e]] = @ \ {step[e]}]
  /\ Advance(e)
  /\ UNCHANGED <<present, anonymised, aged, memory, requests>>

\* ContestRepo.DeleteByCandidate, in this process's memory.
DeleteContests(e) ==
  /\ step[e] = "contest"
  /\ contests' = IF Home(e) = "api" THEN contests \ {subject[e]} ELSE contests
  /\ Advance(e)
  /\ UNCHANGED <<database, aged, trail, requests>>

\* A faulty schema: no ON DELETE CASCADE, and no constraint to refuse.
DeleteCandidateOnly(e) ==
  /\ step[e] = "candidate"
  /\ present' = present \ {subject[e]}
  /\ Advance(e)
  /\ UNCHANGED <<records, anonymised, aged, memory, requests>>

\* The candidate's row; rows written meanwhile go with it (ON DELETE CASCADE).
DeleteCandidate(e) ==
  /\ step[e] = "candidate"
  /\ present' = present \ {subject[e]}
  /\ records' = [records EXCEPT ![subject[e]] = {}]
  /\ Advance(e)
  /\ UNCHANGED <<anonymised, aged, memory, requests>>

\* The user's row is scrubbed and kept, with its role and creation time.
Anonymize(e) ==
  /\ step[e] = "user"
  /\ anonymised' = anonymised \cup {subject[e]}
  /\ Advance(e)
  /\ UNCHANGED <<records, present, aged, memory, requests>>

\* TombstoneActor in this process's audit trail; the cascade has succeeded.
TombstoneActor(e) ==
  /\ step[e] = "audit"
  /\ trail' = trail \ {<<Home(e), subject[e]>>}
  /\ settled' = settled \cup {subject[e]}
  /\ End(e)
  /\ UNCHANGED <<database, aged, contests, requests, todo>>

\* Faulty error handling: the cascade goes on; and the sweep stops.
StatementIgnored(e) ==
  /\ step[e] \in Kinds \cup {"candidate", "user"}
  /\ subject[e] \in Failing
  /\ Advance(e)
  /\ UNCHANGED <<database, aged, memory, requests>>

SweepStops(e) ==
  /\ step[e] \in Kinds \cup {"candidate", "user"}
  /\ subject[e] \in Failing
  /\ step' = [step EXCEPT ![e] = "idle"]
  /\ subject' = [subject EXCEPT ![e] = Nobody]
  /\ todo' = [x \in Sweepers |-> IF x = e THEN {} ELSE todo[x]]
  /\ UNCHANGED <<database, aged, memory, requests, settled>>

\* A database statement fails: the cascade stops there, a sweep goes on.
StatementFails(e) ==
  /\ step[e] \in Kinds \cup {"candidate", "user"}
  /\ subject[e] \in Failing
  /\ End(e)
  /\ UNCHANGED <<database, aged, memory, requests, todo, settled>>

\* A process restarts: its memory and whatever it was doing are gone.
Restart(p) ==
  LET mine == {e \in Erasers : Home(e) = p} IN
  /\ p \in Restarting
  /\ contests' = IF p = "api" THEN {} ELSE contests
  /\ trail' = {entry \in trail : entry[1] # p}
  /\ writing' = {entry \in writing : entry[1] # p}
  /\ raising' = IF p = "api" THEN {} ELSE raising
  /\ step' = [e \in Erasers |-> IF e \in mine THEN "idle" ELSE step[e]]
  /\ subject' = [e \in Erasers |-> IF e \in mine THEN Nobody ELSE subject[e]]
  /\ todo' = [e \in Sweepers |-> IF e \in mine THEN {} ELSE todo[e]]
  /\ UNCHANGED <<database, aged, settled>>

-----------------------------------------------------------------------------
CascadeStep(e) ==
  \/ DeleteRecords(e)
  \/ DeleteContests(e)
  \/ DeleteCandidate(e)
  \/ Anonymize(e)
  \/ TombstoneActor(e)
  \/ StatementFails(e)

SweeperStep(e) == Sweep(e) \/ (\E c \in Candidates : Visit(e, c)) \/ SweepEnds(e) \/ CascadeStep(e)

Write(c) ==
  \/ \E k \in Kinds : Insert(c, k)
  \/ \E p \in Processes : Apply(c, p) \/ Record(p, c)
  \/ RaiseContest(c)
  \/ CreateContest(c)

Next ==
  \/ \E c \in Active : Write(c)
  \/ \E c \in Candidates : Age(c)
  \/ \E e \in Calls : CascadeStep(e) \/ \E c \in Active : DeleteMyData(e, c)
  \/ \E e \in Sweepers : SweeperStep(e)
  \/ \E p \in Processes : Restart(p)

Spec == Init /\ [][Next]_vars

\* The cron schedule starts sweeps for as long as a worker is up, and a worker
\* that stays up carries them through; statements about candidates outside
\* Failing succeed.
FairSpec == Spec /\ \A e \in Sweepers : WF_vars(SweeperStep(e))
-----------------------------------------------------------------------------
(* Properties *)

\* Every variable has the shape of what it stands for.
TypeOK ==
  /\ records \in [Candidates -> SUBSET Kinds]
  /\ present \subseteq Candidates /\ anonymised \subseteq Candidates
  /\ aged \subseteq Candidates /\ contests \subseteq Candidates
  /\ raising \subseteq Candidates /\ settled \subseteq Candidates
  /\ trail \subseteq Processes \X Candidates
  /\ writing \subseteq Processes \X Candidates
  /\ step \in [Erasers -> Statements \cup {"idle", "sweeping"}]
  /\ subject \in [Erasers -> Candidates \cup {Nobody}]
  /\ todo \in [Sweepers -> SUBSET Candidates]
  /\ \A e \in Erasers : step[e] \in Statements <=> subject[e] \in Candidates

\* No request that was under way when a candidate was erased leaves a row about
\* them behind, at whatever statement of the cascade it writes: the foreign keys
\* close the gap the cascade leaves between its statements.
ErasedHasNoRecords == \A c \in Candidates \ present : records[c] = {}

\* When EraseCandidate has reported success, for a call or in a sweep, the
\* database holds nothing of the person, whatever overlapping or failed cascades
\* of the same candidate did, and nothing brings it back.
SuccessMeansErased ==
  \A c \in settled : c \notin present /\ records[c] = {} /\ c \in anonymised

\* The identity goes last: as long as there are rows about a candidate the user
\* row still tells whose they are, so that a cascade cut short can be repeated
\* by its owner.
IdentityGoesLast == anonymised \cap present = {}

\* Retention reaches everyone: once the worker stays up, an account past the window
\* is erased, even if the erasure of another one fails in every sweep.
EveryoneElseIsErased ==
  <>[][~Restart("worker")]_vars =>
    \A c \in Candidates \ Failing : c \in aged ~> c \in settled

\* What docs/data-protection.md says of the cascade, the one of the sweep
\* included: it deletes the contests the candidate has raised.
ErasureTakesContests ==
  [][\A e \in Erasers :
       step[e] = "contest" /\ step'[e] = "candidate" => subject[e] \notin contests']_vars
=============================================================================

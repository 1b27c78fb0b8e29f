----------------------------- MODULE Interview -----------------------------
(***************************************************************************)
(* The adaptive screening interview (Flow B): the Interviewer use-case of   *)
(* internal/app/interview over the aggregate of internal/domain/interview   *)
(* and its Postgres repository.                                             *)
(*                                                                         *)
(* Each gRPC call and each interview_scoring task is a request that reads   *)
(* the stored interview, talks to the model and writes the aggregate back.  *)
(* Nothing locks or versions the row between the read and the write, so     *)
(* requests on one interview interleave at every access to the database;    *)
(* ByID itself is two statements (the interview row, then its turns).       *)
(* Sequential = TRUE restricts the environment to the web client's          *)
(* behaviour: it never submits while an answer is outstanding.              *)
(***************************************************************************)
EXTENDS Naturals, Sequences

CONSTANTS
  Interviews,    \* interview ids, all of one candidate
  Clients,       \* StartInterview and SubmitAnswer calls; each is made once
  Jobs,          \* interview_scoring task executions; each is made once
  MaxQuestions,  \* Config.MaxQuestions
  Sequential,    \* TRUE: at most one call per interview is outstanding
  NoOne          \* the author of a question or report that does not exist

ASSUME MaxQuestionsAssumption == MaxQuestions \in Nat \ {0}
ASSUME RequestsAssumption == Clients \cap Jobs = {} /\ NoOne \notin Clients \cup Jobs

VARIABLES
  row,         \* talent_interviews: lifecycle state and report card
  transcript,  \* interview_turns: answered turns and the pending question
  passport,    \* the candidate's TalentProfile.PassportStatus
  erasure,     \* how far the right-to-erasure cascade has come
  expired,     \* interviews whose MaxDuration has passed
  pc,          \* per request: the access it will make next
  target,      \* per request: the interview it is about
  shown,       \* per call: the question its author was looking at
  mem          \* per request: the aggregate it loaded and is changing

vars == <<row, transcript, passport, erasure, expired, pc, target, shown, mem>>
store == <<row, transcript>>

-----------------------------------------------------------------------------
(* Values *)

Requests == Clients \cup Jobs

\* An asked question: its ordinal and the request whose model call wrote it.
Question == [ordinal: Nat, by: Requests \cup {NoOne}]
NoQuestion == [ordinal |-> 0, by |-> NoOne]

\* InterviewTurn: a question, the call that answered it, what its author saw.
Turn == [question: Question, answer: Clients, shown: Question]

\* ReportCard, reduced to the transcript the model graded and who asked it to.
Report == [graded: Seq(Turn), by: Requests \cup {NoOne}]
NoReport == [graded |-> <<>>, by |-> NoOne]

\* "absent" is an id not yet created, "erased" one whose row was deleted.
\* Open and Scoring are only ever held in memory, never stored.
Stored == {"asking", "closed"}
State == {"absent", "erased"} \cup Stored

Aggregate ==
  [state: State, report: Report, answered: Seq(Turn), pending: Question]
Blank ==
  [state |-> "absent", report |-> NoReport, answered |-> <<>>, pending |-> NoQuestion]

InFlight == {"row", "turns", "ask", "score", "mark", "remark"}

-----------------------------------------------------------------------------
Init ==
  /\ row = [i \in Interviews |-> [state |-> "absent", report |-> NoReport]]
  /\ transcript = [i \in Interviews |-> [answered |-> <<>>, pending |-> NoQuestion]]
  /\ passport = "absent"
  /\ erasure = "none"
  /\ expired = {}
  /\ pc = [r \in Requests |-> "idle"]
  /\ target \in [Requests -> Interviews]
  /\ shown = [r \in Clients |-> NoQuestion]
  /\ mem = [r \in Requests |-> Blank]

Goto(r, l) == pc' = [pc EXCEPT ![r] = l]

Exists(i) == row[i].state \in Stored

\* Faulty Updates: an upsert; and one that leaves the turns alone.
Upsert(r, a) ==
  LET i == target[r] IN
  /\ row' = [row EXCEPT ![i] = [state |-> a.state, report |-> a.report]]
  /\ transcript' = [transcript EXCEPT ![i] = [answered |-> a.answered, pending |-> a.pending]]

UpdateRowOnly(r, a) ==
  LET i == target[r] IN
  /\ Exists(i)
  /\ row' = [row EXCEPT ![i] = [state |-> a.state, report |-> a.report]]
  /\ UNCHANGED transcript

\* InterviewRepo.Update: one transaction replaces the row and rewrites the
\* turns, whatever they hold by now; a row that is gone is NotFound.
Update(r, a) ==
  LET i == target[r] IN
  /\ Exists(i)
  /\ row' = [row EXCEPT ![i] = [state |-> a.state, report |-> a.report]]
  /\ transcript' = [transcript EXCEPT ![i] = [answered |-> a.answered, pending |-> a.pending]]

\* A faulty bound: one question too many.
FinishLate(i, answered) ==
  Len(answered) > MaxQuestions \/ i \in expired

\* Interviewer.shouldFinish: enough turns, or out of time.
ShouldFinish(i, answered) ==
  Len(answered) >= MaxQuestions \/ i \in expired

\* A faulty numbering, of the last turn counted from zero.
LastOrdinal(r, answered) == [ordinal |-> Len(answered) - 1, by |-> r]

\* Interview.Ask: the next question, numbered after the answered turns.
NextQuestion(r, answered) == [ordinal |-> Len(answered) + 1, by |-> r]

-----------------------------------------------------------------------------
(* Calls *)

\* Interviewer.Start touches the store once, in Create; the role lookup, the
\* warm-up and the first question before it leave nothing behind on failure. The
\* foreign key wants the candidate.
StartInterview(r) ==
  LET i == target[r] IN
  /\ pc[r] = "idle"
  /\ row[i].state = "absent"
  /\ erasure # "candidate"
  /\ row' = [row EXCEPT ![i].state = "asking"]
  /\ transcript' = [transcript EXCEPT ![i].pending = NextQuestion(r, <<>>)]
  /\ Goto(r, "done")
  /\ UNCHANGED <<passport, erasure, expired, target, shown, mem>>

\* The web client shows no question while an answer is outstanding; a faulty
\* one keeps it on the screen.
AlwaysMay(i) == TRUE

MaySubmit(i) ==
  Sequential => \A c \in Clients : pc[c] \in InFlight => target[c] # i

\* SubmitAnswer arrives. Its author is looking at the question now pending.
SubmitAnswer(r) ==
  LET i == target[r] IN
  /\ pc[r] = "idle"
  /\ row[i].state # "absent"
  /\ MaySubmit(i)
  /\ shown' = [shown EXCEPT ![r] = transcript[i].pending]
  /\ Goto(r, "row")
  /\ UNCHANGED <<row, transcript, passport, erasure, expired, target, mem>>

\* A worker starts an interview_scoring task (ScoreAsync).
ScoreAsync(j) ==
  /\ pc[j] = "idle"
  /\ row[target[j]].state # "absent"
  /\ Goto(j, "row")
  /\ UNCHANGED <<row, transcript, passport, erasure, expired, target, shown, mem>>

\* ByID, first statement: the interview row.
ReadRow(r) ==
  LET i == target[r] IN
  /\ pc[r] = "row"
  /\ Exists(i)
  /\ mem' = [mem EXCEPT ![r].state = row[i].state, ![r].report = row[i].report]
  /\ Goto(r, "turns")
  /\ UNCHANGED <<row, transcript, passport, erasure, expired, target, shown>>

\* ByID, second statement (hydrate), then Interview.Answer and shouldFinish.
\* Without a pending question, or outside asking, the answer is refused.
TakeAnswer(r) ==
  LET i == target[r]
      t == transcript[i]
      answered == Append(t.answered,
                    [question |-> t.pending, answer |-> r, shown |-> shown[r]])
  IN
  /\ pc[r] = "turns"
  /\ t.pending # NoQuestion
  /\ mem[r].state = "asking"
  /\ mem' = [mem EXCEPT ![r].answered = answered, ![r].pending = NoQuestion]
  /\ Goto(r, IF ShouldFinish(i, answered) THEN "score" ELSE "ask")
  /\ UNCHANGED <<row, transcript, passport, erasure, expired, target, shown>>

\* ScoreAsync after its ByID: an interview without answers is an error (Fail),
\* one that already has a report is returned as it is.
TakeTranscript(j) ==
  LET t == transcript[target[j]] IN
  /\ pc[j] = "turns"
  /\ t.answered # <<>>
  /\ mem' = [mem EXCEPT ![j].answered = t.answered, ![j].pending = t.pending]
  /\ Goto(j, IF mem[j].report # NoReport THEN "done" ELSE "score")
  /\ UNCHANGED <<row, transcript, passport, erasure, expired, target, shown>>

\* Answer's usual end: the model words the next question, Update stores it.
AskNext(r) ==
  /\ pc[r] = "ask"
  /\ Update(r, [mem[r] EXCEPT !.pending = NextQuestion(r, mem[r].answered)])
  /\ Goto(r, "done")
  /\ UNCHANGED <<passport, erasure, expired, target, shown, mem>>

\* finish: the model grades the transcript in hand, the aggregate passes
\* through scoring to closed, and Update stores it. A pending question that
\* was loaded is stored again.
Finish(r) ==
  /\ pc[r] = "score"
  /\ mem[r].state = "asking"
  /\ Update(r, [mem[r] EXCEPT !.state = "closed",
                              !.report = [graded |-> mem[r].answered, by |-> r]])
  /\ Goto(r, "mark")
  /\ UNCHANGED <<passport, erasure, expired, target, shown, mem>>

\* A faulty end: a failed scoring marks the passport all the same.
FailMarking(r) ==
  /\ pc[r] \in {"row", "turns", "ask", "score"}
  /\ Goto(r, IF pc[r] = "score" THEN "mark" ELSE "failed")
  /\ UNCHANGED <<row, transcript, passport, erasure, expired, target, shown, mem>>

\* A read finds nothing, a guard of the aggregate refuses, the model errs or
\* returns an invalid card, the database errs, or the process dies before the
\* write: the request ends and nothing was stored.
Fail(r) ==
  /\ pc[r] \in {"row", "turns", "ask", "score"}
  /\ Goto(r, "failed")
  /\ UNCHANGED <<row, transcript, passport, erasure, expired, target, shown, mem>>

\* markScreened, the read: a profile still at cv_only goes on to the update.
ReadPassport(r) ==
  /\ pc[r] = "mark"
  /\ Goto(r, IF passport = "cv_only" THEN "remark" ELSE "done")
  /\ UNCHANGED <<row, transcript, passport, erasure, expired, target, shown, mem>>

\* markScreened, the update: of a profile that still exists. (One erased and
\* built anew since the read has another id and would not be found; what the
\* passport says after erasure has begun is not told apart here.)
MarkScreened(r) ==
  /\ pc[r] = "remark"
  /\ passport' = IF passport = "absent" THEN passport ELSE "screened"
  /\ Goto(r, "done")
  /\ UNCHANGED <<row, transcript, erasure, expired, target, shown, mem>>

\* markScreened is best-effort: any error, or a crash, ends it silently.
SkipMark(r) ==
  /\ pc[r] \in {"mark", "remark"}
  /\ Goto(r, "done")
  /\ UNCHANGED <<row, transcript, passport, erasure, expired, target, shown, mem>>

-----------------------------------------------------------------------------
(* The rest of the system *)

\* The candidate's profile is built for the first time (CreateFromCV).
BuildProfile ==
  /\ passport = "absent"
  /\ erasure # "candidate"
  /\ passport' = "cv_only"
  /\ UNCHANGED <<row, transcript, erasure, expired, pc, target, shown, mem>>

\* now() - StartedAt reaches MaxDuration.
RunOutOfTime(i) ==
  /\ row[i].state = "asking"
  /\ i \notin expired
  /\ expired' = expired \cup {i}
  /\ UNCHANGED <<row, transcript, passport, erasure, pc, target, shown, mem>>

\* EraseCandidate deletes the profile, then the interviews, then the candidate,
\* with whatever was created meanwhile (ON DELETE CASCADE).
RemoveInterviews ==
  /\ row' = [i \in Interviews |->
               IF Exists(i) THEN [state |-> "erased", report |-> NoReport] ELSE row[i]]
  /\ transcript' = [i \in Interviews |-> [answered |-> <<>>, pending |-> NoQuestion]]

EraseProfile ==
  /\ erasure = "none"
  /\ erasure' = "profile"
  /\ passport' = "absent"
  /\ UNCHANGED <<row, transcript, expired, pc, target, shown, mem>>

EraseInterviews ==
  /\ erasure = "profile"
  /\ erasure' = "interviews"
  /\ RemoveInterviews
  /\ UNCHANGED <<passport, expired, pc, target, shown, mem>>

EraseCandidate ==
  /\ erasure = "interviews"
  /\ erasure' = "candidate"
  /\ passport' = "absent"
  /\ RemoveInterviews
  /\ UNCHANGED <<expired, pc, target, shown, mem>>

-----------------------------------------------------------------------------
ClientStep(r) == StartInterview(r) \/ SubmitAnswer(r) \/ TakeAnswer(r) \/ AskNext(r)

JobStep(j) == ScoreAsync(j) \/ TakeTranscript(j)

RequestStep(r) ==
  \/ ReadRow(r)
  \/ Finish(r)
  \/ Fail(r)
  \/ ReadPassport(r)
  \/ MarkScreened(r)
  \/ SkipMark(r)

Next ==
  \/ \E r \in Clients : ClientStep(r)
  \/ \E j \in Jobs : JobStep(j)
  \/ \E r \in Requests : RequestStep(r)
  \/ BuildProfile
  \/ \E i \in Interviews : RunOutOfTime(i)
  \/ EraseProfile
  \/ EraseInterviews
  \/ EraseCandidate

Spec == Init /\ [][Next]_vars

-----------------------------------------------------------------------------
(* Properties *)

\* Every variable has the shape of the Go value it stands for.
TypeOK ==
  /\ row \in [Interviews -> [state: State, report: Report]]
  /\ transcript \in [Interviews -> [answered: Seq(Turn), pending: Question]]
  /\ passport \in {"absent", "cv_only", "screened"}
  /\ erasure \in {"none", "profile", "interviews", "candidate"}
  /\ expired \subseteq Interviews
  /\ pc \in [Requests -> InFlight \cup {"idle", "done", "failed"}]
  /\ target \in [Requests -> Interviews]
  /\ shown \in [Clients -> Question]
  /\ mem \in [Requests -> Aggregate]

\* A transcript as the repository may hold it: turns numbered from one without
\* a gap, never more than MaxQuestions of them, and the pending question, if
\* any, the next one.
WellNumbered(t) ==
  /\ \A n \in 1..Len(t.answered) : t.answered[n].question.ordinal = n
  /\ Len(t.answered) <= MaxQuestions
  /\ t.pending # NoQuestion =>
       /\ t.pending.ordinal = Len(t.answered) + 1
       /\ Len(t.answered) < MaxQuestions

\* However calls and scoring tasks race (double submits, torn reads, stale
\* writes, erasure), the stored interview stays one that can be continued or
\* read: asking always has a question to answer, closed always has answers.
WellFormedInterview ==
  \A i \in Interviews :
    /\ WellNumbered(transcript[i])
    /\ row[i].state = "asking" => transcript[i].pending # NoQuestion
    /\ row[i].state = "closed" => transcript[i].answered # <<>>
    /\ row[i].state \in {"absent", "erased"} => transcript[i].answered = <<>>

\* A stored report card grades exactly the transcript stored beside it, and
\* only a closed interview has one: row and turns are written together, and a
\* request never grades turns other than those it then writes.
ReportGradesTranscript ==
  \A i \in Interviews :
    /\ row[i].report # NoReport <=> row[i].state = "closed"
    /\ row[i].state = "closed" => row[i].report.graded = transcript[i].answered

\* A request that was in flight when the candidate was erased cannot bring the
\* interview back: Update fails when the row is gone.
ErasedStaysErased ==
  [][\A i \in Interviews : row[i].state = "erased" => row'[i].state = "erased"]_row

\* For a client that waits: every answer is recorded against the question its
\* author was looking at.
AnswersTheShownQuestion ==
  \A i \in Interviews : \A n \in 1..Len(transcript[i].answered) :
    transcript[i].answered[n].shown = transcript[i].answered[n].question

\* For a client that waits: a passport says screened only if a closed interview
\* with its report card backs it; finish stores the card first.
ScreenedIsBacked ==
  passport = "screened" /\ erasure = "none" =>
    \E i \in Interviews : row[i].state = "closed"

\* For a client that waits, and with no scoring task beside it, the interview is
\* what InterviewSession promises. An answer is the call that gave it.
AnswersIn(turns) == [n \in 1..Len(turns) |-> turns[n].answer]

Session == INSTANCE InterviewSession WITH
  Answers <- Clients,
  phase <- [i \in Interviews |-> row[i].state],
  answers <- [i \in Interviews |-> AnswersIn(transcript[i].answered)],
  graded <- [i \in Interviews |-> AnswersIn(row[i].report.graded)]

\* Every step of every call, failed ones included, is a step of the session the
\* candidate was promised or leaves that session as it is.
ImplementsSession == Session!Spec

\* What the state machine promises of a closed interview: it stays closed.
ClosedIsTerminal ==
  [][\A i \in Interviews : row[i].state = "closed" => row'[i].state # "asking"]_row
=============================================================================

-------------------------- MODULE InterviewProofs --------------------------
(***************************************************************************)
(* Proofs about Interview for any number of interviews, calls and scoring  *)
(* tasks, any MaxQuestions, and clients that wait or do not; and for those *)
(* that wait, that it implements InterviewSession.                         *)
(***************************************************************************)
EXTENDS Interview, TLAPS

\* A transcript numbered from one without a gap.
Numbered(turns) == \A n \in 1..Len(turns) : turns[n].question.ordinal = n

\* What a request holds in memory is good to be written, whatever the store has
\* become since it was read: this is what makes last-writer-wins harmless to the
\* shape of the interview.
MemoryIsStorable ==
  \A r \in Requests :
    /\ pc[r] \in {"turns", "ask", "score"} /\ mem[r].state = "asking" =>
         mem[r].report = NoReport
    /\ pc[r] = "ask" =>
         /\ mem[r].state = "asking"
         /\ Len(mem[r].answered) < MaxQuestions
    /\ pc[r] \in {"ask", "score"} =>
         /\ mem[r].answered # <<>>
         /\ WellNumbered([answered |-> mem[r].answered, pending |-> mem[r].pending])

\* The inductive invariant.
InterviewInv ==
  TypeOK /\ WellFormedInterview /\ ReportGradesTranscript /\ MemoryIsStorable

-----------------------------------------------------------------------------
\* Appending the answer to the pending question keeps the numbering.
LEMMA AppendTurn ==
  ASSUME NEW turns \in Seq(Turn), NEW turn \in Turn,
         Numbered(turns), turn.question.ordinal = Len(turns) + 1
  PROVE  /\ Append(turns, turn) \in Seq(Turn)
         /\ Len(Append(turns, turn)) = Len(turns) + 1
         /\ Append(turns, turn) # <<>>
         /\ Numbered(Append(turns, turn))
<1>1. Append(turns, turn) \in Seq(Turn) /\ Len(Append(turns, turn)) = Len(turns) + 1
  OBVIOUS
<1>2. Append(turns, turn) # <<>>
  BY <1>1
<1>3. ASSUME NEW n \in 1..Len(turns) + 1
      PROVE  Append(turns, turn)[n].question.ordinal = n
  <2>1. CASE n \in 1..Len(turns)
    BY <2>1 DEF Numbered
  <2>2. CASE n = Len(turns) + 1
    BY <2>2
  <2> QED
    BY <2>1, <2>2
<1> QED
  BY <1>1, <1>2, <1>3 DEF Numbered

\* The stored types are closed under the values the actions build.
LEMMA ValueTypes ==
  /\ NoQuestion \in Question
  /\ NoReport \in Report
  /\ Stored \subseteq State
  /\ [state |-> "erased", report |-> NoReport] \in [state: State, report: Report]
  /\ [answered |-> <<>>, pending |-> NoQuestion] \in [answered: Seq(Turn), pending: Question]
  /\ \A r \in Requests : NextQuestion(r, <<>>) \in Question
  /\ \A r \in Requests, turns \in Seq(Turn) : NextQuestion(r, turns) \in Question
  /\ \A r \in Requests, turns \in Seq(Turn) : [graded |-> turns, by |-> r] \in Report
BY DEF NoQuestion, NoReport, Question, Report, Stored, State, NextQuestion

-----------------------------------------------------------------------------
\* Each step leaves every variable in its type.
LEMMA TypeStep == TypeOK /\ [Next]_vars => TypeOK'
<1> SUFFICES ASSUME TypeOK, [Next]_vars PROVE TypeOK'
  OBVIOUS
<1> USE ValueTypes, RequestsAssumption DEF TypeOK, Aggregate, InFlight, Requests, Goto
<1>1. ASSUME NEW r \in Clients, StartInterview(r) PROVE TypeOK'
  <2>1. row' \in [Interviews -> [state: State, report: Report]]
    BY <1>1 DEF StartInterview, State, Stored
  <2>2. transcript' \in [Interviews -> [answered: Seq(Turn), pending: Question]]
    BY <1>1 DEF StartInterview
  <2> QED
    BY <1>1, <2>1, <2>2 DEF StartInterview
<1>2. ASSUME NEW r \in Clients, SubmitAnswer(r) PROVE TypeOK'
  BY <1>2 DEF SubmitAnswer
<1>3. ASSUME NEW r \in Clients, TakeAnswer(r) PROVE TypeOK'
  <2> DEFINE t == transcript[target[r]]
             turn == [question |-> t.pending, answer |-> r, shown |-> shown[r]]
  <2>1. t.answered \in Seq(Turn) /\ turn \in Turn
    BY DEF Turn
  <2>2. Append(t.answered, turn) \in Seq(Turn)
    BY <2>1
  <2> HIDE DEF turn
  <2>3. mem' = [mem EXCEPT ![r].answered = Append(t.answered, turn), ![r].pending = NoQuestion]
    BY <1>3 DEF TakeAnswer, turn
  <2>4. mem' \in [Requests -> Aggregate]
    BY <2>2, <2>3
  <2> QED
    BY <1>3, <2>4 DEF TakeAnswer
<1>4. ASSUME NEW r \in Clients, AskNext(r) PROVE TypeOK'
  BY <1>4 DEF AskNext, Update
<1>5. ASSUME NEW j \in Jobs, ScoreAsync(j) PROVE TypeOK'
  BY <1>5 DEF ScoreAsync
<1>6. ASSUME NEW j \in Jobs, TakeTranscript(j) PROVE TypeOK'
  BY <1>6 DEF TakeTranscript
<1>7. ASSUME NEW r \in Requests, ReadRow(r) PROVE TypeOK'
  BY <1>7 DEF ReadRow
<1>8. ASSUME NEW r \in Requests, Finish(r) PROVE TypeOK'
  BY <1>8 DEF Finish, Update, State, Stored
<1>9. ASSUME NEW r \in Requests, Fail(r) \/ ReadPassport(r) \/ MarkScreened(r) \/ SkipMark(r)
      PROVE  TypeOK'
  BY <1>9 DEF Fail, ReadPassport, MarkScreened, SkipMark
<1>10. CASE BuildProfile \/ EraseProfile
  BY <1>10 DEF BuildProfile, EraseProfile
<1>11. CASE EraseInterviews \/ EraseCandidate
  <2>1. row' \in [Interviews -> [state: State, report: Report]]
    BY <1>11 DEF EraseInterviews, EraseCandidate, RemoveInterviews
  <2>2. transcript' \in [Interviews -> [answered: Seq(Turn), pending: Question]]
    BY <1>11 DEF EraseInterviews, EraseCandidate, RemoveInterviews
  <2> QED
    BY <1>11, <2>1, <2>2 DEF EraseInterviews, EraseCandidate
<1>12. ASSUME NEW i \in Interviews, RunOutOfTime(i) PROVE TypeOK'
  BY <1>12 DEF RunOutOfTime
<1>13. CASE UNCHANGED vars
  BY <1>13 DEF vars
<1> QED
  BY <1>1, <1>2, <1>3, <1>4, <1>5, <1>6, <1>7, <1>8, <1>9, <1>10, <1>11, <1>12,
     <1>13
  DEF Next, ClientStep, JobStep, RequestStep

\* Every reachable state is well typed.
THEOREM TypeCorrect == Spec => []TypeOK
<1>1. Init => TypeOK
  BY ValueTypes, RequestsAssumption
  DEF Init, TypeOK, State, Aggregate, Blank, InFlight, Requests
<1> QED
  BY <1>1, TypeStep, PTL DEF Spec

-----------------------------------------------------------------------------
\* The stored interviews, as a whole.
StoreIsGood == WellFormedInterview /\ ReportGradesTranscript

\* The same of one interview, of its row and its turns.
GoodInterview(iv, t) ==
  /\ WellNumbered(t)
  /\ iv.state = "asking" => t.pending # NoQuestion
  /\ iv.state = "closed" => t.answered # <<>>
  /\ iv.state \in {"absent", "erased"} => t.answered = <<>>
  /\ iv.report # NoReport <=> iv.state = "closed"
  /\ iv.state = "closed" => iv.report.graded = t.answered

LEMMA OneByOne ==
  /\ StoreIsGood <=> \A i \in Interviews : GoodInterview(row[i], transcript[i])
  /\ StoreIsGood' <=> \A i \in Interviews : GoodInterview(row'[i], transcript'[i])
<1>1. StoreIsGood <=> \A i \in Interviews : GoodInterview(row[i], transcript[i])
  BY DEF StoreIsGood, GoodInterview, WellFormedInterview, ReportGradesTranscript
<1>2. StoreIsGood' <=> \A i \in Interviews : GoodInterview(row'[i], transcript'[i])
  BY DEF StoreIsGood, GoodInterview, WellFormedInterview, ReportGradesTranscript, WellNumbered
<1> QED
  BY <1>1, <1>2

LEMMA RemovedIsGood ==
  GoodInterview([state |-> "erased", report |-> NoReport],
                [answered |-> <<>>, pending |-> NoQuestion])
BY MaxQuestionsAssumption DEF GoodInterview, WellNumbered

\* Reading: a request that loads a row and then, later, the turns holds something
\* storable, even when the two belong to different moments.
LEMMA ReadsAreStorable ==
  ASSUME InterviewInv, NEW r \in Requests,
         \/ ReadRow(r)
         \/ r \in Clients /\ TakeAnswer(r)
         \/ r \in Jobs /\ TakeTranscript(r)
  PROVE  MemoryIsStorable'
<1> DEFINE t == transcript[target[r]]
<1> USE RequestsAssumption DEF InterviewInv, TypeOK, Aggregate, MemoryIsStorable, Requests, Goto
<1>1. target[r] \in Interviews /\ t.answered \in Seq(Turn) /\ WellNumbered(t)
  BY DEF WellFormedInterview
<1>2. CASE ReadRow(r)
  <2>1. row[target[r]].state = "asking" => row[target[r]].report = NoReport
    BY <1>1 DEF ReportGradesTranscript
  <2> QED
    BY <1>2, <2>1 DEF ReadRow
<1>3. CASE r \in Clients /\ TakeAnswer(r)
  <2> DEFINE turn == [question |-> t.pending, answer |-> r, shown |-> shown[r]]
             answered == Append(t.answered, turn)
  <2>1. turn \in Turn /\ turn.question.ordinal = Len(t.answered) + 1 /\ Len(t.answered) < MaxQuestions
    BY <1>1, <1>3 DEF Turn, TakeAnswer, WellNumbered
  <2>2. /\ answered \in Seq(Turn)
        /\ Len(answered) = Len(t.answered) + 1
        /\ answered # <<>>
        /\ Numbered(answered)
    BY <1>1, <2>1, AppendTurn DEF WellNumbered, Numbered
  <2> HIDE DEF turn, answered
  <2>3. /\ pc[r] = "turns"
        /\ mem[r].state = "asking"
        /\ mem' = [mem EXCEPT ![r].answered = answered, ![r].pending = NoQuestion]
        /\ pc' = [pc EXCEPT ![r] = IF ShouldFinish(target[r], answered) THEN "score" ELSE "ask"]
    BY <1>3 DEF TakeAnswer, turn, answered
  <2>4. WellNumbered([answered |-> answered, pending |-> NoQuestion])
    BY <2>1, <2>2, MaxQuestionsAssumption, ValueTypes DEF WellNumbered, Numbered
  <2>5. ~ShouldFinish(target[r], answered) => Len(answered) < MaxQuestions
    BY <2>2, MaxQuestionsAssumption DEF ShouldFinish
  <2>6. mem'[r].answered = answered /\ mem'[r].pending = NoQuestion
        /\ mem'[r].state = "asking" /\ mem'[r].report = NoReport
    BY <2>3
  <2>7. \A q \in Requests \ {r} : mem'[q] = mem[q] /\ pc'[q] = pc[q]
    BY <2>3
  <2>8. pc'[r] = IF ShouldFinish(target[r], answered) THEN "score" ELSE "ask"
    BY <2>3
  <2> QED
    BY <2>2, <2>4, <2>5, <2>6, <2>7, <2>8
<1>4. CASE r \in Jobs /\ TakeTranscript(r)
  <2>1. /\ t.answered # <<>>
        /\ mem' = [mem EXCEPT ![r].answered = t.answered, ![r].pending = t.pending]
        /\ pc[r] = "turns" /\ pc' = [pc EXCEPT ![r] = IF mem[r].report # NoReport THEN "done" ELSE "score"]
    BY <1>4 DEF TakeTranscript
  <2>2. WellNumbered([answered |-> t.answered, pending |-> t.pending])
    BY <1>1 DEF WellNumbered
  <2>3. /\ mem'[r].state = mem[r].state /\ mem'[r].report = mem[r].report
        /\ mem'[r].answered = t.answered /\ mem'[r].pending = t.pending
    BY <2>1
  <2>4. \A q \in Requests \ {r} : mem'[q] = mem[q] /\ pc'[q] = pc[q]
    BY <2>1
  <2>5. pc'[r] \in {"done", "score"}
    BY <2>1
  <2>6. mem'[r].state = "asking" => mem'[r].report = NoReport
    BY <2>1, <2>3
  <2> QED
    BY <2>1, <2>2, <2>3, <2>4, <2>5, <2>6
<1> QED
  BY <1>2, <1>3, <1>4

\* Writing: what Update stores is well formed, and its report grades it.
LEMMA WritesAreGood ==
  ASSUME InterviewInv, NEW r \in Requests,
         (r \in Clients /\ AskNext(r)) \/ Finish(r)
  PROVE  StoreIsGood' /\ MemoryIsStorable'
<1> USE MaxQuestionsAssumption, RequestsAssumption
    DEF InterviewInv, TypeOK, Aggregate, MemoryIsStorable, Requests, Goto, StoreIsGood
<1> DEFINE i == target[r]
<1>1. i \in Interviews /\ mem[r].answered \in Seq(Turn)
  OBVIOUS
<1>2. CASE r \in Clients /\ AskNext(r)
  <2> DEFINE q == NextQuestion(r, mem[r].answered)
  <2>1. /\ pc[r] = "ask"
        /\ row' = [row EXCEPT ![i] = [state |-> "asking", report |-> NoReport]]
        /\ transcript' = [transcript EXCEPT ![i] = [answered |-> mem[r].answered, pending |-> q]]
    BY <1>2 DEF AskNext, Update
  <2>2. q.ordinal = Len(mem[r].answered) + 1 /\ q # NoQuestion
    BY <1>1 DEF NextQuestion, NoQuestion
  <2>3. WellNumbered([answered |-> mem[r].answered, pending |-> q])
    BY <2>1, <2>2 DEF WellNumbered
  <2>4. WellFormedInterview'
    BY <1>1, <2>1, <2>2, <2>3 DEF WellFormedInterview, WellNumbered
  <2>5. ReportGradesTranscript'
    BY <1>1, <2>1 DEF ReportGradesTranscript
  <2>6. MemoryIsStorable'
    BY <1>2 DEF AskNext
  <2> QED
    BY <2>4, <2>5, <2>6
<1>3. CASE Finish(r)
  <2> DEFINE card == [graded |-> mem[r].answered, by |-> r]
  <2>1. /\ pc[r] = "score" /\ mem[r].state = "asking"
        /\ row' = [row EXCEPT ![i] = [state |-> "closed", report |-> card]]
        /\ transcript' = [transcript EXCEPT ![i] =
                           [answered |-> mem[r].answered, pending |-> mem[r].pending]]
    BY <1>3 DEF Finish, Update
  <2>2. card # NoReport /\ card.graded = mem[r].answered
    BY DEF NoReport
  <2>3. WellFormedInterview'
    BY <1>1, <2>1 DEF WellFormedInterview, WellNumbered
  <2>4. ReportGradesTranscript'
    BY <1>1, <2>1, <2>2 DEF ReportGradesTranscript
  <2>5. MemoryIsStorable'
    BY <1>3 DEF Finish
  <2> QED
    BY <2>3, <2>4, <2>5
<1> QED
  BY <1>2, <1>3

\* The other steps of requests, and everything that happens around them.
LEMMA OthersAreHarmless ==
  ASSUME InterviewInv,
         \/ \E r \in Clients : StartInterview(r) \/ SubmitAnswer(r)
         \/ \E j \in Jobs : ScoreAsync(j)
         \/ \E r \in Requests :
              Fail(r) \/ ReadPassport(r) \/ MarkScreened(r) \/ SkipMark(r)
         \/ BuildProfile \/ EraseProfile \/ EraseInterviews \/ EraseCandidate
         \/ \E i \in Interviews : RunOutOfTime(i)
  PROVE  StoreIsGood' /\ MemoryIsStorable'
<1> USE MaxQuestionsAssumption, RequestsAssumption
    DEF InterviewInv, TypeOK, MemoryIsStorable, Requests, Goto
<1>1. \A i \in Interviews : GoodInterview(row[i], transcript[i])
  BY OneByOne DEF StoreIsGood
<1>2. ASSUME UNCHANGED store PROVE StoreIsGood'
  BY <1>1, <1>2, OneByOne DEF store
<1>3. ASSUME NEW r \in Clients, StartInterview(r)
      PROVE  StoreIsGood' /\ MemoryIsStorable'
  <2> DEFINE i == target[r]
             q == NextQuestion(r, <<>>)
  <2>1. /\ i \in Interviews /\ row[i].state = "absent" /\ row[i].report = NoReport
        /\ transcript[i].answered = <<>>
    BY <1>3 DEF StartInterview, WellFormedInterview, ReportGradesTranscript
  <2>2. /\ row' = [row EXCEPT ![i].state = "asking"]
        /\ transcript' = [transcript EXCEPT ![i].pending = q]
    BY <1>3 DEF StartInterview
  <2>3. q.ordinal = 1 /\ q # NoQuestion
    BY DEF NextQuestion, NoQuestion
  <2> HIDE DEF q
  <2>4. /\ row'[i].state = "asking" /\ row'[i].report = NoReport
        /\ transcript'[i].answered = <<>> /\ transcript'[i].pending = q
    BY <2>1, <2>2
  <2>5. ASSUME NEW x \in Interviews, x # i
        PROVE  row'[x] = row[x] /\ transcript'[x] = transcript[x]
    BY <2>2, <2>5
  <2>6. GoodInterview(row'[i], transcript'[i])
    BY <2>3, <2>4 DEF GoodInterview, WellNumbered
  <2>7. StoreIsGood'
    BY <1>1, <2>5, <2>6, OneByOne
  <2>8. MemoryIsStorable'
    BY <1>3 DEF StartInterview
  <2> QED
    BY <2>7, <2>8
<1>4. ASSUME NEW r \in Clients, SubmitAnswer(r)
      PROVE  StoreIsGood' /\ MemoryIsStorable'
  BY <1>2, <1>4 DEF SubmitAnswer, store
<1>5. ASSUME NEW j \in Jobs, ScoreAsync(j)
      PROVE  StoreIsGood' /\ MemoryIsStorable'
  BY <1>2, <1>5 DEF ScoreAsync, store
<1>6. ASSUME NEW r \in Requests, Fail(r) \/ ReadPassport(r) \/ MarkScreened(r) \/ SkipMark(r)
      PROVE  StoreIsGood' /\ MemoryIsStorable'
  BY <1>2, <1>6 DEF Fail, ReadPassport, MarkScreened, SkipMark, store
<1>7. ASSUME BuildProfile \/ EraseProfile \/ \E i \in Interviews : RunOutOfTime(i)
      PROVE  StoreIsGood' /\ MemoryIsStorable'
  BY <1>2, <1>7 DEF BuildProfile, EraseProfile, RunOutOfTime, store
<1>8. CASE EraseInterviews \/ EraseCandidate
  <2>1. ASSUME NEW i \in Interviews, Exists(i)
        PROVE  GoodInterview(row'[i], transcript'[i])
    BY <1>8, <2>1, RemovedIsGood DEF EraseInterviews, EraseCandidate, RemoveInterviews
  <2>2. ASSUME NEW i \in Interviews, ~Exists(i)
        PROVE  GoodInterview(row'[i], transcript'[i])
    <3>1. row'[i] = row[i] /\ transcript'[i] = [answered |-> <<>>, pending |-> NoQuestion]
      BY <1>8, <2>2 DEF EraseInterviews, EraseCandidate, RemoveInterviews
    <3>2. row[i].state \in {"absent", "erased"} /\ row[i].report = NoReport
      BY <1>1, <2>2 DEF GoodInterview, Exists, State
    <3> QED
      BY <3>1, <3>2, RemovedIsGood DEF GoodInterview
  <2>3. MemoryIsStorable'
    BY <1>8 DEF EraseInterviews, EraseCandidate
  <2> QED
    BY <2>1, <2>2, <2>3, OneByOne
<1> QED
  BY <1>3, <1>4, <1>5, <1>6, <1>7, <1>8

LEMMA InterviewStep == InterviewInv /\ [Next]_vars => InterviewInv'
<1> SUFFICES ASSUME InterviewInv, [Next]_vars PROVE InterviewInv'
  OBVIOUS
<1>1. TypeOK'
  BY TypeStep DEF InterviewInv
<1>2. CASE UNCHANGED vars
  BY <1>1, <1>2
  DEF vars, InterviewInv, WellFormedInterview, ReportGradesTranscript,
      MemoryIsStorable, WellNumbered
<1>3. ASSUME NEW r \in Requests,
             ReadRow(r) \/ (r \in Clients /\ TakeAnswer(r)) \/ (r \in Jobs /\ TakeTranscript(r))
      PROVE  InterviewInv'
  <2>1. StoreIsGood'
    BY <1>3
    DEF ReadRow, TakeAnswer, TakeTranscript, InterviewInv, StoreIsGood,
        WellFormedInterview, ReportGradesTranscript, WellNumbered
  <2> QED
    BY <1>1, <1>3, <2>1, ReadsAreStorable DEF InterviewInv, StoreIsGood
<1>4. ASSUME NEW r \in Requests, (r \in Clients /\ AskNext(r)) \/ Finish(r)
      PROVE  InterviewInv'
  BY <1>1, <1>4, WritesAreGood DEF InterviewInv, StoreIsGood
<1>5. CASE Next
  BY <1>1, <1>3, <1>4, <1>5, OthersAreHarmless
  DEF Next, ClientStep, JobStep, RequestStep, Requests, InterviewInv, StoreIsGood
<1> QED
  BY <1>2, <1>5

LEMMA InterviewStart == Init => InterviewInv
<1> SUFFICES ASSUME Init PROVE InterviewInv
  OBVIOUS
<1>1. TypeOK
  BY ValueTypes, RequestsAssumption
  DEF Init, TypeOK, State, Aggregate, Blank, InFlight, Requests
<1>2. WellFormedInterview
  <2>1. WellNumbered([answered |-> <<>>, pending |-> NoQuestion])
    BY MaxQuestionsAssumption DEF WellNumbered
  <2> QED
    BY <2>1 DEF Init, WellFormedInterview
<1>3. ReportGradesTranscript
  BY DEF Init, ReportGradesTranscript
<1>4. MemoryIsStorable
  BY DEF Init, MemoryIsStorable
<1> QED
  BY <1>1, <1>2, <1>3, <1>4 DEF InterviewInv

\* The interview invariant holds throughout.
LEMMA InterviewInvariant == Spec => []InterviewInv
BY InterviewStart, InterviewStep, PTL DEF Spec

\* Whatever calls, scoring tasks and erasures overlap, a stored interview is one
\* that can be continued or read.
THEOREM InterviewsStayWellFormed == Spec => []WellFormedInterview
<1>1. InterviewInv => WellFormedInterview
  BY DEF InterviewInv
<1> QED
  BY <1>1, InterviewInvariant, PTL

\* A stored report card grades the transcript stored beside it.
THEOREM ReportsGradeTheirTranscripts == Spec => []ReportGradesTranscript
<1>1. InterviewInv => ReportGradesTranscript
  BY DEF InterviewInv
<1> QED
  BY <1>1, InterviewInvariant, PTL

\* No request in flight brings a removed interview back.
THEOREM RemovedStaysRemoved == Spec => ErasedStaysErased
<1> DEFINE Kept == \A i \in Interviews : row[i].state = "erased" => row'[i].state = "erased"
<1>1. ASSUME TypeOK, Next PROVE Kept
  <2> USE <1>1 DEF TypeOK, Exists, Stored, Requests
  <2>1. ASSUME NEW r \in Clients, StartInterview(r) PROVE Kept
    BY <2>1 DEF StartInterview
  <2>2. ASSUME NEW r \in Requests, Finish(r) \/ (r \in Clients /\ AskNext(r)) PROVE Kept
    BY <2>2 DEF Finish, AskNext, Update
  <2>3. CASE EraseInterviews \/ EraseCandidate
    BY <2>3 DEF EraseInterviews, EraseCandidate, RemoveInterviews
  <2>4. CASE UNCHANGED row
    BY <2>4
  <2> QED
    BY <2>1, <2>2, <2>3, <2>4
    DEF Next, ClientStep, JobStep, RequestStep, SubmitAnswer, TakeAnswer, ScoreAsync,
        TakeTranscript, ReadRow, Fail, ReadPassport, MarkScreened, SkipMark,
        BuildProfile, RunOutOfTime, EraseProfile
<1>2. TypeOK /\ [Next]_vars => [Kept]_row
  BY <1>1 DEF vars
<1> QED
  BY <1>2, TypeCorrect, PTL DEF Spec, ErasedStaysErased

-----------------------------------------------------------------------------
(* Clients that wait, and no scoring task beside them                          *)

ClientsWait == Sequential /\ Jobs = {}

\* At most one call about an interview is under way.
OneCall ==
  \A c, d \in Clients :
    pc[c] \in InFlight /\ pc[d] \in InFlight /\ target[c] = target[d] => c = d

TurnOf(c) == [question |-> transcript[target[c]].pending, answer |-> c, shown |-> shown[c]]

\* What a call has read is what is stored, or the interview has been erased.
CallIsCurrent(c) ==
  LET i == target[c] IN
  /\ pc[c] \in InFlight => row[i].state # "absent"
  /\ pc[c] \in {"row", "turns"} /\ transcript[i].pending # NoQuestion =>
       shown[c] = transcript[i].pending
  /\ pc[c] = "turns" /\ mem[c].state = "asking" /\ Exists(i) => row[i].state = "asking"
  /\ pc[c] \in {"ask", "score"} => mem[c].state = "asking" /\ mem[c].pending = NoQuestion
  /\ pc[c] \in {"ask", "score"} /\ Exists(i) =>
       /\ row[i].state = "asking"
       /\ transcript[i].pending # NoQuestion
       /\ shown[c] = transcript[i].pending
       /\ mem[c].answered = Append(transcript[i].answered, TurnOf(c))
  /\ pc[c] \in {"mark", "remark"} => row[i].state \in {"closed", "erased"}

RemovedIsEmpty ==
  \A i \in Interviews :
    /\ ~Exists(i) => transcript[i].pending = NoQuestion
    /\ row[i].state = "erased" => erasure \in {"interviews", "candidate"}

SessionInv ==
  /\ InterviewInv /\ OneCall /\ RemovedIsEmpty
  /\ \A c \in Clients : CallIsCurrent(c)
  /\ AnswersTheShownQuestion
  /\ ScreenedIsBacked

\* Answering the question one was shown.
LEMMA AppendShown ==
  ASSUME NEW turns \in Seq(Turn), NEW turn \in Turn, turn.shown = turn.question,
         \A n \in 1..Len(turns) : turns[n].shown = turns[n].question
  PROVE  \A n \in 1..Len(Append(turns, turn)) :
           Append(turns, turn)[n].shown = Append(turns, turn)[n].question
<1> SUFFICES ASSUME NEW n \in 1..Len(turns) + 1
             PROVE  Append(turns, turn)[n].shown = Append(turns, turn)[n].question
  OBVIOUS
<1>1. CASE n \in 1..Len(turns)
  BY <1>1
<1>2. CASE n = Len(turns) + 1
  BY <1>2
<1> QED
  BY <1>1, <1>2

\* A call is as current as it was when neither it nor its interview changes.
LEMMA StillCurrent ==
  ASSUME NEW c \in Clients, CallIsCurrent(c), target' = target,
         pc'[c] = pc[c], mem'[c] = mem[c], shown'[c] = shown[c],
         pc[c] \in InFlight =>
           row'[target[c]] = row[target[c]] /\ transcript'[target[c]] = transcript[target[c]]
  PROVE  CallIsCurrent(c)'
<1>1. CASE pc[c] \in InFlight
  <2>1. TurnOf(c)' = TurnOf(c) /\ (Exists(target[c])' <=> Exists(target[c]))
    BY <1>1 DEF TurnOf, Exists
  <2> QED
    BY <1>1, <2>1 DEF CallIsCurrent, Exists
<1>2. CASE pc[c] \notin InFlight
  BY <1>2 DEF CallIsCurrent, InFlight
<1> QED
  BY <1>1, <1>2

\* A step of one call leaves the others as current as they were, if the interview
\* it changes is its own and it was under way, or the interview did not exist.
LEMMA OthersStayCurrent ==
  ASSUME SessionInv, NEW r \in Clients, target' = target,
         \A c \in Clients \ {r} : pc'[c] = pc[c] /\ mem'[c] = mem[c] /\ shown'[c] = shown[c],
         \A i \in Interviews \ {target[r]} : row'[i] = row[i] /\ transcript'[i] = transcript[i],
         pc[r] \in InFlight \/ UNCHANGED store \/ row[target[r]].state = "absent"
  PROVE  \A c \in Clients \ {r} : CallIsCurrent(c)'
<1> SUFFICES ASSUME NEW c \in Clients \ {r} PROVE CallIsCurrent(c)'
  OBVIOUS
<1>1. CallIsCurrent(c) /\ target[c] \in Interviews
  BY DEF SessionInv, InterviewInv, TypeOK, Requests
<1>2. ASSUME pc[c] \in InFlight
      PROVE  row'[target[c]] = row[target[c]] /\ transcript'[target[c]] = transcript[target[c]]
  <2>1. CASE target[c] # target[r]
    BY <1>1, <2>1
  <2>2. CASE target[c] = target[r]
    <3>1. pc[r] \notin InFlight
      BY <1>2, <2>2 DEF SessionInv, OneCall
    <3>2. row[target[r]].state # "absent"
      BY <1>1, <1>2, <2>2 DEF CallIsCurrent
    <3> QED
      BY <2>2, <3>1, <3>2 DEF store
  <2> QED
    BY <2>1, <2>2
<1> QED
  BY <1>1, <1>2, StillCurrent

\* SessionInv, apart from what was proved above.
SessionRest ==
  OneCall /\ RemovedIsEmpty /\ (\A c \in Clients : CallIsCurrent(c))
    /\ AnswersTheShownQuestion /\ ScreenedIsBacked

LEMMA SessionFacts ==
  ASSUME SessionInv, ClientsWait
  PROVE  /\ Requests = Clients /\ TypeOK /\ WellFormedInterview /\ ReportGradesTranscript
         /\ MemoryIsStorable /\ SessionRest /\ \A c \in Clients : target[c] \in Interviews
BY DEF SessionInv, ClientsWait, Requests, InterviewInv, SessionRest, TypeOK

\* At most one call stays at most one, when no call begins.
LEMMA NoCallBegins ==
  ASSUME OneCall, target' = target, \A c \in Clients : pc'[c] \in InFlight => pc[c] \in InFlight
  PROVE  OneCall'
BY DEF OneCall

LEMMA StoreIsAsItWas ==
  ASSUME UNCHANGED store, RemovedIsEmpty, AnswersTheShownQuestion,
         erasure' = erasure \/ (erasure = "none" /\ erasure' = "profile")
  PROVE  RemovedIsEmpty' /\ AnswersTheShownQuestion'
BY DEF store, RemovedIsEmpty, AnswersTheShownQuestion, Exists

\* What the passport says stays backed while closed interviews stay closed.
LEMMA StillBacked ==
  ASSUME ScreenedIsBacked,
         \/ passport' # "screened"
         \/ erasure' # "none"
         \/ /\ passport' = passport /\ erasure' = erasure
            /\ \A i \in Interviews : row[i].state = "closed" => row'[i].state = "closed"
  PROVE  ScreenedIsBacked'
BY DEF ScreenedIsBacked

\* A call begins.
LEMMA SubmitKeeps ==
  ASSUME SessionInv, ClientsWait, NEW r \in Clients, SubmitAnswer(r)
  PROVE  SessionRest'
<1>0. TypeOK /\ Requests = Clients /\ SessionRest /\ target[r] \in Interviews
  BY SessionFacts
<1>1. /\ pc[r] = "idle" /\ UNCHANGED <<row, transcript, passport, erasure, target, mem>>
      /\ shown'[r] = transcript[target[r]].pending /\ pc'[r] = "row"
      /\ \A c \in Clients \ {r} : pc'[c] = pc[c] /\ shown'[c] = shown[c]
      /\ row[target[r]].state # "absent"
      /\ \A c \in Clients : pc[c] \in InFlight => target[c] # target[r]
  BY <1>0 DEF SubmitAnswer, Goto, MaySubmit, ClientsWait, TypeOK
<1>2. OneCall'
  BY <1>0, <1>1 DEF OneCall, SessionRest
<1>3. \A c \in Clients \ {r} : CallIsCurrent(c)'
  BY <1>1, OthersStayCurrent DEF store
<1>4. CallIsCurrent(r)'
  BY <1>1 DEF CallIsCurrent, Exists
<1>5. RemovedIsEmpty' /\ AnswersTheShownQuestion' /\ ScreenedIsBacked'
  BY <1>0, <1>1, StoreIsAsItWas, StillBacked DEF SessionRest, store
<1> QED
  BY <1>2, <1>3, <1>4, <1>5 DEF SessionRest

\* An interview begins.
LEMMA StartKeeps ==
  ASSUME SessionInv, ClientsWait, NEW r \in Clients, StartInterview(r)
  PROVE  SessionRest'
<1> DEFINE i == target[r]
<1>0. TypeOK /\ Requests = Clients /\ SessionRest /\ i \in Interviews /\ WellFormedInterview
  BY SessionFacts
<1>1. /\ pc[r] = "idle" /\ pc'[r] = "done" /\ \A c \in Clients \ {r} : pc'[c] = pc[c]
      /\ UNCHANGED <<passport, erasure, target, shown, mem>>
      /\ row[i].state = "absent" /\ row'[i].state = "asking"
      /\ transcript'[i].answered = transcript[i].answered
      /\ transcript'[i].pending = NextQuestion(r, <<>>)
      /\ \A x \in Interviews \ {i} : row'[x] = row[x] /\ transcript'[x] = transcript[x]
  BY <1>0 DEF StartInterview, Goto, TypeOK
<1>2. OneCall'
  BY <1>0, <1>1, NoCallBegins DEF SessionRest, InFlight
<1>3. \A c \in Clients \ {r} : CallIsCurrent(c)'
  BY <1>1, OthersStayCurrent
<1>4. CallIsCurrent(r)'
  BY <1>1 DEF CallIsCurrent, InFlight
<1>5. RemovedIsEmpty'
  BY <1>0, <1>1 DEF RemovedIsEmpty, SessionRest, Exists, Stored
<1>6. AnswersTheShownQuestion'
  <2> SUFFICES ASSUME NEW x \in Interviews
               PROVE  transcript'[x].answered = transcript[x].answered
    BY <1>0 DEF AnswersTheShownQuestion, SessionRest
  <2> QED
    BY <1>1
<1>7. ScreenedIsBacked'
  BY <1>0, <1>1, StillBacked DEF SessionRest
<1> QED
  BY <1>2, <1>3, <1>4, <1>5, <1>6, <1>7 DEF SessionRest

\* A call reads the row, then takes the answer to the question that is pending: the
\* one its author saw.
LEMMA ReadKeeps ==
  ASSUME SessionInv, ClientsWait, NEW r \in Clients, ReadRow(r) \/ TakeAnswer(r)
  PROVE  SessionRest'
<1> DEFINE i == target[r]
<1>0. TypeOK /\ Requests = Clients /\ SessionRest /\ i \in Interviews /\ CallIsCurrent(r)
  BY SessionFacts DEF SessionRest
<1>1. /\ pc[r] \in {"row", "turns"} /\ pc'[r] \in {"turns", "ask", "score"}
      /\ \A c \in Clients \ {r} : pc'[c] = pc[c] /\ mem'[c] = mem[c]
      /\ UNCHANGED <<row, transcript, passport, erasure, target, shown>>
  BY <1>0 DEF ReadRow, TakeAnswer, Goto, TypeOK
<1>2. OneCall'
  BY <1>0, <1>1, NoCallBegins DEF SessionRest, InFlight
<1>3. \A c \in Clients \ {r} : CallIsCurrent(c)'
  BY <1>1, OthersStayCurrent DEF store
<1>4. CallIsCurrent(r)'
  <2>1. CASE ReadRow(r)
    <3>1. mem'[r].state = row[i].state /\ pc'[r] = "turns" /\ pc[r] = "row"
      BY <1>0, <2>1 DEF ReadRow, Goto, TypeOK, Aggregate
    <3> QED
      BY <1>0, <1>1, <3>1 DEF CallIsCurrent, InFlight, Exists
  <2>2. CASE TakeAnswer(r)
    <3>1. /\ pc[r] = "turns" /\ pc'[r] \in {"ask", "score"}
          /\ transcript[i].pending # NoQuestion /\ mem[r].state = "asking"
          /\ mem'[r].state = "asking" /\ mem'[r].pending = NoQuestion
          /\ mem'[r].answered = Append(transcript[i].answered, TurnOf(r))
      BY <1>0, <2>2 DEF TakeAnswer, Goto, TypeOK, Aggregate, TurnOf
    <3>2. shown[r] = transcript[i].pending /\ (Exists(i) => row[i].state = "asking")
          /\ row[i].state # "absent"
      BY <1>0, <3>1 DEF CallIsCurrent, InFlight
    <3> QED
      BY <1>0, <1>1, <3>1, <3>2 DEF CallIsCurrent, InFlight, Exists, TurnOf
  <2> QED
    BY <2>1, <2>2
<1>5. RemovedIsEmpty' /\ AnswersTheShownQuestion' /\ ScreenedIsBacked'
  BY <1>0, <1>1, StoreIsAsItWas, StillBacked DEF SessionRest, store
<1> QED
  BY <1>2, <1>3, <1>4, <1>5 DEF SessionRest

\* A call writes back the transcript it read, with its answer.
LEMMA WriteKeeps ==
  ASSUME SessionInv, ClientsWait, NEW r \in Clients, AskNext(r) \/ Finish(r)
  PROVE  SessionRest'
<1> DEFINE i == target[r]
<1>0. /\ TypeOK /\ Requests = Clients /\ SessionRest /\ i \in Interviews /\ CallIsCurrent(r)
      /\ transcript[i].answered \in Seq(Turn)
  BY SessionFacts DEF SessionRest, TypeOK
<1>1. /\ pc[r] \in {"ask", "score"} /\ pc'[r] \in {"done", "mark"} /\ Exists(i)
      /\ pc'[r] = "mark" => row'[i].state = "closed"
      /\ \A c \in Clients \ {r} : pc'[c] = pc[c]
      /\ UNCHANGED <<passport, erasure, target, shown, mem>>
      /\ row'[i].state \in Stored /\ transcript'[i].answered = mem[r].answered
      /\ \A x \in Interviews \ {i} : row'[x] = row[x] /\ transcript'[x] = transcript[x]
  <2>1. mem[r].state = "asking" /\ mem[r] \in Aggregate
    BY <1>0 DEF AskNext, Finish, CallIsCurrent, TypeOK
  <2>2. CASE AskNext(r)
    <3>1. row'[i].state = "asking" /\ transcript'[i].answered = mem[r].answered /\ pc'[r] = "done"
      BY <1>0, <2>1, <2>2 DEF AskNext, Update, Goto, TypeOK, Aggregate
    <3> QED
      BY <1>0, <2>2, <3>1 DEF AskNext, Update, Goto, TypeOK, Stored
  <2>3. CASE Finish(r)
    <3>1. row'[i].state = "closed" /\ transcript'[i].answered = mem[r].answered /\ pc'[r] = "mark"
      BY <1>0, <2>1, <2>3 DEF Finish, Update, Goto, TypeOK, Aggregate
    <3> QED
      BY <1>0, <2>3, <3>1 DEF Finish, Update, Goto, TypeOK, Stored
  <2> QED
    BY <2>2, <2>3
<1>2. /\ row[i].state = "asking" /\ shown[r] = transcript[i].pending
      /\ mem[r].answered = Append(transcript[i].answered, TurnOf(r))
  BY <1>0, <1>1 DEF CallIsCurrent
<1>3. OneCall'
  BY <1>0, <1>1, NoCallBegins DEF SessionRest, InFlight
<1>4. \A c \in Clients \ {r} : CallIsCurrent(c)'
  BY <1>1, OthersStayCurrent DEF InFlight
<1>5. CallIsCurrent(r)'
  BY <1>1 DEF CallIsCurrent, InFlight, Stored
<1>6. RemovedIsEmpty'
  BY <1>0, <1>1 DEF RemovedIsEmpty, SessionRest, Exists, Stored
<1>7. AnswersTheShownQuestion'
  <2>1. /\ TurnOf(r) \in Turn /\ TurnOf(r).shown = TurnOf(r).question
    BY <1>0, <1>2 DEF TurnOf, Turn, TypeOK
  <2>2. \A n \in 1..Len(mem[r].answered) : mem[r].answered[n].shown = mem[r].answered[n].question
    BY <1>0, <1>2, <2>1, AppendShown DEF SessionRest, AnswersTheShownQuestion
  <2>3. ASSUME NEW x \in Interviews, NEW n \in 1..Len(transcript'[x].answered)
        PROVE  transcript'[x].answered[n].shown = transcript'[x].answered[n].question
    BY <1>0, <1>1, <2>2, <2>3 DEF SessionRest, AnswersTheShownQuestion
  <2> QED
    BY <2>3 DEF AnswersTheShownQuestion
<1>8. ScreenedIsBacked'
  BY <1>0, <1>1, <1>2, StillBacked DEF SessionRest
<1> QED
  BY <1>3, <1>4, <1>5, <1>6, <1>7, <1>8 DEF SessionRest

\* A call fails, or sees to the passport; the marking is of a closed interview.
LEMMA EndKeeps ==
  ASSUME SessionInv, ClientsWait, NEW r \in Clients,
         Fail(r) \/ ReadPassport(r) \/ MarkScreened(r) \/ SkipMark(r)
  PROVE  SessionRest'
<1> DEFINE i == target[r]
<1>0. TypeOK /\ Requests = Clients /\ SessionRest /\ i \in Interviews /\ CallIsCurrent(r)
  BY SessionFacts DEF SessionRest
<1>1. /\ pc[r] \in InFlight /\ pc'[r] \in {"done", "failed", "remark"}
      /\ pc'[r] = "remark" => pc[r] = "mark"
      /\ \A c \in Clients \ {r} : pc'[c] = pc[c]
      /\ UNCHANGED <<row, transcript, erasure, target, shown, mem>>
  BY <1>0 DEF Fail, ReadPassport, MarkScreened, SkipMark, Goto, TypeOK, InFlight
<1>2. OneCall'
  BY <1>0, <1>1, NoCallBegins DEF SessionRest
<1>3. \A c \in Clients \ {r} : CallIsCurrent(c)'
  BY <1>1, OthersStayCurrent DEF store
<1>4. CallIsCurrent(r)'
  BY <1>0, <1>1 DEF CallIsCurrent, InFlight
<1>5. RemovedIsEmpty' /\ AnswersTheShownQuestion'
  BY <1>0, <1>1, StoreIsAsItWas DEF SessionRest, store
<1>6. ScreenedIsBacked'
  <2>1. CASE passport' = passport
    BY <1>0, <1>1, <2>1, StillBacked DEF SessionRest
  <2>2. CASE MarkScreened(r)
    <3>1. row[i].state \in {"closed", "erased"}
      BY <1>0, <2>2 DEF MarkScreened, CallIsCurrent
    <3>2. erasure = "none" => row[i].state = "closed"
      BY <1>0, <3>1 DEF SessionRest, RemovedIsEmpty
    <3> QED
      BY <1>0, <1>1, <3>2 DEF ScreenedIsBacked
  <2> QED
    BY <2>1, <2>2 DEF Fail, ReadPassport, SkipMark
<1> QED
  BY <1>2, <1>3, <1>4, <1>5, <1>6 DEF SessionRest

\* What happens around the calls.
LEMMA AroundKeeps ==
  ASSUME SessionInv, ClientsWait,
         \/ BuildProfile \/ EraseProfile \/ EraseInterviews \/ EraseCandidate
         \/ \E i \in Interviews : RunOutOfTime(i)
  PROVE  SessionRest'
<1>0. /\ TypeOK /\ Requests = Clients /\ SessionRest /\ UNCHANGED <<pc, target, shown, mem>>
      /\ \A c \in Clients : target[c] \in Interviews
  BY SessionFacts DEF BuildProfile, EraseProfile, EraseInterviews, EraseCandidate, RunOutOfTime
<1>1. OneCall'
  BY <1>0 DEF OneCall, SessionRest
<1>2. CASE BuildProfile \/ EraseProfile \/ \E i \in Interviews : RunOutOfTime(i)
  <2>1. UNCHANGED store
    BY <1>2 DEF BuildProfile, EraseProfile, RunOutOfTime, store
  <2>2. \A c \in Clients : CallIsCurrent(c)'
    BY <1>0, <2>1, StillCurrent DEF store, SessionRest
  <2>3. RemovedIsEmpty' /\ AnswersTheShownQuestion'
    BY <1>0, <1>2, <2>1, StoreIsAsItWas DEF BuildProfile, EraseProfile, RunOutOfTime, SessionRest
  <2>4. ScreenedIsBacked'
    BY <1>0, <1>2, <2>1, StillBacked DEF BuildProfile, EraseProfile, RunOutOfTime, SessionRest, store
  <2> QED
    BY <1>1, <2>2, <2>3, <2>4 DEF SessionRest
<1>3. CASE EraseInterviews \/ EraseCandidate
  <2>1. /\ erasure' \in {"interviews", "candidate"}
        /\ \A i \in Interviews :
             /\ transcript'[i] = [answered |-> <<>>, pending |-> NoQuestion]
             /\ Exists(i) => row'[i].state = "erased"
             /\ ~Exists(i) => row'[i] = row[i]
    BY <1>3 DEF EraseInterviews, EraseCandidate, RemoveInterviews
  <2>2. ASSUME NEW c \in Clients PROVE CallIsCurrent(c)'
    BY <1>0, <2>1, <2>2 DEF SessionRest, CallIsCurrent, Exists, Stored
  <2>3. RemovedIsEmpty' /\ AnswersTheShownQuestion'
    BY <2>1 DEF RemovedIsEmpty, AnswersTheShownQuestion
  <2>4. ScreenedIsBacked'
    BY <2>1 DEF ScreenedIsBacked
  <2> QED
    BY <1>1, <2>2, <2>3, <2>4 DEF SessionRest
<1> QED
  BY <1>2, <1>3

LEMMA SessionStart == Init => SessionInv
<1> SUFFICES ASSUME Init PROVE SessionInv
  OBVIOUS
<1>1. InterviewInv
  BY InterviewStart
<1>2. OneCall /\ \A c \in Clients : CallIsCurrent(c)
  BY DEF Init, OneCall, CallIsCurrent, InFlight, Requests
<1>3. RemovedIsEmpty /\ AnswersTheShownQuestion /\ ScreenedIsBacked
  BY DEF Init, RemovedIsEmpty, AnswersTheShownQuestion, ScreenedIsBacked
<1> QED
  BY <1>1, <1>2, <1>3 DEF SessionInv

LEMMA SessionStep ==
  ASSUME SessionInv, ClientsWait, [Next]_vars
  PROVE  SessionInv'
<1>1. InterviewInv'
  BY InterviewStep DEF SessionInv
<1>2. CASE UNCHANGED vars
  <2>1. OneCall' /\ RemovedIsEmpty' /\ AnswersTheShownQuestion' /\ ScreenedIsBacked'
    BY <1>2 DEF vars, SessionInv, OneCall, RemovedIsEmpty, AnswersTheShownQuestion, ScreenedIsBacked, Exists
  <2>2. \A c \in Clients : CallIsCurrent(c)'
    BY <1>2, StillCurrent DEF vars, SessionInv
  <2> QED
    BY <1>1, <2>1, <2>2 DEF SessionInv
<1>3. CASE Next
  <2>1. Requests = Clients /\ Jobs = {}
    BY DEF ClientsWait, Requests
  <2>2. SessionRest'
    BY <1>3, <2>1, SubmitKeeps, StartKeeps, ReadKeeps, WriteKeeps, EndKeeps, AroundKeeps
    DEF Next, ClientStep, JobStep, RequestStep
  <2> QED
    BY <1>1, <2>2 DEF SessionInv, SessionRest
<1> QED
  BY <1>2, <1>3

(* Every answer of a client that waits is recorded against the question its       *)
(* author saw: nothing else writes between its call's reads and its Update        *)
(* (useInterview submits one answer at a time; Interviewer.Answer).               *)
THEOREM AnswersMatchQuestions ==
  ASSUME ClientsWait
  PROVE  Spec => []AnswersTheShownQuestion
<1>1. SessionInv => AnswersTheShownQuestion
  BY DEF SessionInv
<1>2. SessionInv /\ [Next]_vars => SessionInv'
  BY SessionStep
<1> QED
  BY <1>1, <1>2, SessionStart, PTL DEF Spec

(* A passport that says screened is backed by a closed interview, until the        *)
(* candidate is being erased: markScreened follows the Update that stores the card.*)
THEOREM ScreenedPassportsAreBacked ==
  ASSUME ClientsWait
  PROVE  Spec => []ScreenedIsBacked
<1>1. SessionInv => ScreenedIsBacked
  BY DEF SessionInv
<1>2. SessionInv /\ [Next]_vars => SessionInv'
  BY SessionStep
<1> QED
  BY <1>1, <1>2, SessionStart, PTL DEF Spec

-----------------------------------------------------------------------------
(* The session a candidate was promised                                        *)

LEMMA AnswersInOrder ==
  /\ AnswersIn(<<>>) = <<>>
  /\ \A turns \in Seq(Turn) : Len(AnswersIn(turns)) = Len(turns)
  /\ \A turns \in Seq(Turn), turn \in Turn :
       AnswersIn(Append(turns, turn)) = Append(AnswersIn(turns), turn.answer)
<1>1. AnswersIn(<<>>) = <<>>
  BY DEF AnswersIn
<1>2. ASSUME NEW turns \in Seq(Turn)
      PROVE  /\ AnswersIn(turns) \in Seq(Clients) /\ Len(AnswersIn(turns)) = Len(turns)
             /\ \A n \in 1..Len(turns) : AnswersIn(turns)[n] = turns[n].answer
  <2>1. \A n \in 1..Len(turns) : turns[n].answer \in Clients
    <3>1. \A n \in 1..Len(turns) : turns[n] \in Turn
      OBVIOUS
    <3> QED
      BY <3>1 DEF Turn
  <2>2. AnswersIn(turns) \in [1..Len(turns) -> Clients] /\ Len(turns) \in Nat
    BY <2>1 DEF AnswersIn
  <2> QED
    BY <2>2 DEF AnswersIn
<1>3. ASSUME NEW turns \in Seq(Turn), NEW turn \in Turn
      PROVE  AnswersIn(Append(turns, turn)) = Append(AnswersIn(turns), turn.answer)
  <2> DEFINE a == AnswersIn(Append(turns, turn))
             b == Append(AnswersIn(turns), turn.answer)
  <2>1. Append(turns, turn) \in Seq(Turn) /\ Len(Append(turns, turn)) = Len(turns) + 1 /\ Len(turns) \in Nat
    OBVIOUS
  <2>2. /\ a \in Seq(Clients) /\ Len(a) = Len(turns) + 1
        /\ \A n \in 1..Len(a) : a[n] = Append(turns, turn)[n].answer
    BY <1>2, <2>1
  <2>3. turn.answer \in Clients
    BY DEF Turn
  <2>4. /\ b \in Seq(Clients) /\ Len(b) = Len(turns) + 1
        /\ \A n \in 1..Len(b) : b[n] = IF n = Len(turns) + 1 THEN turn.answer ELSE turns[n].answer
    BY <1>2, <2>1, <2>3
  <2>5. \A n \in 1..Len(a) : a[n] = b[n]
    BY <2>1, <2>2, <2>4
  <2> HIDE DEF a, b
  <2>6. a = b
    BY <2>1, <2>2, <2>4, <2>5
  <2> QED
    BY <2>6 DEF a, b
<1> QED
  BY <1>1, <1>2, <1>3

\* What the session sees of the store.
Phase == [i \in Interviews |-> row[i].state]
Given == [i \in Interviews |-> AnswersIn(transcript[i].answered)]
Graded == [i \in Interviews |-> AnswersIn(row[i].report.graded)]

LEMMA SessionStarts == Init => Session!Init
BY AnswersInOrder DEF Init, NoReport, Session!Init

\* Create opens the interview.
LEMMA StartOpens ==
  ASSUME SessionInv, ClientsWait, NEW r \in Clients, StartInterview(r),
         NEW i \in Interviews, i = target[r]
  PROVE  Session!Open(i)
<1>1. TypeOK
  BY SessionFacts
<1>2. /\ row[i].state = "absent" /\ row' = [row EXCEPT ![i].state = "asking"]
      /\ \A x \in Interviews : transcript'[x].answered = transcript[x].answered
  BY <1>1 DEF StartInterview, TypeOK
<1>3. \A x \in Interviews : /\ row'[x].report = row[x].report
                           /\ row'[x].state = IF x = i THEN "asking" ELSE row[x].state
  BY <1>1, <1>2 DEF TypeOK
<1>4. Phase[i] = "absent" /\ Phase' = [Phase EXCEPT ![i] = "asking"] /\ Given' = Given /\ Graded' = Graded
  BY <1>1, <1>2, <1>3 DEF Phase, Given, Graded
<1> QED
  BY <1>4 DEF Session!Open, Phase, Given, Graded

\* What a call that stores an answer does to the interview.
LEMMA AnswerIsAdded ==
  ASSUME SessionInv, ClientsWait, NEW r \in Clients, AskNext(r) \/ Finish(r)
  PROVE  LET i == target[r] IN
         /\ i \in Interviews /\ row[i].state = "asking"
         /\ Len(Given[i]) = Len(transcript[i].answered)
         /\ Len(mem[r].answered) = Len(transcript[i].answered) + 1
         /\ Len(transcript[i].answered) < MaxQuestions
         /\ AnswersIn(mem[r].answered) = Append(Given[i], r)
         /\ Given' = [Given EXCEPT ![i] = Append(@, r)]
         /\ AskNext(r) => /\ Len(mem[r].answered) < MaxQuestions
                          /\ Phase' = Phase /\ Graded' = Graded
         /\ Finish(r) => /\ Phase' = [Phase EXCEPT ![i] = "closed"]
                         /\ Graded' = [Graded EXCEPT ![i] = Append(Given[i], r)]
<1> DEFINE i == target[r]
<1>0. /\ TypeOK /\ Requests = Clients /\ i \in Interviews /\ CallIsCurrent(r) /\ Exists(i)
      /\ transcript[i].answered \in Seq(Turn) /\ pc[r] \in {"ask", "score"}
      /\ WellNumbered(transcript[i]) /\ ReportGradesTranscript /\ MemoryIsStorable
  BY SessionFacts DEF SessionRest, TypeOK, WellFormedInterview, AskNext, Finish, Update
<1>1. /\ row[i].state = "asking" /\ transcript[i].pending # NoQuestion
      /\ mem[r].answered = Append(transcript[i].answered, TurnOf(r))
      /\ mem[r].state = "asking" /\ mem[r].report = NoReport /\ row[i].report = NoReport
  BY <1>0 DEF CallIsCurrent, MemoryIsStorable, ReportGradesTranscript
<1>2. TurnOf(r) \in Turn /\ TurnOf(r).answer = r
  BY <1>0 DEF TurnOf, Turn, TypeOK
<1>3. /\ Given[i] = AnswersIn(transcript[i].answered)
      /\ Len(Given[i]) = Len(transcript[i].answered)
      /\ Len(mem[r].answered) = Len(transcript[i].answered) + 1
      /\ AnswersIn(mem[r].answered) = Append(Given[i], r)
  <2> DEFINE turns == transcript[i].answered
             turn == TurnOf(r)
  <2>1. turns \in Seq(Turn) /\ turn \in Turn /\ turn.answer = r /\ mem[r].answered = Append(turns, turn)
    BY <1>0, <1>1, <1>2
  <2>2. Given[i] = AnswersIn(turns)
    BY <1>0 DEF Given
  <2> HIDE DEF turns, turn
  <2>3. /\ Len(Given[i]) = Len(turns) /\ Len(Append(turns, turn)) = Len(turns) + 1
        /\ AnswersIn(Append(turns, turn)) = Append(Given[i], r)
    BY <2>1, <2>2, AnswersInOrder
  <2> QED
    BY <2>1, <2>2, <2>3 DEF turns
<1>4. Len(transcript[i].answered) < MaxQuestions
  BY <1>0, <1>1 DEF WellNumbered
<1>5. /\ transcript'[i].answered = mem[r].answered
      /\ \A x \in Interviews \ {i} : row'[x] = row[x] /\ transcript'[x] = transcript[x]
      /\ AskNext(r) => row'[i].state = "asking" /\ row'[i].report = NoReport
      /\ Finish(r) => row'[i].state = "closed" /\ row'[i].report.graded = mem[r].answered
  <2>1. mem[r] \in Aggregate
    BY <1>0 DEF TypeOK
  <2>2. CASE AskNext(r)
    <3>1. ~Finish(r)
      BY <2>2 DEF AskNext, Finish
    <3> QED
      BY <1>0, <1>1, <2>1, <2>2, <3>1 DEF AskNext, Update, TypeOK, Aggregate
  <2>3. CASE Finish(r)
    <3>1. ~AskNext(r)
      BY <2>3 DEF AskNext, Finish
    <3> QED
      BY <1>0, <1>1, <2>1, <2>3, <3>1 DEF Finish, Update, TypeOK, Aggregate
  <2> QED
    BY <2>2, <2>3
<1>6. Given' = [Given EXCEPT ![i] = Append(Given[i], r)]
  <2>1. \A x \in Interviews :
          AnswersIn(transcript'[x].answered) = IF x = i THEN Append(Given[i], r) ELSE Given[x]
    BY <1>3, <1>5 DEF Given
  <2> QED
    BY <2>1 DEF Given
<1>7. AskNext(r) => Len(mem[r].answered) < MaxQuestions
  BY <1>0 DEF AskNext, MemoryIsStorable
<1>8. ASSUME AskNext(r) PROVE Phase' = Phase /\ Graded' = Graded
  <2>1. \A x \in Interviews : row'[x].state = row[x].state /\ row'[x].report = row[x].report
    BY <1>1, <1>5, <1>8
  <2> QED
    BY <2>1 DEF Phase, Graded
<1>9. ASSUME Finish(r)
      PROVE  /\ Phase' = [Phase EXCEPT ![i] = "closed"]
             /\ Graded' = [Graded EXCEPT ![i] = Append(Given[i], r)]
  <2>1. \A x \in Interviews :
          /\ row'[x].state = IF x = i THEN "closed" ELSE row[x].state
          /\ AnswersIn(row'[x].report.graded) =
               IF x = i THEN Append(Given[i], r) ELSE AnswersIn(row[x].report.graded)
    BY <1>3, <1>5, <1>9
  <2> QED
    BY <2>1 DEF Phase, Graded
<1> QED
  BY <1>0, <1>1, <1>3, <1>4, <1>6, <1>7, <1>8, <1>9

\* An answer continues the interview or closes it with a card.
LEMMA AnswersContinueOrClose ==
  ASSUME SessionInv, ClientsWait, NEW r \in Clients, AskNext(r) \/ Finish(r),
         NEW i \in Interviews, i = target[r]
  PROVE  Session!Continue(i, r) \/ Session!Close(i, r)
<1>1. /\ i \in Interviews /\ Phase[i] = "asking" /\ Len(Given[i]) < MaxQuestions
      /\ Given' = [Given EXCEPT ![i] = Append(@, r)] /\ Given'[i] = Append(Given[i], r)
  BY AnswerIsAdded DEF Phase, Given
<1>2. CASE AskNext(r)
  <2>1. Len(Given[i]) + 1 < MaxQuestions /\ Phase' = Phase /\ Graded' = Graded
    BY <1>2, AnswerIsAdded
  <2> QED
    BY <1>1, <2>1 DEF Session!Continue, Phase, Given, Graded
<1>3. CASE Finish(r)
  <2>1. /\ Phase' = [Phase EXCEPT ![i] = "closed"]
        /\ Graded' = [Graded EXCEPT ![i] = Given'[i]]
    BY <1>1, <1>3, AnswerIsAdded
  <2> QED
    BY <1>1, <2>1 DEF Session!Close, Phase, Given, Graded
<1> QED
  BY <1>2, <1>3

\* Erasure removes the interviews together.
LEMMA ErasureErases ==
  ASSUME SessionInv, ClientsWait, EraseInterviews \/ EraseCandidate
  PROVE  Session!Erase
<1>1. /\ TypeOK /\ ReportGradesTranscript
      /\ \A i \in Interviews :
           /\ transcript'[i].answered = <<>>
           /\ Exists(i) => row'[i] = [state |-> "erased", report |-> NoReport]
           /\ ~Exists(i) => row'[i] = row[i]
  BY SessionFacts DEF EraseInterviews, EraseCandidate, RemoveInterviews
<1>2. \A i \in Interviews : /\ row'[i].report = NoReport
                           /\ row'[i].state = IF row[i].state = "absent" THEN "absent" ELSE "erased"
  <2> SUFFICES ASSUME NEW i \in Interviews
               PROVE  /\ row'[i].report = NoReport
                      /\ row'[i].state = IF row[i].state = "absent" THEN "absent" ELSE "erased"
    OBVIOUS
  <2>1. CASE Exists(i)
    BY <1>1, <2>1 DEF Exists, Stored
  <2>2. CASE ~Exists(i)
    <3>1. row[i].state \in {"absent", "erased"}
      BY <1>1, <2>2 DEF Exists, Stored, State, TypeOK
    <3> QED
      BY <1>1, <2>2, <3>1 DEF ReportGradesTranscript
  <2> QED
    BY <2>1, <2>2
<1>3. /\ Phase' = [i \in Interviews |-> IF Phase[i] = "absent" THEN "absent" ELSE "erased"]
      /\ Given' = [i \in Interviews |-> <<>>] /\ Graded' = [i \in Interviews |-> <<>>]
  BY <1>1, <1>2, AnswersInOrder DEF Phase, Given, Graded, NoReport
<1> QED
  BY <1>3 DEF Session!Erase, Phase, Given, Graded

(* For clients that wait, whatever fails, is retried or runs out of time, the      *)
(* interview is the session it was promised to be: answers are only added, one     *)
(* close grades them all, nothing follows it but erasure (Interviewer.Answer,      *)
(* Start, finish and InterviewRepo.Update against their doc comments).             *)
THEOREM InterviewsImplementSessions ==
  ASSUME ClientsWait
  PROVE  Spec => ImplementsSession
<1>1. ASSUME SessionInv, [Next]_vars PROVE [Session!Next]_(Session!sessionVars)
  <2>1. Requests = Clients /\ Jobs = {}
    BY DEF ClientsWait, Requests
  <2>2. ASSUME UNCHANGED store PROVE UNCHANGED Session!sessionVars
    BY <2>2 DEF Session!sessionVars, store
  <2>3. CASE UNCHANGED store
    BY <2>2, <2>3
  <2>4. ASSUME NEW r \in Clients, StartInterview(r) PROVE Session!Next
    <3>1. PICK i \in Interviews : i = target[r]
      BY <1>1, SessionFacts
    <3>2. Session!Open(i)
      BY <1>1, <2>4, <3>1, StartOpens
    <3> QED
      BY <3>2 DEF Session!Next
  <2>5. ASSUME NEW r \in Clients, AskNext(r) \/ Finish(r) PROVE Session!Next
    <3>1. PICK i \in Interviews : i = target[r]
      BY <1>1, SessionFacts
    <3>2. Session!Continue(i, r) \/ Session!Close(i, r)
      BY <1>1, <2>5, <3>1, AnswersContinueOrClose
    <3> QED
      BY <3>2 DEF Session!Next
  <2>6. CASE EraseInterviews \/ EraseCandidate
    BY <1>1, <2>6, ErasureErases DEF Session!Next
  <2>7. \/ UNCHANGED store \/ EraseInterviews \/ EraseCandidate
        \/ \E r \in Clients : StartInterview(r) \/ AskNext(r) \/ Finish(r)
    BY <1>1, <2>1
    DEF Next, ClientStep, JobStep, RequestStep, SubmitAnswer, TakeAnswer, ReadRow, Fail,
        ReadPassport, MarkScreened, SkipMark, BuildProfile, RunOutOfTime, EraseProfile, vars, store
  <2> QED
    BY <2>3, <2>4, <2>5, <2>6, <2>7
<1>2. SessionInv /\ [Next]_vars => SessionInv'
  BY SessionStep
<1> QED
  BY <1>1, <1>2, SessionStart, SessionStarts, PTL DEF Spec, ImplementsSession, Session!Spec
=============================================================================

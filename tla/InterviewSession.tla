-------------------------- MODULE InterviewSession --------------------------
(***************************************************************************)
(* What a candidate and a reviewer may rely on of a screening interview,    *)
(* whatever requests, failures and retries it takes to run it: answers are  *)
(* only ever added, one to each question put; the interview closes once,    *)
(* with a card that grades every answer given; nothing follows the close    *)
(* except erasure.                                                          *)
(***************************************************************************)
EXTENDS Naturals, Sequences

CONSTANTS Interviews, Answers, MaxQuestions

VARIABLES
  phase,    \* "absent", "asking", "closed" or "erased"
  answers,  \* the answers acknowledged, in order
  graded    \* the answers the report card grades; empty without a card

sessionVars == <<phase, answers, graded>>

Init ==
  /\ phase = [i \in Interviews |-> "absent"]
  /\ answers = [i \in Interviews |-> <<>>]
  /\ graded = [i \in Interviews |-> <<>>]

Open(i) ==
  /\ phase[i] = "absent"
  /\ phase' = [phase EXCEPT ![i] = "asking"]
  /\ UNCHANGED <<answers, graded>>

\* An answer that leads to another question.
Continue(i, a) ==
  /\ phase[i] = "asking"
  /\ Len(answers[i]) + 1 < MaxQuestions
  /\ answers' = [answers EXCEPT ![i] = Append(@, a)]
  /\ UNCHANGED <<phase, graded>>

\* The last answer, by count or by time.
Close(i, a) ==
  /\ phase[i] = "asking"
  /\ Len(answers[i]) < MaxQuestions
  /\ phase' = [phase EXCEPT ![i] = "closed"]
  /\ answers' = [answers EXCEPT ![i] = Append(@, a)]
  /\ graded' = [graded EXCEPT ![i] = answers'[i]]

\* The right to erasure removes the candidate's interviews together.
Erase ==
  /\ phase' = [i \in Interviews |-> IF phase[i] = "absent" THEN "absent" ELSE "erased"]
  /\ answers' = [i \in Interviews |-> <<>>]
  /\ graded' = [i \in Interviews |-> <<>>]

Next ==
  \/ \E i \in Interviews :
       \/ Open(i)
       \/ \E a \in Answers : Continue(i, a) \/ Close(i, a)
  \/ Erase

Spec == Init /\ [][Next]_sessionVars
=============================================================================

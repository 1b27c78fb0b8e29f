---------------------------- MODULE StreamProofs ----------------------------
(***************************************************************************)
(* InterviewStream, for any number of runs and questions and any capacity  *)
(* of the broker: the page asks the pending question, the broker drops     *)
(* nothing, and nothing of an earlier run is shown.                        *)
(***************************************************************************)
EXTENDS InterviewStream, TLAPS

-----------------------------------------------------------------------------
(* A question is in one place at a time: on the screen, in a call that       *)
(* answers it, in the broker's buffer, or on the wire.                       *)

Quiet(s) == \A i \in 1..Len(s) : s[i].kind # "question"

\* The only question among the events, if there is one, is the k-th.
AsksOnly(s, k) ==
  \A i \in 1..Len(s) : s[i].kind = "question" =>
    /\ s[i].ordinal = k
    /\ \A j \in 1..Len(s) : s[j].kind = "question" => j = i

Opened(r) == handler[r] \in {"listening", "gone"}
OnItsWay(r, n) == call[r][n] \in {"sent", "recorded"}
OnScreen(r) == page.run = r /\ page.status = "asking"

QuestionIsHere(r) ==
  OnScreen(r) =>
    /\ page.question = pending[r]
    /\ Opened(r) /\ buffer[r] = <<>> /\ Quiet(wire[r])
    /\ \A n \in Ordinals : ~OnItsWay(r, n)

OneAnswer(r) ==
  \A n \in Ordinals : OnItsWay(r, n) =>
    /\ Opened(r) /\ buffer[r] = <<>> /\ Quiet(wire[r])
    /\ call[r][n] = "sent" => pending[r] = n
    /\ \A m \in Ordinals : OnItsWay(r, m) => m = n

OneBuffered(r) ==
  buffer[r] # <<>> =>
    /\ handler[r] = "listening" /\ Quiet(wire[r])
    /\ buffer[r] = <<CardEvent>> \/ buffer[r] = <<AskEvent(pending[r])>>

OneOnTheWire(r) ==
  /\ AsksOnly(wire[r], pending[r])
  /\ ~Opened(r) => Quiet(wire[r])

Beginning(r) ==
  /\ r > started => handler[r] = "none"
  /\ handler[r] = "greeting" => pending[r] = 1

OneAtATime(r) ==
  QuestionIsHere(r) /\ OneAnswer(r) /\ OneBuffered(r) /\ OneOnTheWire(r) /\ Beginning(r)

PageInv ==
  /\ page.run = Nothing => page = Idle
  /\ page.run # Nothing => page.status # "idle"
  /\ page.run <= started

StreamInv == TypeOK /\ PageInv /\ \A r \in Runs : OneAtATime(r)

-----------------------------------------------------------------------------
(* Sequences of events *)

LEMMA EventKinds ==
  /\ CardEvent \in Event /\ End \in Event /\ Failure \in Event
  /\ \A k \in 0..MaxQuestions : AskEvent(k) \in Event
  /\ CardEvent.kind # "question" /\ End.kind # "question" /\ Failure.kind # "question"
  /\ \A k : AskEvent(k).kind = "question" /\ AskEvent(k).ordinal = k
<1>1. 0 \in 0..MaxQuestions
  BY BoundsAssumption
<1> QED
  BY <1>1 DEF CardEvent, End, Failure, AskEvent, Event

LEMMA NoEvents == \A k : <<>> \in Seq(Event) /\ Quiet(<<>>) /\ AsksOnly(<<>>, k)
BY DEF Quiet, AsksOnly

\* The first event is taken.
LEMMA TakeEvent ==
  ASSUME NEW s \in Seq(Event), s # <<>>, NEW k
  PROVE  /\ Tail(s) \in Seq(Event) /\ Head(s) \in Event
         /\ Quiet(s) => Quiet(Tail(s)) /\ Head(s).kind # "question"
         /\ AsksOnly(s, k) => AsksOnly(Tail(s), k)
         /\ AsksOnly(s, k) /\ Head(s).kind = "question" => Head(s).ordinal = k /\ Quiet(Tail(s))
<1>1. /\ Len(s) \in Nat \ {0} /\ Head(s) = s[1] /\ Head(s) \in Event
      /\ Tail(s) \in Seq(Event) /\ Len(Tail(s)) = Len(s) - 1
      /\ \A i \in 1..Len(Tail(s)) : Tail(s)[i] = s[i + 1]
  OBVIOUS
<1>2. 1 \in 1..Len(s) /\ \A i \in 1..Len(Tail(s)) : i + 1 \in 1..Len(s) /\ i + 1 # 1
  BY <1>1
<1>3. Quiet(s) => Quiet(Tail(s)) /\ Head(s).kind # "question"
  BY <1>1, <1>2 DEF Quiet
<1>4. AsksOnly(s, k) => AsksOnly(Tail(s), k)
  <2> SUFFICES ASSUME AsksOnly(s, k), NEW i \in 1..Len(Tail(s)), Tail(s)[i].kind = "question"
               PROVE  /\ Tail(s)[i].ordinal = k
                      /\ \A j \in 1..Len(Tail(s)) : Tail(s)[j].kind = "question" => j = i
    BY DEF AsksOnly
  <2>1. s[i + 1].ordinal = k /\ \A j \in 1..Len(s) : s[j].kind = "question" => j = i + 1
    BY <1>1, <1>2 DEF AsksOnly
  <2>2. \A j \in 1..Len(Tail(s)) : j + 1 = i + 1 => j = i
    BY <1>1
  <2> QED
    BY <1>1, <1>2, <2>1, <2>2
<1>5. AsksOnly(s, k) /\ Head(s).kind = "question" => Head(s).ordinal = k /\ Quiet(Tail(s))
  BY <1>1, <1>2 DEF AsksOnly, Quiet
<1> QED
  BY <1>1, <1>3, <1>4, <1>5

\* An event is added.
LEMMA AddEvent ==
  ASSUME NEW s \in Seq(Event), NEW e \in Event, NEW k
  PROVE  /\ s \o <<e>> \in Seq(Event)
         /\ e.kind # "question" => /\ Quiet(s) => Quiet(s \o <<e>>)
                                   /\ AsksOnly(s, k) => AsksOnly(s \o <<e>>, k)
         /\ e.kind = "question" /\ e.ordinal = k /\ Quiet(s) => AsksOnly(s \o <<e>>, k)
<1> DEFINE t == s \o <<e>>
<1>1. /\ t \in Seq(Event) /\ Len(s) \in Nat /\ Len(t) = Len(s) + 1 /\ t[Len(s) + 1] = e
      /\ \A i \in 1..Len(s) : t[i] = s[i]
  OBVIOUS
<1>2. \A i \in 1..Len(t) : i \in 1..Len(s) \/ i = Len(s) + 1
  BY <1>1
<1> HIDE DEF t
<1>3. ASSUME e.kind # "question", Quiet(s) PROVE Quiet(t)
  BY <1>1, <1>2, <1>3 DEF Quiet
<1>4. ASSUME e.kind # "question", AsksOnly(s, k) PROVE AsksOnly(t, k)
  BY <1>1, <1>2, <1>4 DEF AsksOnly
<1>5. ASSUME e.kind = "question", e.ordinal = k, Quiet(s) PROVE AsksOnly(t, k)
  BY <1>1, <1>2, <1>5 DEF AsksOnly, Quiet
<1> QED
  BY <1>1, <1>3, <1>4, <1>5 DEF t

\* The report card and the end of the stream are added.
LEMMA AddCard ==
  ASSUME NEW s \in Seq(Event), NEW k, AsksOnly(s, k)
  PROVE  AsksOnly(s \o <<CardEvent, End>>, k)
<1> DEFINE t == s \o <<CardEvent, End>>
<1>1. /\ Len(s) \in Nat /\ Len(t) = Len(s) + 2
      /\ t[Len(s) + 1] = CardEvent /\ t[Len(s) + 2] = End /\ \A i \in 1..Len(s) : t[i] = s[i]
  BY EventKinds
<1>2. \A i \in 1..Len(t) : i \in 1..Len(s) \/ i = Len(s) + 1 \/ i = Len(s) + 2
  BY <1>1
<1> HIDE DEF t
<1>3. AsksOnly(t, k)
  BY <1>1, <1>2, EventKinds DEF AsksOnly
<1> QED
  BY <1>3 DEF t

\* The rest is lost.
LEMMA CutEvents ==
  ASSUME NEW s \in Seq(Event), NEW n \in 0..Len(s), NEW k
  PROVE  /\ SubSeq(s, 1, n) \in Seq(Event)
         /\ Quiet(s) => Quiet(SubSeq(s, 1, n))
         /\ AsksOnly(s, k) => AsksOnly(SubSeq(s, 1, n), k)
<1> DEFINE t == SubSeq(s, 1, n)
<1>1. /\ t \in Seq(Event) /\ Len(t) = n /\ n \in Nat /\ n <= Len(s) /\ Len(s) \in Nat
      /\ \A i \in 1..n : t[i] = s[i]
  OBVIOUS
<1>2. \A i \in 1..Len(t) : i \in 1..Len(s) /\ t[i] = s[i]
  BY <1>1
<1> HIDE DEF t
<1>3. Quiet(s) => Quiet(t)
  BY <1>2 DEF Quiet
<1>4. AsksOnly(s, k) => AsksOnly(t, k)
  BY <1>2 DEF AsksOnly
<1> QED
  BY <1>1, <1>3, <1>4 DEF t

-----------------------------------------------------------------------------
(* Types *)

Statuses == {"idle", "connecting", "asking", "submitting", "done", "error"}
Pages == [status: Statuses, run: 0..MaxRuns, question: 0..MaxQuestions, from: 0..MaxRuns,
          report: 0..MaxRuns]

\* Showing an event leaves the page a page.
LEMMA ShownIsAPage ==
  ASSUME TypeOK, NEW r \in Runs, NEW e \in Event
  PROVE  Shown(r, e) \in Pages
<1>1. /\ e.kind \in {"question", "report", "end", "failure"} /\ e.ordinal \in 0..MaxQuestions
      /\ r \in 0..MaxRuns /\ 0 \in 0..MaxQuestions
  BY BoundsAssumption DEF Event, Runs
<1> QED
  BY <1>1 DEF Shown, TypeOK, Nothing, Pages, Statuses

LEMMA StreamType ==
  ASSUME TypeOK, [Next]_vars
  PROVE  TypeOK'
<1> USE BoundsAssumption DEF TypeOK, Runs, Ordinals, Nothing, CallGoes, Hear
<1>1. CASE HookStep
  <2>0. page \in Pages /\ 0 \in 0..MaxQuestions /\ 0 \in 0..MaxRuns
    BY DEF Pages, Statuses
  <2>1. CASE Start
    <3>1. started + 1 \in Runs /\ started + 1 \in 0..MaxRuns
      BY <2>1 DEF Start
    <3>2. page' \in Pages
      BY <2>0, <2>1, <3>1 DEF Start, Idle, Pages, Statuses
    <3>3. handler' \in [Runs -> {"none", "opening", "greeting", "listening", "gone"}]
      BY <2>1, <3>1 DEF Start
    <3> QED
      BY <2>1, <3>1, <3>2, <3>3 DEF Start, Pages, Statuses
  <2>2. CASE Submit
    <3>1. page' \in Pages
      BY <2>0, <2>2 DEF Submit, Pages, Statuses
    <3>2. call' \in [Runs -> [Ordinals -> {"none", "sent", "recorded", "accepted", "failed", "over"}]]
      BY <2>2 DEF Submit
    <3> QED
      BY <2>2, <3>1, <3>2 DEF Submit, Pages, Statuses
  <2>3. CASE Stall
    BY <2>3 DEF Stall, server
  <2>4. CASE Reset
    <3>1. page' \in Pages
      BY <2>0, <2>4 DEF Reset, Idle, Pages, Statuses
    <3>2. page.run \in Runs
      BY <2>0, <2>4 DEF Reset, Pages
    <3> QED
      BY <2>4, <3>1, <3>2 DEF Reset, server, Pages, Statuses
  <2> QED
    BY <1>1, <2>1, <2>2, <2>3, <2>4 DEF HookStep
<1>2. ASSUME NEW r \in Runs, RunStep(r) PROVE TypeOK'
  <2>1. CASE Receive(r)
    <3>1. wire[r] \in Seq(Event) /\ wire[r] # <<>> /\ <<>> \in Seq(Event)
      BY <2>1 DEF Receive
    <3>2. Head(wire[r]) \in Event /\ Tail(wire[r]) \in Seq(Event)
      BY <3>1
    <3>3. Shown(r, Head(wire[r])) \in Pages /\ page \in Pages
      BY <3>2, ShownIsAPage DEF Pages, Statuses
    <3>4. page' = page \/ page' = Shown(r, Head(wire[r]))
      BY <2>1 DEF Receive
    <3>5. wire' \in [Runs -> Seq(Event)]
      BY <2>1, <3>1, <3>2 DEF Receive
    <3> QED
      BY <2>1, <3>3, <3>4, <3>5 DEF Receive, server, Pages, Statuses
  <2>2. CASE Open(r)
    BY <2>2 DEF Open, client
  <2>3. CASE OpenFails(r)
    BY <2>3, EventKinds, AddEvent DEF OpenFails, client
  <2>4. CASE Greet(r)
    <3>1. AskEvent(1) \in Event
      BY EventKinds
    <3> QED
      BY <2>4, <3>1, AddEvent DEF Greet, client
  <2>5. CASE Forward(r)
    <3> DEFINE e == Head(buffer[r])
    <3>1. buffer[r] \in Seq(Event) /\ buffer[r] # <<>>
      BY <2>5 DEF Forward
    <3>2. e \in Event /\ Tail(buffer[r]) \in Seq(Event) /\ <<>> \in Seq(Event)
      BY <3>1
    <3>3. wire[r] \o <<e>> \in Seq(Event) /\ wire[r] \o <<e, End>> \in Seq(Event)
      BY <3>2, EventKinds
    <3>4. /\ buffer' = [buffer EXCEPT ![r] = <<>>] \/ buffer' = [buffer EXCEPT ![r] = Tail(buffer[r])]
          /\ wire' = [wire EXCEPT ![r] = wire[r] \o <<e>>] \/ wire' = [wire EXCEPT ![r] = wire[r] \o <<e, End>>]
      BY <2>5 DEF Forward
    <3> HIDE DEF e
    <3>5. buffer' \in [Runs -> Seq(Event)]
      <4>1. <<>> \in Seq(Event) /\ Tail(buffer[r]) \in Seq(Event)
        BY <3>2
      <4> QED
        BY <3>4, <4>1
    <3>6. wire' \in [Runs -> Seq(Event)]
      <4> QED
        BY <3>3, <3>4
    <3> QED
      BY <2>5, <3>5, <3>6 DEF Forward, client
  <2>6. CASE Cancel(r)
    BY <2>6 DEF Cancel, client
  <2>7. CASE Break(r)
    <3>1. PICK n \in 0..Len(wire[r]) :
            wire' = [wire EXCEPT ![r] = SubSeq(@, 1, n) \o <<Failure>>]
      BY <2>7 DEF Break
    <3>2. SubSeq(wire[r], 1, n) \o <<Failure>> \in Seq(Event)
      BY EventKinds, CutEvents, AddEvent
    <3> QED
      BY <2>7, <3>1, <3>2 DEF Break, client, server
  <2> QED
    BY <1>2, <2>1, <2>2, <2>3, <2>4, <2>5, <2>6, <2>7 DEF RunStep
<1>3. ASSUME NEW r \in Runs, NEW n \in Ordinals, CallStep(r, n) PROVE TypeOK'
  <2>1. CASE Record(r, n)
    <3>1. pending[r] \in Nat /\ pending[r] <= MaxQuestions
      OBVIOUS
    <3>2. PICK k \in 0..MaxQuestions : pending' = [pending EXCEPT ![r] = k]
      BY <2>1, <3>1 DEF Record
    <3> QED
      BY <2>1, <3>2 DEF Record, client
  <2>2. CASE Refuse(r, n)
    BY <2>2 DEF Refuse, client
  <2>3. CASE Publish(r, n)
    <3> DEFINE e == IF pending[r] = 0 THEN CardEvent ELSE AskEvent(pending[r])
    <3>1. e \in Event
      BY EventKinds
    <3>2. Append(buffer[r], e) \in Seq(Event)
      BY <3>1
    <3> QED
      BY <2>3, <3>2 DEF Publish, client
  <2>4. CASE Resolved(r, n)
    BY <2>4 DEF Resolved, client
  <2>5. CASE Rejected(r, n)
    BY <2>5 DEF Rejected
  <2> QED
    BY <1>3, <2>1, <2>2, <2>3, <2>4, <2>5 DEF CallStep
<1>4. CASE Restart
  <2> DEFINE lost == {r \in Runs : handler[r] \in {"opening", "greeting", "listening"}}
  <2>1. broken' \subseteq Runs /\ handler' \in [Runs -> {"none", "opening", "greeting", "listening", "gone"}]
    BY <1>4 DEF Restart
  <2>2. \A r \in Runs : wire[r] \o <<Failure>> \in Seq(Event)
    BY EventKinds, AddEvent
  <2>3. wire' \in [Runs -> Seq(Event)]
    BY <1>4, <2>2 DEF Restart
  <2>4. buffer' \in [Runs -> Seq(Event)]
    BY <1>4 DEF Restart
  <2>5. call' \in [Runs -> [Ordinals -> {"none", "sent", "recorded", "accepted", "failed", "over"}]]
    BY <1>4 DEF Restart
  <2> QED
    BY <1>4, <2>1, <2>3, <2>4, <2>5 DEF Restart, client
<1>5. CASE UNCHANGED vars
  BY <1>5 DEF vars, client, server
<1> QED
  BY <1>1, <1>2, <1>3, <1>4, <1>5 DEF Next

-----------------------------------------------------------------------------
(* Steps *)

\* What a page becomes when it shows an event.
LEMMA ShownFacts ==
  ASSUME TypeOK, NEW r \in Runs, NEW e \in Event
  PROVE  /\ Shown(r, e).run = page.run
         /\ e.kind = "question" =>
              /\ Shown(r, e).status = "asking" /\ Shown(r, e).question = e.ordinal
              /\ Shown(r, e).from = r /\ Shown(r, e).report = page.report
         /\ e.kind = "report" =>
              /\ Shown(r, e).status = "done" /\ Shown(r, e).from = r /\ Shown(r, e).report = r
         /\ e.kind \notin {"question", "report"} =>
              \/ Shown(r, e) = page
              \/ Shown(r, e).status = "error" /\ Shown(r, e).report = page.report
<1>1. e.kind \in {"question", "report", "end", "failure"}
  BY DEF Event
<1> QED
  BY <1>1 DEF Shown, TypeOK

\* A run keeps its invariant when nothing of it changes but that it may leave the screen.
LEMMA Untouched ==
  ASSUME TypeOK, started' \in Nat, started' >= started, NEW q \in Runs, OneAtATime(q),
         handler'[q] = handler[q], pending'[q] = pending[q], buffer'[q] = buffer[q],
         wire'[q] = wire[q], call'[q] = call[q],
         OnScreen(q)' => OnScreen(q) /\ page'.question = page.question
  PROVE  OneAtATime(q)'
<1>1. started \in Nat /\ q \in Nat
  BY DEF TypeOK, Runs
<1>2. \A n \in Ordinals : OnItsWay(q, n)' <=> OnItsWay(q, n)
  BY DEF OnItsWay
<1>3. Opened(q)' <=> Opened(q)
  BY DEF Opened
<1>4. QuestionIsHere(q)'
  BY <1>2, <1>3 DEF OneAtATime, QuestionIsHere
<1>5. OneAnswer(q)'
  BY <1>2, <1>3 DEF OneAtATime, OneAnswer
<1>6. OneBuffered(q)' /\ OneOnTheWire(q)'
  BY <1>3 DEF OneAtATime, OneBuffered, OneOnTheWire
<1>7. Beginning(q)'
  BY <1>1 DEF OneAtATime, Beginning
<1> QED
  BY <1>4, <1>5, <1>6, <1>7 DEF OneAtATime

LEMMA PageStep ==
  ASSUME TypeOK, PageInv, [Next]_vars
  PROVE  PageInv'
<1> USE DEF PageInv, Nothing
<1>0. started \in Nat /\ page.run \in Nat
  BY DEF TypeOK
<1>1. CASE Start
  BY <1>0, <1>1 DEF Start, Idle
<1>2. CASE Submit
  BY <1>2 DEF Submit, TypeOK, Idle
<1>3. CASE Stall
  BY <1>3 DEF Stall, TypeOK, Idle
<1>4. CASE Reset
  BY <1>0, <1>4 DEF Reset, Idle
<1>5. ASSUME NEW r \in Runs, Receive(r) PROVE PageInv'
  <2>1. CASE UNCHANGED page
    BY <1>5, <2>1 DEF Receive
  <2>2. CASE page' = Shown(r, Head(wire[r])) /\ Active(r)
    <3>1. wire[r] \in Seq(Event) /\ wire[r] # <<>>
      BY <1>5 DEF Receive, TypeOK
    <3>2. Head(wire[r]) \in Event
      BY <3>1
    <3>3. page.run = r /\ r # 0
      BY <2>2 DEF Active, Runs
    <3>4. Head(wire[r]).kind \in {"question", "report", "end", "failure"}
      BY <3>2 DEF Event
    <3> QED
      BY <1>5, <2>2, <3>2, <3>3, <3>4, ShownFacts DEF Receive
  <2> QED
    BY <1>5, <2>1, <2>2 DEF Receive
<1>6. ASSUME NEW r \in Runs, NEW n \in Ordinals, Rejected(r, n) PROVE PageInv'
  <2>1. CASE UNCHANGED page
    BY <1>6, <2>1 DEF Rejected
  <2>2. CASE page' = [page EXCEPT !.status = "error"] /\ Active(r)
    <3>1. page.run = r /\ r # 0
      BY <2>2 DEF Active, Runs
    <3> QED
      BY <1>6, <2>2, <3>1 DEF Rejected, TypeOK
  <2> QED
    BY <1>6, <2>1, <2>2 DEF Rejected
<1>7. CASE UNCHANGED client
  BY <1>7 DEF client
<1>8. ASSUME NEW r \in Runs, RunStep(r) PROVE Receive(r) \/ UNCHANGED client
  BY <1>8 DEF RunStep, Open, OpenFails, Greet, Forward, Cancel, Break
<1>9. ASSUME NEW r \in Runs, NEW n \in Ordinals, CallStep(r, n)
      PROVE  Rejected(r, n) \/ UNCHANGED client
  BY <1>9 DEF CallStep, Record, Refuse, Publish, Resolved
<1> QED
  BY <1>1, <1>2, <1>3, <1>4, <1>5, <1>6, <1>7, <1>8, <1>9 DEF Next, HookStep, Restart, vars

\* The steps of the hook.
LEMMA HookKeepsOne ==
  ASSUME StreamInv, HookStep, TypeOK'
  PROVE  \A q \in Runs : OneAtATime(q)'
<1> SUFFICES ASSUME NEW q \in Runs PROVE OneAtATime(q)'
  OBVIOUS
<1>0. /\ TypeOK /\ PageInv /\ OneAtATime(q) /\ started \in Nat /\ started' \in Nat
      /\ started' >= started
  <2>1. TypeOK /\ PageInv /\ OneAtATime(q)
    BY DEF StreamInv
  <2>2. started \in Nat
    BY <2>1 DEF TypeOK
  <2>3. started' = started \/ started' = started + 1
    BY DEF HookStep, Start, Submit, Stall, Reset
  <2> QED
    BY <2>1, <2>2, <2>3
<1>1. CASE Start
  <2>1. ~OnScreen(q)'
    BY <1>1 DEF Start, OnScreen, Idle
  <2>2. CASE q = started + 1
    <3>1. /\ q > started /\ handler[q] = "none" /\ handler'[q] = "opening" /\ started' = q
          /\ <<pending, buffer, wire, call>>' = <<pending, buffer, wire, call>>
      BY <1>0, <1>1, <2>2 DEF Start, OneAtATime, Beginning, TypeOK
    <3>2. /\ \A n \in Ordinals : ~OnItsWay(q, n)
          /\ buffer[q] = <<>> /\ Quiet(wire[q]) /\ AsksOnly(wire[q], pending[q])
      BY <1>0, <3>1 DEF OneAtATime, OneAnswer, OneBuffered, OneOnTheWire, Opened
    <3>3. \A n \in Ordinals : ~OnItsWay(q, n)'
      BY <3>1, <3>2 DEF OnItsWay
    <3>4. q \in Nat
      BY DEF Runs
    <3> QED
      BY <2>1, <3>1, <3>2, <3>3, <3>4
         DEF OneAtATime, QuestionIsHere, OneAnswer, OneBuffered, OneOnTheWire, Beginning
  <2>3. CASE q # started + 1
    BY <1>0, <1>1, <2>1, <2>3, Untouched DEF Start, TypeOK
  <2> QED
    BY <2>2, <2>3
<1>2. CASE Submit
  <2>1. ~OnScreen(q)'
    BY <1>0, <1>2 DEF Submit, OnScreen, TypeOK
  <2>2. CASE q = page.run
    <3> DEFINE n == page.question
    <3>1. OnScreen(q) /\ n \in Ordinals
      BY <1>0, <1>2, <2>2 DEF Submit, OnScreen, TypeOK, Ordinals
    <3>2. /\ n = pending[q] /\ Opened(q) /\ buffer[q] = <<>> /\ Quiet(wire[q])
          /\ \A m \in Ordinals : ~OnItsWay(q, m)
      BY <1>0, <3>1 DEF OneAtATime, QuestionIsHere
    <3>3. /\ <<handler, buffer, wire, pending, started>>' = <<handler, buffer, wire, pending, started>>
          /\ call'[q][n] = "sent" /\ \A m \in Ordinals : m # n => call'[q][m] = call[q][m]
      BY <1>0, <1>2, <2>2, <3>1 DEF Submit, CallGoes, TypeOK
    <3>4. \A m \in Ordinals : OnItsWay(q, m)' => m = n
      BY <3>2, <3>3 DEF OnItsWay
    <3>5. OneAnswer(q)'
      BY <3>2, <3>3, <3>4 DEF OneAnswer, Opened
    <3> QED
      BY <1>0, <2>1, <3>3, <3>5
         DEF OneAtATime, QuestionIsHere, OneBuffered, OneOnTheWire, Beginning, Opened
  <2>3. CASE q # page.run
    <3>1. call'[q] = call[q]
      BY <1>0, <1>2, <2>3 DEF Submit, CallGoes, TypeOK
    <3> QED
      BY <1>0, <1>2, <2>1, <3>1, Untouched DEF Submit
  <2> QED
    BY <2>2, <2>3
<1>3. CASE Stall \/ Reset
  <2>1. ~OnScreen(q)'
    BY <1>0, <1>3 DEF Stall, Reset, OnScreen, TypeOK, Idle
  <2> QED
    BY <1>0, <1>3, <2>1, Untouched DEF Stall, Reset, server
<1> QED
  BY <1>1, <1>2, <1>3 DEF HookStep

\* The steps of a run's stream.
LEMMA RunKeepsOne ==
  ASSUME StreamInv, NEW r \in Runs, RunStep(r), TypeOK'
  PROVE  \A q \in Runs : OneAtATime(q)'
<1> SUFFICES ASSUME NEW q \in Runs PROVE OneAtATime(q)'
  OBVIOUS
<1>0. /\ TypeOK /\ PageInv /\ OneAtATime(q) /\ started \in Nat /\ started' = started
      /\ wire[r] \in Seq(Event) /\ buffer[r] \in Seq(Event)
  <2>1. TypeOK /\ PageInv /\ OneAtATime(q)
    BY DEF StreamInv
  <2>2. started \in Nat /\ wire[r] \in Seq(Event) /\ buffer[r] \in Seq(Event)
    BY <2>1 DEF TypeOK
  <2>3. started' = started
    BY DEF RunStep, Receive, Open, OpenFails, Greet, Forward, Cancel, Break, client
  <2> QED
    BY <2>1, <2>2, <2>3
<1> USE DEF OneAtATime
\* No step but Receive touches the page or a call, and none another run.
<1>1. CASE Receive(r)
  <2> DEFINE e == Head(wire[r])
  <2>1. /\ <<handler, pending, buffer, call>>' = <<handler, pending, buffer, call>>
        /\ wire[r] # <<>>
    BY <1>1 DEF Receive, server
  <2>2. /\ e \in Event
        /\ Quiet(wire[r]) => Quiet(Tail(wire[r])) /\ e.kind # "question"
        /\ AsksOnly(wire[r], pending[r]) => AsksOnly(Tail(wire[r]), pending[r])
        /\ AsksOnly(wire[r], pending[r]) /\ e.kind = "question" =>
             e.ordinal = pending[r] /\ Quiet(Tail(wire[r]))
    BY <1>0, <2>1, TakeEvent
  <2>6. Active(r) => wire'[r] = Tail(wire[r]) /\ page' = Shown(r, e)
    BY <1>0, <1>1 DEF Receive, TypeOK
  <2> HIDE DEF e
  <2>3. CASE q # r
    <3>1. wire'[q] = wire[q]
      BY <1>0, <1>1, <2>3 DEF Receive, TypeOK
    <3>2. OnScreen(q)' => page' = page
      <4>1. Active(r) => ~OnScreen(q)'
        BY <1>0, <2>2, <2>6, <2>3, ShownFacts DEF OnScreen, Active
      <4> QED
        BY <1>1, <4>1 DEF Receive
    <3> QED
      BY <1>0, <2>1, <3>1, <3>2, Untouched DEF OnScreen
  <2>4. CASE q = r /\ ~Active(r)
    <3>1. wire'[r] = <<>> /\ page' = page
      BY <1>0, <1>1, <2>4 DEF Receive, TypeOK
    <3> QED
      BY <1>0, <2>1, <2>4, <3>1, NoEvents
         DEF QuestionIsHere, OneAnswer, OneBuffered, OneOnTheWire, Beginning, Opened, OnItsWay, OnScreen
  <2>5. CASE q = r /\ Active(r)
    <3>1. wire'[r] = Tail(wire[r]) /\ page' = Shown(r, e)
      BY <2>6, <2>5
    <3>2. AsksOnly(wire[r], pending[r]) /\ (~Opened(r) => Quiet(wire[r]))
      BY <1>0, <2>5 DEF OneOnTheWire
    <3>3. OneOnTheWire(r)' /\ (Quiet(wire[r]) => Quiet(wire'[r]))
      BY <2>1, <2>2, <3>1, <3>2 DEF OneOnTheWire, Opened
    <3>4. OneAnswer(r)' /\ OneBuffered(r)' /\ Beginning(r)'
      BY <1>0, <2>1, <2>5, <3>3 DEF OneAnswer, OneBuffered, Beginning, Opened, OnItsWay
    <3>5. QuestionIsHere(r)'
      <4>1. CASE e.kind = "question"
        <5>1. ~Quiet(wire[r])
          BY <2>2, <4>1
        <5>2. Opened(r) /\ buffer[r] = <<>> /\ \A n \in Ordinals : ~OnItsWay(r, n)
          BY <1>0, <2>5, <3>2, <5>1 DEF OneAnswer, OneBuffered
        <5>3. page'.question = pending[r] /\ Quiet(wire'[r])
          BY <1>0, <2>2, <3>1, <3>2, <4>1, ShownFacts
        <5> QED
          BY <2>1, <5>2, <5>3 DEF QuestionIsHere, Opened, OnItsWay
      <4>2. CASE e.kind # "question"
        <5>1. OnScreen(r)' => page' = page
          BY <1>0, <2>2, <3>1, <4>2, ShownFacts DEF OnScreen, Event
        <5> QED
          BY <1>0, <2>1, <2>5, <3>3, <5>1 DEF QuestionIsHere, Opened, OnItsWay, OnScreen
      <4> QED
        BY <4>1, <4>2
    <3> QED
      BY <2>5, <3>3, <3>4, <3>5
  <2> QED
    BY <2>3, <2>4, <2>5
<1>2. CASE ~Receive(r) /\ q # r
  <2>1. page' = page /\ call' = call
    BY <1>2 DEF RunStep, Open, OpenFails, Greet, Forward, Cancel, Break, client, server
  <2>2. /\ handler'[q] = handler[q] /\ pending'[q] = pending[q]
        /\ buffer'[q] = buffer[q] /\ wire'[q] = wire[q]
    <3>1. CASE Open(r) \/ OpenFails(r) \/ Greet(r) \/ Cancel(r)
      BY <1>0, <1>2, <3>1 DEF Open, OpenFails, Greet, Cancel, Hear, TypeOK
    <3>2. CASE Forward(r)
      BY <1>0, <1>2, <3>2 DEF Forward, Hear, TypeOK
    <3>3. CASE Break(r)
      BY <1>0, <1>2, <3>3 DEF Break, server, TypeOK
    <3> QED
      BY <1>2, <3>1, <3>2, <3>3 DEF RunStep
  <2> QED
    BY <1>0, <2>1, <2>2, Untouched DEF OnScreen
<1>3. CASE ~Receive(r) /\ q = r
  <2>1. page' = page /\ call' = call
    BY <1>3 DEF RunStep, Open, OpenFails, Greet, Forward, Cancel, Break, client, server
  <2>2. \A n \in Ordinals : OnItsWay(r, n)' <=> OnItsWay(r, n)
    BY <2>1 DEF OnItsWay
  <2>3. OnScreen(r)' <=> OnScreen(r)
    BY <2>1 DEF OnScreen
  <2>4. /\ QuestionIsHere(r) /\ OneAnswer(r) /\ OneBuffered(r) /\ OneOnTheWire(r) /\ Beginning(r)
        /\ r \in Nat
    BY <1>0, <1>3 DEF Runs
  \* While the stream is being opened nothing of the run is anywhere.
  <2>5. ASSUME ~Opened(r)
        PROVE  /\ ~OnScreen(r) /\ \A n \in Ordinals : ~OnItsWay(r, n)
               /\ buffer[r] = <<>> /\ Quiet(wire[r])
    BY <2>4, <2>5 DEF QuestionIsHere, OneAnswer, OneBuffered, OneOnTheWire, Opened
  <2>6. CASE Open(r)
    <3>1. /\ handler[r] = "opening" /\ handler'[r] = "greeting" /\ pending'[r] = 1
          /\ buffer'[r] = buffer[r] /\ wire'[r] = wire[r]
      BY <1>0, <2>6 DEF Open, TypeOK
    <3>2. ~Opened(r) /\ ~Opened(r)' /\ ~(r > started)
      BY <2>4, <3>1 DEF Opened, Beginning
    <3>3. AsksOnly(wire[r], 1)
      BY <2>5, <3>2 DEF AsksOnly, Quiet
    <3> QED
      BY <1>0, <1>3, <2>2, <2>3, <2>5, <3>1, <3>2, <3>3
         DEF QuestionIsHere, OneAnswer, OneBuffered, OneOnTheWire, Beginning
  <2>7. CASE OpenFails(r)
    <3>1. /\ handler[r] = "opening" /\ handler'[r] = "gone" /\ pending'[r] = pending[r]
          /\ buffer'[r] = buffer[r] /\ wire'[r] = wire[r] \o <<Failure>>
      BY <1>0, <2>7 DEF OpenFails, Hear, TypeOK
    <3>2. ~Opened(r) /\ Opened(r)' /\ ~(r > started)
      BY <2>4, <3>1 DEF Opened, Beginning
    <3>3. AsksOnly(wire'[r], pending[r])
      BY <1>0, <2>4, <3>1, AddEvent, EventKinds DEF OneOnTheWire
    <3> QED
      BY <1>0, <1>3, <2>2, <2>3, <2>5, <3>1, <3>2, <3>3
         DEF QuestionIsHere, OneAnswer, OneBuffered, OneOnTheWire, Beginning
  <2>8. CASE Greet(r)
    <3>1. /\ handler[r] = "greeting" /\ handler'[r] = "listening" /\ pending'[r] = pending[r]
          /\ buffer'[r] = buffer[r] /\ wire'[r] = wire[r] \o <<AskEvent(1)>>
      BY <1>0, <2>8 DEF Greet, Hear, TypeOK
    <3>2. ~Opened(r) /\ Opened(r)' /\ ~(r > started) /\ pending[r] = 1
      BY <2>4, <3>1 DEF Opened, Beginning
    <3>3. AskEvent(1) \in Event
      BY EventKinds, BoundsAssumption
    <3>4. AsksOnly(wire'[r], pending[r])
      BY <1>0, <2>5, <3>1, <3>2, <3>3, AddEvent, EventKinds
    <3> QED
      BY <1>0, <1>3, <2>2, <2>3, <2>5, <3>1, <3>2, <3>4
         DEF QuestionIsHere, OneAnswer, OneBuffered, OneOnTheWire, Beginning
  <2>9. CASE Forward(r)
    <3> DEFINE e == Head(buffer[r])
    <3>1. /\ handler[r] = "listening" /\ buffer[r] # <<>> /\ pending'[r] = pending[r]
          /\ Opened(r) /\ ~(r > started)
      BY <1>0, <2>4, <2>9 DEF Forward, Opened, Beginning
    <3>2. /\ Quiet(wire[r]) /\ ~OnScreen(r) /\ \A n \in Ordinals : ~OnItsWay(r, n)
          /\ \E x \in {CardEvent, AskEvent(pending[r])} : buffer[r] = <<x>>
      BY <2>4, <3>1 DEF QuestionIsHere, OneAnswer, OneBuffered
    <3>7. e \in {CardEvent, AskEvent(pending[r])} /\ Tail(buffer[r]) = <<>>
      BY <3>2
    <3>3. AsksOnly(wire[r], pending[r]) /\ pending[r] \in 0..MaxQuestions
      BY <1>0, <2>4 DEF OneOnTheWire, TypeOK
    <3>4. /\ handler'[r] \in {"listening", "gone"} /\ buffer'[r] = <<>>
          /\ e = CardEvent => wire'[r] = wire[r] \o <<e, End>>
          /\ e # CardEvent => wire'[r] = wire[r] \o <<e>>
      BY <1>0, <2>9, <3>1, <3>7 DEF Forward, Hear, TypeOK
    <3> HIDE DEF e
    <3>5. AsksOnly(wire'[r], pending[r])
      <4>1. CASE e = CardEvent
        BY <1>0, <3>3, <3>4, <4>1, AddCard
      <4>2. CASE e # CardEvent
        BY <1>0, <3>2, <3>3, <3>4, <3>7, <4>2, AddEvent, EventKinds
      <4> QED
        BY <4>1, <4>2
    <3>6. Opened(r)' /\ handler'[r] # "greeting"
      BY <3>4 DEF Opened
    <3> QED
      BY <1>0, <1>3, <2>2, <2>3, <3>1, <3>2, <3>4, <3>5, <3>6
         DEF QuestionIsHere, OneAnswer, OneBuffered, OneOnTheWire, Beginning
  <2>10. CASE Cancel(r)
    <3>1. /\ handler[r] # "none" /\ handler'[r] = "gone" /\ pending'[r] = pending[r]
          /\ buffer'[r] = <<>> /\ wire'[r] = wire[r]
      BY <1>0, <2>10 DEF Cancel, TypeOK
    <3>2. Opened(r)' /\ ~(r > started) /\ AsksOnly(wire[r], pending[r])
      BY <2>4, <3>1 DEF Opened, Beginning, OneOnTheWire
    <3> QED
      BY <1>0, <1>3, <2>1, <2>2, <2>3, <2>4, <3>1, <3>2
         DEF QuestionIsHere, OneAnswer, OneBuffered, OneOnTheWire, Beginning
  <2>11. CASE Break(r)
    <3>1. /\ <<handler, pending, buffer>>' = <<handler, pending, buffer>>
          /\ \E n \in 0..Len(wire[r]) : wire'[r] = SubSeq(wire[r], 1, n) \o <<Failure>>
      BY <1>0, <2>11 DEF Break, server, TypeOK
    <3>2. /\ Quiet(wire[r]) => Quiet(wire'[r])
          /\ AsksOnly(wire[r], pending[r]) => AsksOnly(wire'[r], pending[r])
      <4>1. PICK n \in 0..Len(wire[r]) : wire'[r] = SubSeq(wire[r], 1, n) \o <<Failure>>
        BY <3>1
      <4> DEFINE cut == SubSeq(wire[r], 1, n)
      <4>2. /\ cut \in Seq(Event) /\ (Quiet(wire[r]) => Quiet(cut))
            /\ (AsksOnly(wire[r], pending[r]) => AsksOnly(cut, pending[r]))
        BY <1>0, CutEvents
      <4>3. wire'[r] = cut \o <<Failure>>
        BY <4>1
      <4> HIDE DEF cut
      <4> QED
        BY <4>2, <4>3, AddEvent, EventKinds
    <3>3. Opened(r)' <=> Opened(r)
      BY <3>1 DEF Opened
    <3> QED
      BY <1>0, <1>3, <2>1, <2>2, <2>3, <2>4, <3>1, <3>2, <3>3
         DEF QuestionIsHere, OneAnswer, OneBuffered, OneOnTheWire, Beginning
  <2> QED
    BY <1>3, <2>6, <2>7, <2>8, <2>9, <2>10, <2>11 DEF RunStep
<1> QED
  BY <1>1, <1>2, <1>3

\* The steps of a call.
LEMMA CallKeepsOne ==
  ASSUME StreamInv, NEW r \in Runs, NEW n \in Ordinals, CallStep(r, n), TypeOK'
  PROVE  \A q \in Runs : OneAtATime(q)'
<1> SUFFICES ASSUME NEW q \in Runs PROVE OneAtATime(q)'
  OBVIOUS
<1>0. /\ TypeOK /\ PageInv /\ OneAtATime(q) /\ started \in Nat /\ started' = started
      /\ <<handler, wire>>' = <<handler, wire>> /\ r \in Nat
  <2>1. TypeOK /\ PageInv /\ OneAtATime(q)
    BY DEF StreamInv
  <2>2. started' = started /\ <<handler, wire>>' = <<handler, wire>>
    BY DEF CallStep, Record, Refuse, Publish, Resolved, Rejected, client
  <2> QED
    BY <2>1, <2>2 DEF TypeOK, Runs
<1>1. OnScreen(q)' => OnScreen(q) /\ page' = page
  <2>1. page' = page \/ page' = [page EXCEPT !.status = "error"]
    BY DEF CallStep, Record, Refuse, Publish, Resolved, Rejected, client
  <2> QED
    BY <1>0, <2>1 DEF OnScreen, TypeOK
\* What becomes of the call.
<1>2. PICK to \in {"recorded", "accepted", "failed", "over"} : CallGoes(r, n, to)
  BY DEF CallStep, Record, Refuse, Publish, Resolved, Rejected
<1>3. /\ call'[r][n] = to /\ \A m \in Ordinals : m # n => call'[r][m] = call[r][m]
      /\ q # r => call'[q] = call[q]
  BY <1>0, <1>2 DEF CallGoes, TypeOK
<1>4. \/ UNCHANGED <<pending, buffer>>
      \/ Record(r, n) \/ Publish(r, n)
  BY DEF CallStep, Refuse, Resolved, Rejected
<1>5. CASE q # r
  <2>1. pending'[q] = pending[q] /\ buffer'[q] = buffer[q]
    BY <1>0, <1>4, <1>5 DEF Record, Publish, TypeOK
  <2> QED
    BY <1>0, <1>1, <1>3, <1>5, <2>1, Untouched
<1>6. CASE q = r
  <2>1. /\ QuestionIsHere(r) /\ OneAnswer(r) /\ OneBuffered(r) /\ OneOnTheWire(r) /\ Beginning(r)
        /\ Opened(r)' <=> Opened(r)
    BY <1>0, <1>6 DEF OneAtATime, Opened
  \* A call that is answered or recorded has the interview to itself.
  <2>2. ASSUME OnItsWay(r, n)
        PROVE  /\ ~OnScreen(r)' /\ Opened(r)' /\ buffer[r] = <<>> /\ Quiet(wire'[r])
               /\ \A m \in Ordinals : OnItsWay(r, m)' => m = n
               /\ handler'[r] # "greeting" /\ ~(r > started')
               /\ \A k : AsksOnly(wire'[r], k)
    <3>1. Opened(r) /\ buffer[r] = <<>> /\ Quiet(wire[r]) /\ ~OnScreen(r)
      BY <2>1, <2>2 DEF OneAnswer, QuestionIsHere
    <3>2. \A m \in Ordinals : OnItsWay(r, m)' => m = n
      BY <1>3, <2>1, <2>2 DEF OneAnswer, OnItsWay
    <3>3. handler'[r] # "greeting" /\ ~(r > started')
      BY <1>0, <2>1, <3>1 DEF Opened, Beginning
    <3>4. \A k : AsksOnly(wire'[r], k)
      BY <1>0, <3>1 DEF Quiet, AsksOnly
    <3> QED
      BY <1>0, <1>1, <1>6, <2>1, <3>1, <3>2, <3>3, <3>4
  <2>3. CASE Record(r, n)
    <3>1. OnItsWay(r, n) /\ call'[r][n] = "recorded" /\ buffer' = buffer
      BY <1>0, <2>3 DEF Record, OnItsWay, CallGoes, TypeOK
    <3>2. \A m \in Ordinals : OnItsWay(r, m)' => call'[r][m] # "sent"
      BY <2>2, <3>1
    <3> QED
      BY <1>6, <2>2, <3>1, <3>2
         DEF OneAtATime, QuestionIsHere, OneAnswer, OneBuffered, OneOnTheWire, Beginning
  <2>4. CASE Publish(r, n)
    <3> DEFINE e == IF pending[r] = 0 THEN CardEvent ELSE AskEvent(pending[r])
    <3>1. OnItsWay(r, n) /\ call'[r][n] = "accepted" /\ pending' = pending
      BY <1>0, <2>4 DEF Publish, OnItsWay, CallGoes, TypeOK
    <3>2. \A m \in Ordinals : ~OnItsWay(r, m)'
      BY <2>2, <3>1 DEF OnItsWay
    <3>3. \/ buffer'[r] = <<>>
          \/ handler[r] = "listening" /\ buffer'[r] = Append(<<>>, e)
      <4>1. handler[r] # "greeting"
        BY <1>0, <2>2, <3>1
      <4> HIDE DEF e
      <4>2. \/ buffer'[r] = buffer[r]
            \/ handler[r] = "listening" /\ buffer'[r] = Append(buffer[r], e)
        BY <1>0, <2>4, <4>1 DEF Publish, TypeOK, e
      <4> QED
        BY <2>2, <3>1, <4>2
    <3>4. \/ buffer'[r] = <<>>
          \/ /\ handler'[r] = "listening"
             /\ buffer'[r] = <<CardEvent>> \/ buffer'[r] = <<AskEvent(pending'[r])>>
      BY <1>0, <3>1, <3>3
    <3> QED
      BY <1>6, <2>2, <3>1, <3>2, <3>4
         DEF OneAtATime, QuestionIsHere, OneAnswer, OneBuffered, OneOnTheWire, Beginning
  <2>5. CASE UNCHANGED <<pending, buffer>>
    <3>1. \A m \in Ordinals : OnItsWay(r, m)' => call'[r][m] = call[r][m] \/ OnItsWay(r, n)
      <4>1. ASSUME to = "recorded" PROVE OnItsWay(r, n)
        BY <1>0, <1>3, <4>1 DEF CallStep, Record, Refuse, Publish, Resolved, Rejected, CallGoes, TypeOK, OnItsWay
      <4> QED
        BY <1>3, <4>1 DEF OnItsWay
    <3>2. CASE OnItsWay(r, n)
      <4>1. \A m \in Ordinals : OnItsWay(r, m)' => call'[r][m] # "sent"
        BY <1>3, <2>2, <3>2
      <4> QED
        BY <1>6, <2>2, <2>5, <3>2, <4>1
           DEF OneAtATime, QuestionIsHere, OneAnswer, OneBuffered, OneOnTheWire, Beginning
    <3>3. CASE ~OnItsWay(r, n)
      <4>1. \A m \in Ordinals : OnItsWay(r, m)' => OnItsWay(r, m) /\ call'[r][m] = call[r][m]
        BY <3>1, <3>3 DEF OnItsWay
      <4>2. QuestionIsHere(r)'
        BY <1>0, <1>1, <1>6, <2>1, <2>5, <4>1 DEF QuestionIsHere
      <4>3. OneAnswer(r)'
        BY <1>0, <2>1, <2>5, <4>1 DEF OneAnswer
      <4> QED
        BY <1>0, <1>6, <2>1, <2>5, <4>2, <4>3 DEF OneAtATime, OneBuffered, OneOnTheWire, Beginning
    <3> QED
      BY <3>2, <3>3
  <2> QED
    BY <1>4, <2>3, <2>4, <2>5
<1> QED
  BY <1>5, <1>6

\* A restart loses calls, buffers and handlers, and moves nothing.
LEMMA RestartKeepsOne ==
  ASSUME StreamInv, Restart, TypeOK'
  PROVE  \A q \in Runs : OneAtATime(q)'
<1> SUFFICES ASSUME NEW q \in Runs PROVE OneAtATime(q)'
  OBVIOUS
<1>0. /\ TypeOK /\ q \in Nat /\ started \in Nat /\ started' = started /\ page' = page /\ pending' = pending
      /\ QuestionIsHere(q) /\ OneAnswer(q) /\ OneBuffered(q) /\ OneOnTheWire(q) /\ Beginning(q)
  BY DEF StreamInv, OneAtATime, TypeOK, Restart, client, Runs
<1>1. /\ buffer'[q] = <<>>
      /\ wire'[q] = wire[q] \/ wire'[q] = wire[q] \o <<Failure>>
      /\ handler'[q] = handler[q] \/ (handler[q] \in {"opening", "greeting", "listening"} /\ handler'[q] = "gone")
      /\ handler'[q] # "greeting"
  BY <1>0 DEF Restart, TypeOK
<1>2. \A n \in Ordinals : ~OnItsWay(q, n)'
  BY <1>0 DEF Restart, OnItsWay
<1>3. /\ Quiet(wire[q]) => Quiet(wire'[q])
      /\ AsksOnly(wire[q], pending[q]) => AsksOnly(wire'[q], pending[q])
  <2>1. wire[q] \in Seq(Event)
    BY <1>0 DEF TypeOK
  <2> QED
    BY <1>1, <2>1, AddEvent, EventKinds
<1>4. (Opened(q) => Opened(q)') /\ (OnScreen(q)' <=> OnScreen(q))
  BY <1>0, <1>1 DEF Opened, OnScreen
<1> QED
  BY <1>0, <1>1, <1>2, <1>3, <1>4
     DEF OneAtATime, QuestionIsHere, OneAnswer, OneBuffered, OneOnTheWire, Beginning

LEMMA StreamStart == Init => StreamInv
<1> SUFFICES ASSUME Init PROVE StreamInv
  OBVIOUS
<1>1. TypeOK
  BY BoundsAssumption, NoEvents DEF Init, TypeOK, Idle, Nothing
<1>2. PageInv
  BY DEF Init, PageInv, Idle, Nothing
<1>3. ASSUME NEW r \in Runs PROVE OneAtATime(r)
  BY NoEvents DEF Init, Idle, OneAtATime, QuestionIsHere, OneAnswer, OneBuffered, OneOnTheWire,
                  Beginning, Opened, OnItsWay, OnScreen
<1> QED
  BY <1>1, <1>2, <1>3 DEF StreamInv

LEMMA StreamStep == StreamInv /\ [Next]_vars => StreamInv'
<1> SUFFICES ASSUME StreamInv, [Next]_vars PROVE StreamInv'
  OBVIOUS
<1>1. TypeOK' /\ PageInv'
  BY StreamType, PageStep DEF StreamInv
<1>2. CASE UNCHANGED vars
  <2>1. ASSUME NEW q \in Runs PROVE OneAtATime(q)'
    BY <1>2, <2>1, Untouched DEF StreamInv, TypeOK, vars, client, server, OnScreen
  <2> QED
    BY <1>1, <2>1 DEF StreamInv
<1>3. CASE Next
  <2>1. \A q \in Runs : OneAtATime(q)'
    BY <1>1, <1>3, HookKeepsOne, RunKeepsOne, CallKeepsOne, RestartKeepsOne DEF Next
  <2> QED
    BY <1>1, <2>1 DEF StreamInv
<1> QED
  BY <1>2, <1>3

-----------------------------------------------------------------------------
(* Theorems *)

(* The hook, the stream, the broker and the calls keep their types, whatever    *)
(* breaks (useInterview, interview_handler.go).                                 *)
THEOREM StreamTypeCorrect == Spec => []TypeOK
<1>1. StreamInv => TypeOK
  BY DEF StreamInv
<1> QED
  BY <1>1, StreamStart, StreamStep, PTL DEF Spec

(* The question on the screen is the pending one and no answer is on its way:    *)
(* the page offers answer only while it asks, and a question is in one place at  *)
(* a time - screen, call, buffer or wire (useInterview, publish, StartInterview).*)
THEOREM ScreenIsPending == Spec => []AsksThePending
<1>1. StreamInv => AsksThePending
  <2> SUFFICES ASSUME StreamInv, page.status = "asking" PROVE AsksThePending
    BY DEF AsksThePending
  <2> DEFINE r == page.run
  <2>1. r \in Runs
    BY DEF StreamInv, PageInv, TypeOK, Runs, Idle, Nothing
  <2>2. page.question = pending[r] /\ \A n \in Ordinals : ~OnItsWay(r, n)
    BY <2>1 DEF StreamInv, OneAtATime, QuestionIsHere, OnScreen
  <2> QED
    BY <2>1, <2>2 DEF AsksThePending, OnItsWay
<1> QED
  BY <1>1, StreamStart, StreamStep, PTL DEF Spec

(* While an answer is recorded and not published the buffer is empty, so a       *)
(* single slot of the broker is enough (publish's default case never drops what  *)
(* a connected client waits for).                                                *)
THEOREM BrokerHasRoom == Spec => []NothingIsDropped
<1>1. StreamInv => NothingIsDropped
  <2> SUFFICES ASSUME StreamInv, NEW r \in Runs, NEW n \in Ordinals, call[r][n] = "recorded"
               PROVE  Len(buffer[r]) < Capacity
    BY DEF NothingIsDropped
  <2>1. buffer[r] = <<>>
    BY DEF StreamInv, OneAtATime, OneAnswer, OnItsWay
  <2> QED
    BY <2>1, BoundsAssumption
<1> QED
  BY <1>1, StreamStart, StreamStep, PTL DEF Spec

LEMMA ShownStep ==
  ASSUME StreamInv, ShowsThisRun, [Next]_vars
  PROVE  ShowsThisRun'
<1> USE DEF ShowsThisRun, Nothing
<1>0. TypeOK /\ PageInv
  BY DEF StreamInv
<1>1. CASE HookStep
  <2>1. CASE Start \/ Reset
    <3>1. Start => page'.status = "connecting" /\ page'.report = 0
      BY DEF Start, Idle
    <3>2. Reset => page'.status = "idle" /\ page'.report = 0
      BY DEF Reset, Idle
    <3> QED
      BY <2>1, <3>1, <3>2
  <2>2. CASE Submit \/ Stall
    BY <1>0, <2>2 DEF Submit, Stall, TypeOK
  <2> QED
    BY <1>1, <2>1, <2>2 DEF HookStep
<1>2. ASSUME NEW r \in Runs, Receive(r) PROVE ShowsThisRun'
  <2>1. CASE UNCHANGED page
    BY <2>1
  <2>2. CASE page' = Shown(r, Head(wire[r])) /\ Active(r)
    <3>1. wire[r] \in Seq(Event) /\ wire[r] # <<>>
      BY <1>0, <1>2 DEF Receive, TypeOK
    <3>2. Head(wire[r]) \in Event
      BY <3>1
    <3>3. page.run = r
      BY <2>2 DEF Active
    <3> QED
      BY <1>0, <2>2, <3>2, <3>3, ShownFacts
  <2> QED
    BY <1>2, <2>1, <2>2 DEF Receive
<1>3. ASSUME NEW r \in Runs, NEW n \in Ordinals, Rejected(r, n) PROVE ShowsThisRun'
  BY <1>0, <1>3 DEF Rejected, TypeOK
<1>4. CASE UNCHANGED client
  BY <1>4 DEF client
<1>5. ASSUME NEW r \in Runs, RunStep(r) PROVE Receive(r) \/ UNCHANGED client
  BY <1>5 DEF RunStep, Open, OpenFails, Greet, Forward, Cancel, Break
<1>6. ASSUME NEW r \in Runs, NEW n \in Ordinals, CallStep(r, n)
      PROVE  Rejected(r, n) \/ UNCHANGED client
  BY <1>6 DEF CallStep, Record, Refuse, Publish, Resolved
<1> QED
  BY <1>1, <1>2, <1>3, <1>4, <1>5, <1>6 DEF Next, Restart, vars

(* Nothing of a run that was reset or superseded reappears on the page, however  *)
(* late its events come (active() in useInterview's loop).                       *)
THEOREM OnlyThisRun == Spec => []ShowsThisRun
<1>1. Init => ShowsThisRun
  BY DEF Init, ShowsThisRun, Idle, Nothing
<1>2. StreamInv /\ ShowsThisRun /\ [Next]_vars => ShowsThisRun'
  BY ShownStep
<1> QED
  BY <1>1, <1>2, StreamStart, StreamStep, PTL DEF Spec
=============================================================================

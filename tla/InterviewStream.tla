-------------------------- MODULE InterviewStream --------------------------
(***************************************************************************)
(* How questions and the report card reach the candidate: the web client's  *)
(* useInterview hook, the StartInterview server stream and its broker, and  *)
(* SubmitAnswer, whose result travels on the stream and not in its reply.   *)
(*                                                                         *)
(* What the interviewer stores is reduced to the ordinal of the pending     *)
(* question (module Interview has the rest). The connection may break, the  *)
(* API process may restart, calls may fail or lose their reply, and the     *)
(* watchdog may fire at any time while the client waits.                    *)
(***************************************************************************)
EXTENDS Naturals, Sequences

CONSTANTS
  MaxRuns,       \* bound: how often the candidate starts an interview
  MaxQuestions,  \* Config.MaxQuestions
  Capacity       \* the broker's buffer; 4 in the code

ASSUME BoundsAssumption ==
  MaxRuns \in Nat /\ MaxQuestions \in Nat \ {0} /\ Capacity \in Nat \ {0}

VARIABLES
  page,     \* the hook's state
  started,  \* how many runs there have been
  aborted,  \* runs whose AbortController has fired
  broken,   \* runs whose connection or server is gone
  pending,  \* per run: the stored pending question; 0 once closed
  handler,  \* per run: the StartInterview handler
  buffer,   \* per run: the broker's channel
  wire,     \* per run: the response stream as the client will read it
  call      \* per run and question shown: the SubmitAnswer call about it

client == <<page, started, aborted>>
server == <<pending, handler, buffer, call>>
vars == <<client, server, broken, wire>>

Runs == 1..MaxRuns
Ordinals == 1..MaxQuestions
Nothing == 0

\* Events of the stream. "end" and "failure" are how reading it ends.
AskEvent(n) == [kind |-> "question", ordinal |-> n]
CardEvent == [kind |-> "report", ordinal |-> 0]
End == [kind |-> "end", ordinal |-> 0]
Failure == [kind |-> "failure", ordinal |-> 0]
Event == [kind: {"question", "report", "end", "failure"}, ordinal: 0..MaxQuestions]

\* initial, the hook's state before a start. A question or report shown is
\* remembered with the run it came from.
Idle == [status |-> "idle", run |-> Nothing, question |-> 0, from |-> Nothing, report |-> Nothing]

Init ==
  /\ page = Idle
  /\ started = 0
  /\ aborted = {}
  /\ broken = {}
  /\ pending = [r \in Runs |-> 0]
  /\ handler = [r \in Runs |-> "none"]
  /\ buffer = [r \in Runs |-> <<>>]
  /\ wire = [r \in Runs |-> <<>>]
  /\ call = [r \in Runs |-> [n \in Ordinals |-> "none"]]

\* active(): the run is the current one and was not aborted.
Active(r) == page.run = r /\ r \notin aborted

Hear(r, events) == wire' = [wire EXCEPT ![r] = @ \o events]
CallGoes(r, n, to) == call' = [call EXCEPT ![r][n] = to]

-----------------------------------------------------------------------------
(* The hook *)

\* start: a fresh controller, a fresh state, and the request is on its way.
Start ==
  /\ page.status = "idle"
  /\ started < MaxRuns
  /\ started' = started + 1
  /\ page' = [Idle EXCEPT !.status = "connecting", !.run = started + 1]
  /\ handler' = [handler EXCEPT ![started + 1] = "opening"]
  /\ UNCHANGED <<aborted, broken, pending, buffer, wire, call>>

\* A faulty answer: the question stays on the screen.
SubmitKeeping ==
  /\ page.status = "asking"
  /\ page.question # 0
  /\ CallGoes(page.run, page.question, "sent")
  /\ UNCHANGED <<client, broken, pending, handler, buffer, wire>>

\* answer: offered by the page while it is asking; the question disappears.
Submit ==
  /\ page.status = "asking"
  /\ page.question # 0
  /\ CallGoes(page.run, page.question, "sent")
  /\ page' = [page EXCEPT !.status = "submitting", !.question = 0]
  /\ UNCHANGED <<started, aborted, broken, pending, handler, buffer, wire>>

\* The state after an event of run r.
Shown(r, e) ==
  CASE e.kind = "question" ->
         [page EXCEPT !.status = "asking", !.question = e.ordinal, !.from = r]
    [] e.kind = "report" ->
         [page EXCEPT !.status = "done", !.question = 0, !.from = r, !.report = r]
    [] e.kind = "end" ->
         IF page.report # Nothing THEN page ELSE [page EXCEPT !.status = "error"]
    [] e.kind = "failure" -> [page EXCEPT !.status = "error"]

\* A faulty loop: it does not ask whether its run is still the active one.
ReceiveStale(r) ==
  /\ wire[r] # <<>>
  /\ page' = Shown(r, Head(wire[r]))
  /\ wire' = [wire EXCEPT ![r] = Tail(@)]
  /\ UNCHANGED <<started, aborted, broken, server>>

\* The for-await loop takes the next event; a run that is no longer active
\* stops reading.
Receive(r) ==
  /\ wire[r] # <<>>
  /\ IF Active(r)
     THEN page' = Shown(r, Head(wire[r])) /\ wire' = [wire EXCEPT ![r] = Tail(@)]
     ELSE UNCHANGED page /\ wire' = [wire EXCEPT ![r] = <<>>]
  /\ UNCHANGED <<started, aborted, broken, server>>

\* submitAnswer is rejected (it failed, or its reply was lost): unless the run is
\* over, the stream is given up and the failure shown.
Rejected(r, n) ==
  /\ call[r][n] \in {"accepted", "failed"}
  /\ CallGoes(r, n, "over")
  /\ IF Active(r)
     THEN /\ aborted' = aborted \cup {r}
          /\ page' = IF page.report # Nothing THEN page ELSE [page EXCEPT !.status = "error"]
     ELSE UNCHANGED <<page, aborted>>
  /\ UNCHANGED <<started, broken, pending, handler, buffer, wire>>

\* The reply arrives; nothing is done with it.
Resolved(r, n) ==
  /\ call[r][n] = "accepted"
  /\ CallGoes(r, n, "over")
  /\ UNCHANGED <<client, broken, pending, handler, buffer, wire>>

\* The watchdog: STALL_MS in connecting or submitting. The stream stays open.
Stall ==
  /\ page.status \in {"connecting", "submitting"}
  /\ page' = [page EXCEPT !.status = "error"]
  /\ UNCHANGED <<started, aborted, server, broken, wire>>

\* reset, or the page is left.
Reset ==
  /\ page.run # Nothing
  /\ aborted' = aborted \cup {page.run}
  /\ page' = Idle
  /\ UNCHANGED <<started, server, broken, wire>>

-----------------------------------------------------------------------------
(* The API *)

\* StartInterview up to subscribe: the interview is stored with its first
\* question. Its id is known to nobody yet.
Open(r) ==
  /\ handler[r] = "opening"
  /\ pending' = [pending EXCEPT ![r] = 1]
  /\ handler' = [handler EXCEPT ![r] = "greeting"]
  /\ UNCHANGED <<client, broken, buffer, wire, call>>

\* Interviewer.Start fails.
OpenFails(r) ==
  /\ handler[r] = "opening"
  /\ handler' = [handler EXCEPT ![r] = "gone"]
  /\ Hear(r, <<Failure>>)
  /\ UNCHANGED <<client, broken, pending, buffer, call>>

Reachable(r) == r \notin aborted \cup broken

\* The first question is sent, outside the broker.
Greet(r) ==
  /\ handler[r] = "greeting"
  /\ Reachable(r)
  /\ handler' = [handler EXCEPT ![r] = "listening"]
  /\ Hear(r, <<AskEvent(1)>>)
  /\ UNCHANGED <<client, broken, pending, buffer, call>>

\* The handler forwards what the broker holds; after a report it returns.
Forward(r) ==
  LET e == Head(buffer[r]) IN
  /\ handler[r] = "listening"
  /\ Reachable(r)
  /\ buffer[r] # <<>>
  /\ IF e = CardEvent
     THEN /\ handler' = [handler EXCEPT ![r] = "gone"]
          /\ buffer' = [buffer EXCEPT ![r] = <<>>]
          /\ Hear(r, <<e, End>>)
     ELSE /\ buffer' = [buffer EXCEPT ![r] = Tail(@)]
          /\ Hear(r, <<e>>)
          /\ UNCHANGED handler
  /\ UNCHANGED <<client, broken, pending, call>>

\* A faulty handler: it gives up without telling its client.
CancelAnytime(r) ==
  /\ handler[r] \in {"greeting", "listening"}
  /\ handler' = [handler EXCEPT ![r] = "gone"]
  /\ buffer' = [buffer EXCEPT ![r] = <<>>]
  /\ UNCHANGED <<client, broken, pending, wire, call>>

\* The handler's context is done, or a send fails: it unsubscribes.
Cancel(r) ==
  /\ handler[r] \in {"greeting", "listening"}
  /\ ~Reachable(r)
  /\ handler' = [handler EXCEPT ![r] = "gone"]
  /\ buffer' = [buffer EXCEPT ![r] = <<>>]
  /\ UNCHANGED <<client, broken, pending, wire, call>>

\* A faulty limit: one question more than MaxQuestions.
RecordLate(r, n) ==
  /\ call[r][n] = "sent"
  /\ pending[r] # 0
  /\ pending' = [pending EXCEPT ![r] = IF @ > MaxQuestions THEN 0 ELSE @ + 1]
  /\ CallGoes(r, n, "recorded")
  /\ UNCHANGED <<client, broken, handler, buffer, wire>>

\* Interviewer.Answer, to whatever question is pending: the next one, or the
\* close, by count or by time.
Record(r, n) ==
  /\ call[r][n] = "sent"
  /\ pending[r] # 0
  /\ \/ /\ pending[r] < MaxQuestions
        /\ pending' = [pending EXCEPT ![r] = @ + 1]
     \/ pending' = [pending EXCEPT ![r] = 0]
  /\ CallGoes(r, n, "recorded")
  /\ UNCHANGED <<client, broken, handler, buffer, wire>>

\* SubmitAnswer fails before anything is stored.
Refuse(r, n) ==
  /\ call[r][n] = "sent"
  /\ CallGoes(r, n, "failed")
  /\ UNCHANGED <<client, broken, pending, handler, buffer, wire>>

\* publish: to the subscriber, if there is one and its buffer has room;
\* accepted either way.
Publish(r, n) ==
  LET e == IF pending[r] = 0 THEN CardEvent ELSE AskEvent(pending[r]) IN
  /\ call[r][n] = "recorded"
  /\ CallGoes(r, n, "accepted")
  /\ buffer' = IF handler[r] \in {"greeting", "listening"} /\ Len(buffer[r]) < Capacity
               THEN [buffer EXCEPT ![r] = Append(@, e)] ELSE buffer
  /\ UNCHANGED <<client, broken, pending, handler, wire>>

-----------------------------------------------------------------------------
(* Failures *)

\* The connection breaks; what was under way may be lost.
Break(r) ==
  /\ handler[r] # "none"
  /\ r \notin broken
  /\ broken' = broken \cup {r}
  /\ \E n \in 0..Len(wire[r]) : wire' = [wire EXCEPT ![r] = SubSeq(@, 1, n) \o <<Failure>>]
  /\ UNCHANGED <<client, server>>

\* The API process restarts: handlers, broker and calls are gone.
Restart ==
  LET lost == {r \in Runs : handler[r] \in {"opening", "greeting", "listening"}} IN
  /\ broken' = broken \cup lost
  /\ handler' = [r \in Runs |-> IF r \in lost THEN "gone" ELSE handler[r]]
  /\ buffer' = [r \in Runs |-> <<>>]
  /\ wire' = [r \in Runs |-> IF r \in lost \ broken THEN wire[r] \o <<Failure>> ELSE wire[r]]
  /\ call' = [r \in Runs |-> [n \in Ordinals |->
                IF call[r][n] \in {"sent", "recorded", "accepted"} THEN "failed" ELSE call[r][n]]]
  /\ UNCHANGED <<client, pending>>

-----------------------------------------------------------------------------
HookStep == Start \/ Submit \/ Stall \/ Reset

RunStep(r) ==
  \/ Receive(r)
  \/ Open(r) \/ OpenFails(r) \/ Greet(r) \/ Forward(r) \/ Cancel(r)
  \/ Break(r)

CallStep(r, n) ==
  Record(r, n) \/ Refuse(r, n) \/ Publish(r, n) \/ Resolved(r, n) \/ Rejected(r, n)

Next ==
  \/ HookStep
  \/ \E r \in Runs : RunStep(r) \/ \E n \in Ordinals : CallStep(r, n)
  \/ Restart

Spec == Init /\ [][Next]_vars

\* Goroutines and the client's event loop go on; nobody is obliged to answer.
FairSpec ==
  /\ Spec
  /\ \A r \in Runs : WF_vars(Receive(r)) /\ WF_vars(Forward(r))
  /\ \A r \in Runs, n \in Ordinals : WF_vars(Publish(r, n))

-----------------------------------------------------------------------------
(* Properties *)

\* Every variable has the shape of what it stands for.
TypeOK ==
  /\ page \in [status: {"idle", "connecting", "asking", "submitting", "done", "error"},
               run: 0..MaxRuns, question: 0..MaxQuestions, from: 0..MaxRuns, report: 0..MaxRuns]
  /\ started \in 0..MaxRuns
  /\ aborted \subseteq Runs /\ broken \subseteq Runs
  /\ pending \in [Runs -> 0..MaxQuestions]
  /\ handler \in [Runs -> {"none", "opening", "greeting", "listening", "gone"}]
  /\ buffer \in [Runs -> Seq(Event)]
  /\ wire \in [Runs -> Seq(Event)]
  /\ call \in [Runs -> [Ordinals ->
       {"none", "sent", "recorded", "accepted", "failed", "over"}]]

\* The question on the screen is the one an answer would be recorded against:
\* it is pending, and no earlier answer is still on its way to the store. This
\* is what Interview assumes of the client (Sequential), and it holds although
\* a late question may reappear after the watchdog, or a reply be lost.
AsksThePending ==
  page.status = "asking" =>
    \E r \in Runs :
      /\ page.run = r /\ page.question = pending[r]
      /\ \A n \in Ordinals : call[r][n] \notin {"sent", "recorded"}

\* A subscriber's buffer has room for every event published to it, so publish
\* drops nothing that a connected client waits for; a single slot is enough.
NothingIsDropped ==
  \A r \in Runs, n \in Ordinals :
    call[r][n] = "recorded" /\ handler[r] \in {"greeting", "listening"} =>
      Len(buffer[r]) < Capacity

\* What the page shows belongs to its current run: nothing of a run that was
\* reset or superseded reappears, however late its events come.
ShowsThisRun ==
  /\ page.status \in {"asking", "done"} => page.from = page.run
  /\ page.report # Nothing => page.report = page.run

\* A recorded answer leads to its question or card on the screen, unless the
\* run was given up or its connection broke: the reply does not say which.
AnswerIsFollowedUp ==
  \A r \in Runs, n \in Ordinals :
    call[r][n] = "recorded" ~>
      \/ ~Reachable(r)
      \/ page.run = r /\ (page.question > n \/ page.report = r)
=============================================================================

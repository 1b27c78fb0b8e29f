----------------------------- MODULE LogShipper -----------------------------
(***************************************************************************)
(* The batching writer of platform/logging/loki.  Lines are numbered; the  *)
(* mutex makes each action below one step.  A timer is armed, then fires,  *)
(* and its callback waits for the mutex: Stop does not reach a callback    *)
(* that already waits, so that callbacks of several timers can overlap.    *)
(***************************************************************************)
EXTENDS Naturals, FiniteSets

CONSTANTS BatchSize,   \* lines that make a batch full
          MaxLines,    \* bound: lines written
          Timers       \* bound: timers alive at a time

NoTimer == "none"

ASSUME LogShipperAssumption ==
    {BatchSize, MaxLines} \subseteq Nat \ {0} /\ NoTimer \notin Timers

VARIABLES
    buffer,    \* Writer.entries
    timer,     \* Writer.timer
    clockwork, \* [Timers -> state of the timer]
    inHand,    \* batches taken from the buffer, with no goroutine yet
    batches,   \* batches of the goroutines that push them
    pushed,    \* history: lines whose push was tried
    lines,     \* history: lines written
    closing    \* how far Close is

shipVars == <<buffer, timer, clockwork, inHand, batches, pushed, lines, closing>>

Lines == 1..MaxLines

LogShipperTypeOK ==
    /\ buffer \subseteq Lines
    /\ timer \in Timers \cup {NoTimer}
    /\ clockwork \in [Timers -> {"off", "armed", "fired"}]
    /\ inHand \in SUBSET (SUBSET Lines) /\ batches \in SUBSET (SUBSET Lines)
    /\ pushed \subseteq Lines
    /\ lines \in 0..MaxLines
    /\ closing \in {"open", "waiting", "closed"}

LogShipperInit ==
    /\ buffer = {} /\ inHand = {} /\ batches = {} /\ pushed = {} /\ lines = 0
    /\ timer = NoTimer
    /\ clockwork = [t \in Timers |-> "off"]
    /\ closing = "open"

-----------------------------------------------------------------------------
\* A faulty StopTimer: the writer goes on believing that it has a timer.
StopTimerOnly ==
    /\ clockwork' = IF timer # NoTimer /\ clockwork[timer] = "armed"
                    THEN [clockwork EXCEPT ![timer] = "off"] ELSE clockwork
    /\ UNCHANGED timer

\* Stop has no effect on a timer that has fired.
StopTimer ==
    /\ clockwork' = IF timer # NoTimer /\ clockwork[timer] = "armed"
                    THEN [clockwork EXCEPT ![timer] = "off"] ELSE clockwork
    /\ timer' = NoTimer

Arm(t) ==
    /\ clockwork[t] = "off"
    /\ clockwork' = [clockwork EXCEPT ![t] = "armed"]
    /\ timer' = t

\* A faulty Take: a batch that still waits for its goroutine is replaced.
TakeLast(batch) == inHand' = IF batch = {} THEN inHand ELSE {batch}

\* The lock is released before the batch is given to a goroutine.
Take(batch) == inHand' = IF batch = {} THEN inHand ELSE inHand \cup {batch}

Write ==
    /\ lines < MaxLines
    /\ lines' = lines + 1
    /\ LET entries == buffer \cup {lines + 1} IN
       IF Cardinality(entries) >= BatchSize
       THEN buffer' = {} /\ StopTimer /\ Take(entries)
       ELSE /\ buffer' = entries
            /\ IF timer = NoTimer THEN \E t \in Timers : Arm(t)
                                  ELSE UNCHANGED <<timer, clockwork>>
            /\ UNCHANGED inHand
    /\ UNCHANGED <<batches, pushed, closing>>

Fire(t) ==
    /\ clockwork[t] = "armed"
    /\ clockwork' = [clockwork EXCEPT ![t] = "fired"]
    /\ UNCHANGED <<buffer, timer, inHand, batches, pushed, lines, closing>>

\* The callback takes whatever is buffered, and forgets whichever timer is current.
Flush(t) ==
    /\ clockwork[t] = "fired"
    /\ clockwork' = [clockwork EXCEPT ![t] = "off"]
    /\ timer' = NoTimer
    /\ buffer' = {} /\ Take(buffer)
    /\ UNCHANGED <<batches, pushed, lines, closing>>

Ship(batch) ==
    /\ batch \in inHand
    /\ inHand' = inHand \ {batch}
    /\ batches' = batches \cup {batch}
    /\ UNCHANGED <<buffer, timer, clockwork, pushed, lines, closing>>

\* A push succeeds or is reported on stderr; it is not tried again.
Push(batch) ==
    /\ batch \in batches
    /\ batches' = batches \ {batch}
    /\ pushed' = pushed \cup batch
    /\ UNCHANGED <<buffer, timer, clockwork, inHand, lines, closing>>

\* Close takes the rest and sends it itself,
CloseTakes ==
    /\ closing = "open"
    /\ StopTimer
    /\ buffer' = {} /\ pushed' = pushed \cup buffer
    /\ closing' = "waiting"
    /\ UNCHANGED <<inHand, batches, lines>>

\* and waits for the goroutines - those that have been started.
CloseReturns ==
    /\ closing = "waiting" /\ batches = {}
    /\ closing' = "closed"
    /\ UNCHANGED <<buffer, timer, clockwork, inHand, batches, pushed, lines>>

LogShipperNext ==
    \/ Write \/ CloseTakes \/ CloseReturns
    \/ \E t \in Timers : Fire(t) \/ Flush(t)
    \/ \E batch \in inHand : Ship(batch)
    \/ \E batch \in batches : Push(batch)

LogShipperSpec == LogShipperInit /\ [][LogShipperNext]_shipVars

-----------------------------------------------------------------------------
(* No line is left in the buffer with nobody to come for it: while lines are   *)
(* buffered, the writer's timer is armed or its callback is on its way -       *)
(* whatever stale callbacks, full batches and Close do in between (Write arms  *)
(* a timer only if it thinks there is none).                                   *)
BufferedIsScheduled ==
    buffer # {} => timer # NoTimer /\ clockwork[timer] \in {"armed", "fired"}

(* Every line is in exactly one place: buffered, in one batch, or pushed.      *)
EachLineOnce ==
    LET held == inHand \cup batches IN
    /\ buffer \cup (UNION held) \cup pushed = 1..lines
    /\ buffer \cap (pushed \cup UNION held) = {} /\ pushed \cap (UNION held) = {}
    /\ inHand \cap batches = {} /\ \A a, b \in held : a = b \/ a \cap b = {}

=============================================================================

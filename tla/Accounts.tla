------------------------------ MODULE Accounts ------------------------------
(***************************************************************************)
(* Registration and password login of one email address, with the lockout  *)
(* of adapters/outbound/memory/throttle.go.  Attempts are requests; each   *)
(* of their steps is one call of a repository or of the throttle, and      *)
(* between two steps other requests run: hashing a password takes long     *)
(* enough for many.  What a successful attempt is given is the subject of  *)
(* Sessions.                                                               *)
(***************************************************************************)
EXTENDS Integers, FiniteSets

CONSTANTS Attempts,    \* requests that can be under way at a time
          MaxFailures, Window, Lockout,   \* the throttle's policy, in ticks
          MaxTime      \* bound: ticks of the clock

ASSUME AccountsAssumption ==
    /\ MaxFailures \in Nat \ {0}
    /\ {Window, Lockout} \subseteq Nat \ {0}
    /\ MaxTime \in Nat

VARIABLES
    user,       \* the users row of the email, with the row of its context
    registered, \* history: attempts that registered the address with success
    entry,      \* the throttle's state for the email; count = 0 if there is none
    clock,
    attempt     \* [Attempts -> record]

accountVars == <<user, registered, entry, clock, attempt>>

-----------------------------------------------------------------------------
\* An employer's context is the employers row, a candidate's the candidates row.
User  == [role : {"none", "employer", "candidate"}, context : BOOLEAN]
Entry == [count : Nat, start : Nat, until : Nat]

Attempt == [kind : {"none", "register", "login"},
            role : {"none", "employer", "candidate"},
            pc   : {"idle", "begun", "checked", "right", "wrong", "created", "done"}]

NoUser    == [role |-> "none", context |-> FALSE]
NoEntry   == [count |-> 0, start |-> 0, until |-> 0]
NoAttempt == [kind |-> "none", role |-> "none", pc |-> "idle"]

AccountsTypeOK ==
    /\ user \in User
    /\ registered \in Nat
    /\ entry \in Entry
    /\ clock \in 0..MaxTime
    /\ attempt \in [Attempts -> Attempt]

AccountsInit ==
    /\ user = NoUser
    /\ registered = 0
    /\ entry = NoEntry
    /\ clock = 0
    /\ attempt = [a \in Attempts |-> NoAttempt]

Goto(a, pc) == attempt' = [attempt EXCEPT ![a].pc = pc]
Leave(a)    == attempt' = [attempt EXCEPT ![a] = NoAttempt]
Is(a, kind, pc) == attempt[a].kind = kind /\ attempt[a].pc = pc

-----------------------------------------------------------------------------
(* Register *)

Register(a, role) ==
    /\ attempt[a] = NoAttempt
    /\ attempt' = [attempt EXCEPT ![a] = [kind |-> "register", role |-> role, pc |-> "begun"]]
    /\ UNCHANGED <<user, registered, entry, clock>>

\* A faulty WrittenTogether: the two inserts are two transactions.
WrittenApart(role) == FALSE

\* The row of the context is written in the transaction of the users row.
WrittenTogether(role) == role = "employer"

\* UserRepo.Create: the email is unique.  An employer's two rows are written in one
\* transaction, any other user is one row.
CreateUser(a) ==
    /\ Is(a, "register", "begun")
    /\ IF user = NoUser
       THEN /\ user' = [role |-> attempt[a].role, context |-> WrittenTogether(attempt[a].role)]
            /\ Goto(a, "created")
       ELSE Leave(a) /\ UNCHANGED user
    /\ UNCHANGED <<registered, entry, clock>>

\* Provision creates the row of a candidate; it is a no-op for other roles.
Provision(a) ==
    /\ Is(a, "register", "created")
    /\ user' = [user EXCEPT !.context = TRUE]
    /\ registered' = registered + 1
    /\ Leave(a)
    /\ UNCHANGED <<entry, clock>>

-----------------------------------------------------------------------------
(* Login *)

Login(a) ==
    /\ attempt[a] = NoAttempt
    /\ attempt' = [attempt EXCEPT ![a] = [NoAttempt EXCEPT !.kind = "login", !.pc = "begun"]]
    /\ UNCHANGED <<user, registered, entry, clock>>

\* A faulty Locked: the time of the lockout is not looked at.
NotLocked == FALSE

Locked == entry.count > 0 /\ clock < entry.until

\* throttleCheck
Check(a) ==
    /\ Is(a, "login", "begun")
    /\ IF Locked THEN Leave(a) ELSE Goto(a, "checked")
    /\ UNCHANGED <<user, registered, entry, clock>>

\* verifyCredentials: without a user the password is hashed all the same.
Verify(a) ==
    /\ Is(a, "login", "checked")
    /\ \/ user # NoUser /\ Goto(a, "right")
       \/ Goto(a, "wrong")
    /\ UNCHANGED <<user, registered, entry, clock>>

\* throttleFail
CountFailure(a) ==
    /\ Is(a, "login", "wrong")
    /\ LET fresh == entry.count = 0 \/ clock - entry.start > Window
           old   == IF fresh THEN [NoEntry EXCEPT !.start = clock] ELSE entry
       IN entry' = [old EXCEPT !.count = @ + 1,
                               !.until = IF old.count + 1 >= MaxFailures THEN clock + Lockout ELSE @]
    /\ Leave(a)
    /\ UNCHANGED <<user, registered, clock>>

\* throttleReset, and the session is issued.
ResetCount(a) ==
    /\ Is(a, "login", "right")
    /\ entry' = NoEntry
    /\ Leave(a)
    /\ UNCHANGED <<user, registered, clock>>

-----------------------------------------------------------------------------
\* A repository fails, or the process stops: nothing done so far is undone.
GiveUp(a) ==
    /\ attempt[a].pc \in {"begun", "checked", "created"}
    /\ Leave(a)
    /\ UNCHANGED <<user, registered, entry, clock>>

Tick ==
    /\ clock < MaxTime
    /\ clock' = clock + 1
    /\ UNCHANGED <<user, registered, entry, attempt>>

AttemptStep(a) ==
    \/ \E role \in {"employer", "candidate"} : Register(a, role)
    \/ CreateUser(a) \/ Provision(a)
    \/ Login(a) \/ Check(a) \/ Verify(a) \/ CountFailure(a) \/ ResetCount(a)
    \/ GiveUp(a)

AccountsNext == Tick \/ \E a \in Attempts : AttemptStep(a)

AccountsSpec == AccountsInit /\ [][AccountsNext]_accountVars

-----------------------------------------------------------------------------
(* Guessing in parallel gains the guesser little: requests that passed the     *)
(* check together may all fail after the lock is set, so one window counts     *)
(* more than MaxFailures failures, but at most by the number of requests that  *)
(* can be under way - once, and once more at the very end of the window        *)
(* (Login checks the lock, hashes, and counts the failure afterwards).         *)
(* A lockout that is shorter than the window would end before the count does:  *)
(* the bound is that of a policy whose Lockout is no shorter than Window.      *)
GuessesBounded == entry.count < MaxFailures + 2 * Cardinality(Attempts)

(* One registration of an address succeeds, and an employer's account never    *)
(* lacks its employers row, whatever fails ("a failure of the second cannot    *)
(* leave an orphaned user", postgres/user.go).  A candidate's may: its two     *)
(* rows are written by two repositories.                                       *)
RegisteredOnceAndWhole ==
    /\ registered <= 1
    /\ registered = 1 \/ user.role = "employer" => user.context

=============================================================================

------------------------------ MODULE Sessions ------------------------------
(***************************************************************************)
(* Login sessions: the single-use refresh grants of app/identity, and the  *)
(* browser tabs that hold their tokens (web/src/api/client.ts, the stores  *)
(* and the login, refresh and logout mutations).                           *)
(*                                                                         *)
(* A grant is a row of refresh_tokens, named by its jti.  Grants descend   *)
(* from one another by rotation; "login" names the first of the line, so   *)
(* the grants of one line are one login.  Tabs of one browser share the    *)
(* localStorage entry, but each has a copy of its own in memory, read when *)
(* the page loads.                                                         *)
(*                                                                         *)
(* A call runs on the server in the steps between which others can run,    *)
(* and goes on when its tab no longer waits for it (from = NoTab).         *)
(* Passwords, and how logins are throttled, are the subject of Accounts.   *)
(***************************************************************************)
EXTENDS Naturals

CONSTANTS Tabs,        \* the pages open in one browser
          NoTab,       \* whoever waits for a call nobody waits for
          Calls,       \* requests that can be under way at a time
          MaxGrants    \* bound: grants issued in a behaviour

ASSUME SessionsAssumption == MaxGrants \in Nat /\ NoTab \notin Tabs

VARIABLES
    grant,     \* [1..MaxGrants -> row], the table refresh_tokens
    storage,   \* the refresh token in localStorage, 0 if none
    page,      \* [Tabs -> [token, asked]], the store of each page
    call       \* [Calls -> record], requests under way

sessionVars == <<grant, storage, page, call>>

-----------------------------------------------------------------------------
Grants == 1..MaxGrants
Token  == 0..MaxGrants

\* "dead" is a row that is revoked, or past its expires_at.
Row == [status : {"unused", "live", "dead"}, login : Token]

\* "asked" is history: how often the page presented this token for rotation.
Page == [token : Token, asked : Nat]

Call == [kind  : {"none", "login", "refresh", "logout"},
         from  : Tabs \cup {NoTab},
         token : Token,       \* the token presented, then the one issued
         login : Token,       \* the login of a consumed grant
         pc    : {"idle", "sent", "consumed", "admitted", "ok", "failed"}]

NoCall == [kind |-> "none", from |-> NoTab, token |-> 0, login |-> 0, pc |-> "idle"]

SessionTypeOK ==
    /\ grant \in [Grants -> Row]
    /\ storage \in Token
    /\ page \in [Tabs -> Page]
    /\ call \in [Calls -> Call]

SessionInit ==
    /\ grant = [g \in Grants |-> [status |-> "unused", login |-> 0]]
    /\ storage = 0
    /\ page = [t \in Tabs |-> [token |-> 0, asked |-> 0]]
    /\ call = [r \in Calls |-> NoCall]

-----------------------------------------------------------------------------
(* The pages. *)

Waiting(t, kind) == \E r \in Calls : call[r].from = t /\ call[r].kind = kind

Send(r, t, kind, token) ==
    /\ call[r].kind = "none"
    /\ call' = [call EXCEPT ![r] = [NoCall EXCEPT !.kind = kind, !.from = t,
                                                  !.token = token, !.pc = "sent"]]

\* Both the store of the page and, through "persist", localStorage.
SetToken(t, token) ==
    /\ page' = [page EXCEPT ![t] = [token |-> token, asked |-> 0]]
    /\ storage' = token

LogIn(t, r) ==
    /\ page[t].token = 0
    /\ ~Waiting(t, "login")
    /\ Send(r, t, "login", 0)
    /\ UNCHANGED <<grant, storage, page>>

\* A faulty RefreshInFlight: callers do not share the promise.
NeverInFlight(t) == FALSE

\* Concurrent callers share the refresh that is in flight.
RefreshInFlight(t) == Waiting(t, "refresh")

TryRefresh(t, r) ==
    /\ page[t].token # 0
    /\ ~RefreshInFlight(t)
    /\ Send(r, t, "refresh", page[t].token)
    /\ page' = [page EXCEPT ![t].asked = @ + 1]
    /\ UNCHANGED <<grant, storage>>

LogOut(t, r) ==
    /\ page[t].token # 0
    /\ ~Waiting(t, "logout")
    /\ Send(r, t, "logout", page[t].token)
    /\ UNCHANGED <<grant, storage, page>>

\* What the page does with the answer: a session is stored, a refused or failed
\* rotation and any answer to a logout clear the store, a refused login changes
\* nothing.
Resolve(t, r) ==
    IF call[r].kind # "logout" /\ call[r].pc = "ok" THEN SetToken(t, call[r].token)
    ELSE IF call[r].kind = "login" THEN UNCHANGED <<page, storage>>
    ELSE SetToken(t, 0)

Reply(r) ==
    /\ call[r].pc \in {"ok", "failed"}
    /\ IF call[r].from = NoTab THEN UNCHANGED <<page, storage>>
                               ELSE Resolve(call[r].from, r)
    /\ call' = [call EXCEPT ![r] = NoCall]
    /\ UNCHANGED grant

\* The connection breaks: the page sees an exception, the server may go on.
Disconnect(r) ==
    /\ call[r].from # NoTab
    /\ IF call[r].kind = "login" THEN UNCHANGED <<page, storage>>
                                 ELSE SetToken(call[r].from, 0)
    /\ call' = [call EXCEPT ![r].from = NoTab]
    /\ UNCHANGED grant

\* A reload forgets what the page waited for and reads localStorage.
Reload(t) ==
    /\ page' = [page EXCEPT ![t] = [token |-> storage, asked |-> 0]]
    /\ call' = [r \in Calls |-> IF call[r].from = t THEN [call[r] EXCEPT !.from = NoTab]
                                                    ELSE call[r]]
    /\ UNCHANGED <<grant, storage>>

-----------------------------------------------------------------------------
(* The server. *)

\* A faulty Usable: the statement forgets to ask whether the row is revoked.
UsableWhenRevoked(g) == grant[g].status # "unused"

\* The row of a grant that may be rotated or revoked: NOT revoked, not expired.
Usable(g) == grant[g].status = "live"

\* A faulty Spent: the grant is looked up, but not revoked.
SpentLater(g) == grant

Spent(g) == [grant EXCEPT ![g].status = "dead"]

At(r, kind, pc) == call[r].kind = kind /\ call[r].pc = pc

\* The handler returns: a session with this token, an error, or just success.
Return(r, pc, token) ==
    call' = [call EXCEPT ![r] = [@ EXCEPT !.pc = pc, !.token = token, !.login = 0]]

\* One atomic statement: UPDATE ... WHERE NOT revoked AND not expired RETURNING.
Consume(r) ==
    /\ At(r, "refresh", "sent")
    /\ IF Usable(call[r].token)
       THEN /\ grant' = Spent(call[r].token)
            /\ call' = [call EXCEPT ![r].pc = "consumed",
                                    ![r].login = grant[call[r].token].login]
       ELSE /\ Return(r, "failed", 0)
            /\ UNCHANGED grant
    /\ UNCHANGED <<storage, page>>

\* The account is there and active (after a rotation), the credentials are right
\* (at a login).
Admit(r) ==
    /\ At(r, "login", "sent") \/ At(r, "refresh", "consumed")
    /\ call' = [call EXCEPT ![r].pc = "admitted"]
    /\ UNCHANGED <<grant, storage, page>>

\* Save of a new grant; it continues the login of the consumed one.
Issue(r, g) ==
    /\ call[r].pc = "admitted"
    /\ grant[g].status = "unused" /\ \A h \in 1..(g - 1) : grant[h].status # "unused"
    /\ LET login == IF call[r].kind = "login" THEN g ELSE call[r].login IN
       grant' = [grant EXCEPT ![g] = [status |-> "live", login |-> login]]
    /\ Return(r, "ok", g)
    /\ UNCHANGED <<storage, page>>

\* Logout: the grant presented is revoked, whatever its state.
Revoke(r) ==
    /\ At(r, "logout", "sent")
    /\ grant' = IF Usable(call[r].token) THEN Spent(call[r].token) ELSE grant
    /\ Return(r, "ok", 0)
    /\ UNCHANGED <<storage, page>>

\* A refusal, or a failing statement: nothing done so far is undone.
Refuse(r) ==
    /\ call[r].pc \in {"sent", "consumed", "admitted"}
    /\ Return(r, "failed", 0)
    /\ UNCHANGED <<grant, storage, page>>

\* A request that nobody waits for is lost on its way, or with its server.
Vanish(r) ==
    /\ call[r].pc \in {"sent", "consumed", "admitted"} /\ call[r].from = NoTab
    /\ call' = [call EXCEPT ![r] = NoCall]
    /\ UNCHANGED <<grant, storage, page>>

\* The clock passes expires_at.
Expire(g) ==
    /\ grant[g].status = "live"
    /\ grant' = [grant EXCEPT ![g].status = "dead"]
    /\ UNCHANGED <<storage, page, call>>

-----------------------------------------------------------------------------
PageStep(t) ==
    \/ Reload(t)
    \/ \E r \in Calls : LogIn(t, r) \/ TryRefresh(t, r) \/ LogOut(t, r)

ServerStep(r) ==
    \/ Consume(r) \/ Admit(r) \/ Revoke(r) \/ Refuse(r) \/ Vanish(r)
    \/ \E g \in Grants : Issue(r, g)

SessionNext ==
    \/ \E t \in Tabs : PageStep(t)
    \/ \E r \in Calls : ServerStep(r) \/ Reply(r) \/ Disconnect(r)
    \/ \E g \in Grants : Expire(g)

SessionSpec == SessionInit /\ [][SessionNext]_sessionVars

-----------------------------------------------------------------------------
Live(g) == grant[g].status = "live"

(* What carries a login on: a live grant, or a rotation between Consume and Save. *)
LiveGrants(l) == {g \in Grants : Live(g) /\ grant[g].login = l}
Rotations(l)  == {r \in Calls : call[r].kind = "refresh" /\ call[r].login = l
                                /\ call[r].pc \in {"consumed", "admitted"}}

(* Rotation never forks a login: whatever tabs present which tokens how often, *)
(* at any time there is at most one live grant or one rotation on the way to   *)
(* the next grant, and not both (single use of Consume).                       *)
NoFork ==
    \A l \in Grants :
       /\ \A g, h \in LiveGrants(l) : g = h
       /\ \A r, s \in Rotations(l) : r = s
       /\ LiveGrants(l) = {} \/ Rotations(l) = {}

(* A login that has ended - by a logout of its live grant, by expiry, or by a *)
(* rotation that failed between Consume and Save - is never continued.        *)
Ended(l) == /\ grant[l].login = l
            /\ LiveGrants(l) = {} /\ Rotations(l) = {}
EndedStaysEnded == [][\A l \in Grants : Ended(l) => Ended(l)']_sessionVars

(* A page presents a token once: "Concurrent callers share a single in-flight *)
(* refresh so the single-use refresh token is not consumed twice" (client.ts), *)
(* and the end of that refresh, whatever it is, replaces the token - also when *)
(* a login or a logout of the same page is answered in the middle of it.       *)
PresentsOnce == \A t \in Tabs : page[t].asked <= 1

=============================================================================

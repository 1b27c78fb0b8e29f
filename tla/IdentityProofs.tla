--------------------------- MODULE IdentityProofs ---------------------------
(***************************************************************************)
(* Proofs about Sessions and Accounts for any number of tabs, calls,       *)
(* grants and attempts, and any throttle policy.                           *)
(***************************************************************************)
EXTENDS Sessions, Accounts, FiniteSetTheorems, TLAPS

\* What calls know: a token is presented, and only logins and rotations get to
\* the point at which a grant is issued.
CallsAreSound ==
    \A r \in Calls :
       /\ call[r].pc = "sent" /\ call[r].kind \in {"refresh", "logout"} => call[r].token # 0
       /\ call[r].pc \in {"consumed", "admitted"} => call[r].kind \in {"login", "refresh"}

\* A login is named by a grant that was issued: the name of a new one is fresh.
LoginsAreIssued ==
    /\ \A g \in Grants : grant[g].status = "unused" => grant[g].login = 0
    /\ \A g \in Grants : grant[g].login # 0 => grant[grant[g].login].status # "unused"
    /\ \A r \in Calls  : call[r].login # 0 => grant[call[r].login].status # "unused"

\* The inductive invariant: NoFork is kept by Issue because a login's new grant
\* replaces the rotation it comes from, and a new login has neither.
SessionInv == SessionTypeOK /\ CallsAreSound /\ LoginsAreIssued /\ NoFork

\* A page that has presented its token waits for the answer, which replaces it.
PagesWait ==
    \A t \in Tabs : /\ page[t].asked <= 1
                    /\ page[t].asked = 1 => RefreshInFlight(t)

\* Of all the attempts at registering the address one creates the user, and it
\* alone can complete the registration.
OneRegisters ==
    /\ user = NoUser => registered = 0
    /\ \A a \in Attempts : attempt[a].kind = "register" => attempt[a].role # "none"
    /\ \A a \in Attempts : Is(a, "register", "created") => registered = 0 /\ user # NoUser
    /\ \A a, b \in Attempts :
          Is(a, "register", "created") /\ Is(b, "register", "created") => a = b

-----------------------------------------------------------------------------
LEMMA TokenFacts == 0 \in Token /\ Grants \subseteq Token
BY SessionsAssumption DEF Token, Grants

\* A request that is sent, and the answer of a handler, are calls.
LEMMA SendType ==
  ASSUME SessionTypeOK, NEW r \in Calls, NEW t \in Tabs, NEW token \in Token,
         NEW kind \in {"login", "refresh", "logout"}, Send(r, t, kind, token)
  PROVE  call' \in [Calls -> Call]
BY TokenFacts DEF SessionTypeOK, Send, Call, NoCall

LEMMA ReturnType ==
  ASSUME SessionTypeOK, NEW r \in Calls, NEW token \in Token,
         NEW pc \in {"ok", "failed"}, Return(r, pc, token)
  PROVE  call' \in [Calls -> Call]
<1>1. call[r] \in Call
  BY DEF SessionTypeOK
<1>2. [call[r] EXCEPT !.pc = pc, !.token = token, !.login = 0] \in Call
  BY <1>1, TokenFacts DEF Call
<1> QED
  BY <1>2 DEF SessionTypeOK, Return

LEMMA SetTokenType ==
  ASSUME SessionTypeOK, NEW t \in Tabs, NEW token \in Token, SetToken(t, token)
  PROVE  storage' \in Token /\ page' \in [Tabs -> Page]
BY DEF SessionTypeOK, SetToken, Page

LEMMA SpentType ==
  ASSUME SessionTypeOK, NEW g \in Token
  PROVE  Spent(g) \in [Grants -> Row]
BY DEF SessionTypeOK, Spent, Row

\* Every step leaves every variable in its type.
LEMMA SessionType ==
  ASSUME SessionTypeOK, CallsAreSound, [SessionNext]_sessionVars
  PROVE  SessionTypeOK'
<1> USE TokenFacts DEF SessionTypeOK
<1>1. ASSUME NEW t \in Tabs, PageStep(t) PROVE SessionTypeOK'
  <2>0. page[t].token \in Token /\ page[t].asked \in Nat
    BY DEF Page
  <2>1. CASE Reload(t)
    <3>1. page' \in [Tabs -> Page]
      BY <2>1 DEF Reload, Page
    <3>2. \A r \in Calls : [call[r] EXCEPT !.from = NoTab] \in Call
      BY DEF Call
    <3> QED
      BY <2>1, <3>1, <3>2 DEF Reload
  <2>2. ASSUME NEW r \in Calls, LogIn(t, r) PROVE SessionTypeOK'
    BY <2>2, SendType DEF LogIn
  <2>3. ASSUME NEW r \in Calls, TryRefresh(t, r) PROVE SessionTypeOK'
    <3>1. call' \in [Calls -> Call]
      BY <2>0, <2>3, SendType DEF TryRefresh
    <3>2. page' \in [Tabs -> Page]
      BY <2>3 DEF TryRefresh, Page
    <3> QED
      BY <2>3, <3>1, <3>2 DEF TryRefresh
  <2>4. ASSUME NEW r \in Calls, LogOut(t, r) PROVE SessionTypeOK'
    BY <2>0, <2>4, SendType DEF LogOut
  <2> QED
    BY <1>1, <2>1, <2>2, <2>3, <2>4 DEF PageStep
<1>2. ASSUME NEW r \in Calls, ServerStep(r) PROVE SessionTypeOK'
  <2>0. call[r].token \in Token
    BY DEF Call
  <2>1. CASE Consume(r)
    <3>1. CASE Usable(call[r].token)
      <4>1. call' = [call EXCEPT ![r].pc = "consumed", ![r].login = grant[call[r].token].login]
        BY <2>1, <3>1 DEF Consume
      <4>2. grant' \in [Grants -> Row]
        BY <2>0, <2>1, <3>1, SpentType DEF Consume
      <4>3. call[r].token \in Grants
        BY <2>0, <2>1 DEF Consume, At, CallsAreSound, Token, Grants
      <4>4. grant[call[r].token].login \in Token
        BY <4>3 DEF Row
      <4>5. [call[r] EXCEPT !.pc = "consumed", !.login = grant[call[r].token].login] \in Call
        BY <4>4 DEF Call
      <4>6. call' = [call EXCEPT ![r] = [call[r] EXCEPT !.pc = "consumed",
                                           !.login = grant[call[r].token].login]]
        BY <4>1
      <4> QED
        BY <2>1, <4>2, <4>5, <4>6 DEF Consume
    <3>2. CASE ~Usable(call[r].token)
      BY <2>1, <3>2, ReturnType DEF Consume
    <3> QED
      BY <3>1, <3>2
  <2>2. CASE Admit(r)
    BY <2>2 DEF Admit, Call
  <2>3. CASE Revoke(r)
    BY <2>0, <2>3, ReturnType, SpentType DEF Revoke
  <2>4. CASE Refuse(r)
    BY <2>4, ReturnType DEF Refuse
  <2>5. CASE Vanish(r)
    BY <2>5 DEF Vanish, Call, NoCall
  <2>6. ASSUME NEW g \in Grants, Issue(r, g) PROVE SessionTypeOK'
    <3>1. call' \in [Calls -> Call]
      BY <2>6, ReturnType DEF Issue
    <3>2. grant' \in [Grants -> Row]
      BY <2>6 DEF Issue, Row, Call
    <3> QED
      BY <2>6, <3>1, <3>2 DEF Issue
  <2> QED
    BY <1>2, <2>1, <2>2, <2>3, <2>4, <2>5, <2>6 DEF ServerStep
<1>3. ASSUME NEW r \in Calls, Reply(r) PROVE SessionTypeOK'
  <2>1. call[r].token \in Token /\ call[r].from \in Tabs \cup {NoTab}
    BY DEF Call
  <2>2. call' \in [Calls -> Call]
    BY <1>3 DEF Reply, Call, NoCall
  <2>3. CASE call[r].from = NoTab
    BY <1>3, <2>2, <2>3 DEF Reply
  <2>4. CASE call[r].from # NoTab
    BY <1>3, <2>1, <2>2, <2>4, SetTokenType DEF Reply, Resolve
  <2> QED
    BY <2>3, <2>4
<1>4. ASSUME NEW r \in Calls, Disconnect(r) PROVE SessionTypeOK'
  <2>1. call[r].from \in Tabs \cup {NoTab}
    BY DEF Call
  <2>2. call' \in [Calls -> Call]
    BY <1>4 DEF Disconnect, Call
  <2> QED
    BY <1>4, <2>1, <2>2, SetTokenType DEF Disconnect
<1>5. ASSUME NEW g \in Grants, Expire(g) PROVE SessionTypeOK'
  BY <1>5 DEF Expire, Row
<1>6. CASE UNCHANGED sessionVars
  BY <1>6 DEF sessionVars
<1> QED
  BY <1>1, <1>2, <1>3, <1>4, <1>5, <1>6 DEF SessionNext
-----------------------------------------------------------------------------
\* Calls stay sound: what is presented was held by a page, and a handler moves on
\* from one point to the next.
LEMMA CallsStaySound ==
  ASSUME SessionTypeOK, CallsAreSound, [SessionNext]_sessionVars
  PROVE  CallsAreSound'
<1> USE DEF CallsAreSound
<1>0. \A r \in Calls : call[r] \in Call
  BY DEF SessionTypeOK
<1>1. ASSUME NEW t \in Tabs, PageStep(t) PROVE CallsAreSound'
  <2>1. CASE Reload(t)
    BY <1>0, <2>1 DEF Reload, SessionTypeOK, Call
  <2>2. ASSUME NEW r \in Calls, LogIn(t, r) PROVE CallsAreSound'
    BY <2>2 DEF LogIn, Send, NoCall, SessionTypeOK
  <2>3. ASSUME NEW r \in Calls, TryRefresh(t, r) PROVE CallsAreSound'
    BY <2>3 DEF TryRefresh, Send, NoCall, SessionTypeOK
  <2>4. ASSUME NEW r \in Calls, LogOut(t, r) PROVE CallsAreSound'
    BY <2>4 DEF LogOut, Send, NoCall, SessionTypeOK
  <2> QED
    BY <1>1, <2>1, <2>2, <2>3, <2>4 DEF PageStep
<1>2. ASSUME NEW r \in Calls, ServerStep(r) PROVE CallsAreSound'
  <2>1. CASE Consume(r)
    <3>1. /\ call'[r].pc # "sent"
          /\ call'[r].pc \in {"consumed", "admitted"} => call'[r].kind = "refresh"
      <4>1. CASE Usable(call[r].token)
        BY <1>0, <2>1, <4>1 DEF Consume, At, SessionTypeOK, Call
      <4>2. CASE ~Usable(call[r].token)
        BY <1>0, <2>1, <4>2 DEF Consume, Return, SessionTypeOK, Call
      <4> QED
        BY <4>1, <4>2
    <3>2. \A s \in Calls : s # r => call'[s] = call[s]
      BY <2>1 DEF Consume, Return, SessionTypeOK
    <3> QED
      BY <3>1, <3>2
  <2>2. CASE Admit(r)
    BY <1>0, <2>2 DEF Admit, At, SessionTypeOK, Call
  <2>3. CASE Revoke(r)
    BY <1>0, <2>3 DEF Revoke, Return, SessionTypeOK, Call
  <2>4. CASE Refuse(r)
    BY <1>0, <2>4 DEF Refuse, Return, SessionTypeOK, Call
  <2>5. CASE Vanish(r)
    BY <2>5 DEF Vanish, NoCall, SessionTypeOK
  <2>6. ASSUME NEW g \in Grants, Issue(r, g) PROVE CallsAreSound'
    BY <1>0, <2>6 DEF Issue, Return, SessionTypeOK, Call
  <2> QED
    BY <1>2, <2>1, <2>2, <2>3, <2>4, <2>5, <2>6 DEF ServerStep
<1>3. ASSUME NEW r \in Calls, Reply(r) PROVE CallsAreSound'
  BY <1>3 DEF Reply, NoCall, SessionTypeOK
<1>4. ASSUME NEW r \in Calls, Disconnect(r) PROVE CallsAreSound'
  BY <1>0, <1>4 DEF Disconnect, SessionTypeOK, Call
<1>5. ASSUME NEW g \in Grants, Expire(g) PROVE CallsAreSound'
  BY <1>5 DEF Expire
<1>6. CASE UNCHANGED sessionVars
  BY <1>6 DEF sessionVars
<1> QED
  BY <1>1, <1>2, <1>3, <1>4, <1>5, <1>6 DEF SessionNext

\* A step in which nothing is consumed or issued: rows may die, calls may move on
\* with the login they carry, or drop it.
Quiet ==
    /\ \A g \in Grants : /\ grant'[g].login = grant[g].login
                         /\ \/ grant'[g].status = grant[g].status
                            \/ grant[g].status = "live" /\ grant'[g].status = "dead"
    /\ \A r \in Calls :
          \/ call'[r].login = 0
          \/ /\ call'[r].login = call[r].login /\ call'[r].kind = call[r].kind
             /\ \/ call'[r].pc = call[r].pc
                \/ call[r].kind = "login"
                \/ call[r].pc = "consumed" /\ call'[r].pc = "admitted"

LEMMA QuietSteps ==
  ASSUME SessionTypeOK, [SessionNext]_sessionVars
  PROVE  \/ Quiet
         \/ \E r \in Calls : Consume(r) /\ Usable(call[r].token)
         \/ \E r \in Calls, g \in Grants : Issue(r, g)
<1>0. /\ \A r \in Calls : call[r] \in Call
      /\ \A g \in Grants : grant[g] \in Row
  BY DEF SessionTypeOK
<1>1. ASSUME NEW t \in Tabs, PageStep(t) PROVE Quiet
  <2>1. CASE Reload(t)
    BY <1>0, <2>1 DEF Reload, SessionTypeOK, Call, Quiet
  <2>2. ASSUME NEW r \in Calls, LogIn(t, r) PROVE Quiet
    BY <2>2 DEF LogIn, Send, NoCall, SessionTypeOK, Quiet
  <2>3. ASSUME NEW r \in Calls, TryRefresh(t, r) PROVE Quiet
    BY <2>3 DEF TryRefresh, Send, NoCall, SessionTypeOK, Quiet
  <2>4. ASSUME NEW r \in Calls, LogOut(t, r) PROVE Quiet
    BY <2>4 DEF LogOut, Send, NoCall, SessionTypeOK, Quiet
  <2> QED
    BY <1>1, <2>1, <2>2, <2>3, <2>4 DEF PageStep
<1>2. ASSUME NEW r \in Calls, ServerStep(r), ~(Consume(r) /\ Usable(call[r].token)),
             ~\E g \in Grants : Issue(r, g)
      PROVE  Quiet
  <2>1. CASE Consume(r)
    BY <1>0, <1>2, <2>1 DEF Consume, Return, SessionTypeOK, Call, Quiet
  <2>2. CASE Admit(r)
    BY <1>0, <2>2 DEF Admit, At, SessionTypeOK, Call, Quiet
  <2>3. CASE Revoke(r)
    <3>1. \A s \in Calls : call'[s] = call[s] \/ call'[s].login = 0
      BY <1>0, <2>3 DEF Revoke, Return, SessionTypeOK, Call
    <3>2. \A g \in Grants : /\ grant'[g].login = grant[g].login
                            /\ \/ grant'[g].status = grant[g].status
                               \/ grant[g].status = "live" /\ grant'[g].status = "dead"
      BY <1>0, <2>3 DEF Revoke, Usable, Spent, SessionTypeOK, Row
    <3> QED
      BY <3>1, <3>2 DEF Quiet
  <2>4. CASE Refuse(r)
    BY <1>0, <2>4 DEF Refuse, Return, SessionTypeOK, Call, Quiet
  <2>5. CASE Vanish(r)
    BY <2>5 DEF Vanish, NoCall, SessionTypeOK, Quiet
  <2> QED
    BY <1>2, <2>1, <2>2, <2>3, <2>4, <2>5 DEF ServerStep
<1>3. ASSUME NEW r \in Calls, Reply(r) PROVE Quiet
  BY <1>3 DEF Reply, NoCall, SessionTypeOK, Quiet
<1>4. ASSUME NEW r \in Calls, Disconnect(r) PROVE Quiet
  BY <1>0, <1>4 DEF Disconnect, SessionTypeOK, Call, Quiet
<1>5. ASSUME NEW g \in Grants, Expire(g) PROVE Quiet
  BY <1>0, <1>5 DEF Expire, SessionTypeOK, Row, Quiet
<1>6. CASE UNCHANGED sessionVars
  BY <1>6 DEF sessionVars, Quiet
<1> QED
  BY <1>1, <1>2, <1>3, <1>4, <1>5, <1>6 DEF SessionNext, ServerStep

\* It takes live grants and rotations away, and adds none.
LEMMA QuietShrinks ==
  ASSUME SessionTypeOK, Quiet
  PROVE  \A l \in Grants : /\ LiveGrants(l)' \subseteq LiveGrants(l)
                           /\ Rotations(l)' \subseteq Rotations(l)
<1>1. \A l \in Grants : LiveGrants(l)' \subseteq LiveGrants(l)
  BY DEF LiveGrants, Live, Quiet
<1>2. \A l \in Grants : l # 0
  BY SessionsAssumption DEF Grants
<1>3. \A l \in Grants : Rotations(l)' \subseteq Rotations(l)
  BY <1>2 DEF Rotations, Quiet
<1> QED
  BY <1>1, <1>3

\* What a rotation that consumes its grant does, and a grant that is issued.
LEMMA ConsumeFacts ==
  ASSUME SessionTypeOK, CallsAreSound, NEW r \in Calls, Consume(r), Usable(call[r].token)
  PROVE  LET g == call[r].token IN
         /\ g \in Grants /\ Live(g)
         /\ grant'[g].status = "dead" /\ grant'[g].login = grant[g].login
         /\ \A h \in Grants : h # g => grant'[h] = grant[h]
         /\ call[r].kind = "refresh" /\ call[r].pc = "sent"
         /\ call'[r].kind = "refresh" /\ call'[r].pc = "consumed" /\ call'[r].login = grant[g].login
         /\ \A s \in Calls : s # r => call'[s] = call[s]
<1>1. call[r] \in Call
  BY DEF SessionTypeOK
<1>2. call[r].token \in Grants
  BY <1>1 DEF Consume, At, CallsAreSound, Token, Grants, Call
<1>3. grant[call[r].token] \in Row
  BY <1>2 DEF SessionTypeOK
<1>4. /\ grant'[call[r].token].status = "dead"
      /\ grant'[call[r].token].login = grant[call[r].token].login
      /\ \A h \in Grants : h # call[r].token => grant'[h] = grant[h]
  BY <1>2, <1>3 DEF Consume, Spent, Row, SessionTypeOK
<1>5. /\ call'[r].kind = "refresh" /\ call'[r].pc = "consumed"
      /\ call'[r].login = grant[call[r].token].login
      /\ \A s \in Calls : s # r => call'[s] = call[s]
  BY <1>1 DEF Consume, At, SessionTypeOK, Call
<1> QED
  BY <1>2, <1>4, <1>5 DEF Consume, At, Usable, Live

LEMMA IssueFacts ==
  ASSUME SessionTypeOK, CallsAreSound, NEW r \in Calls, NEW g \in Grants, Issue(r, g)
  PROVE  /\ grant[g].status = "unused"
         /\ \E l \in Token :
               /\ grant' = [grant EXCEPT ![g] = [status |-> "live", login |-> l]]
               /\ \/ call[r].kind = "login" /\ l = g
                  \/ call[r].kind = "refresh" /\ call[r].pc = "admitted" /\ l = call[r].login
         /\ call'[r].login = 0
         /\ \A s \in Calls : s # r => call'[s] = call[s]
<1>1. call[r] \in Call
  BY DEF SessionTypeOK
<1>2. call'[r].login = 0 /\ \A s \in Calls : s # r => call'[s] = call[s]
  BY <1>1 DEF Issue, Return, SessionTypeOK, Call
<1>3. call[r].kind \in {"login", "refresh"} /\ call[r].login \in Token /\ g \in Token
  BY <1>1, TokenFacts DEF Issue, CallsAreSound, Call
<1> QED
  BY <1>2, <1>3 DEF Issue

-----------------------------------------------------------------------------
LEMMA LoginsStayIssued ==
  ASSUME SessionTypeOK, CallsAreSound, LoginsAreIssued, [SessionNext]_sessionVars
  PROVE  LoginsAreIssued'
<1>1. /\ \A g \in Grants : grant[g].login \in Token
      /\ \A r \in Calls : call[r].login \in Token
      /\ \A g \in Token : g # 0 => g \in Grants
      /\ \A g \in Grants : g # 0
  BY SessionsAssumption DEF SessionTypeOK, Row, Call, Token, Grants
<1>2. CASE Quiet
  BY <1>1, <1>2 DEF Quiet, LoginsAreIssued
<1>3. ASSUME NEW r \in Calls, Consume(r), Usable(call[r].token) PROVE LoginsAreIssued'
  BY <1>1, <1>3, ConsumeFacts DEF LoginsAreIssued, Live
<1>4. ASSUME NEW r \in Calls, NEW g \in Grants, Issue(r, g) PROVE LoginsAreIssued'
  <2>1. PICK l \in Token :
           /\ grant' = [grant EXCEPT ![g] = [status |-> "live", login |-> l]]
           /\ \/ call[r].kind = "login" /\ l = g
              \/ call[r].kind = "refresh" /\ call[r].pc = "admitted" /\ l = call[r].login
    BY <1>4, IssueFacts
  <2>2. /\ grant'[g].status = "live" /\ grant'[g].login = l
        /\ \A h \in Grants : h # g => grant'[h] = grant[h]
    BY <2>1 DEF SessionTypeOK
  <2>3. \A h \in Grants : grant[h].status # "unused" => grant'[h].status # "unused"
    BY <2>2
  <2>4. l # 0 => grant'[l].status # "unused"
    BY <1>1, <2>1, <2>2, <2>3 DEF LoginsAreIssued
  <2>5. \A s \in Calls : call'[s].login # 0 => s # r /\ call'[s] = call[s]
    BY <1>4, IssueFacts
  <2> QED
    BY <1>1, <2>2, <2>3, <2>4, <2>5 DEF LoginsAreIssued
<1> QED
  BY <1>2, <1>3, <1>4, QuietSteps

LEMMA NoForkKept ==
  ASSUME SessionInv, [SessionNext]_sessionVars
  PROVE  NoFork'
<1> USE DEF SessionInv
<1>1. CASE Quiet
  BY <1>1, QuietShrinks DEF NoFork
<1>2. ASSUME NEW r \in Calls, Consume(r), Usable(call[r].token) PROVE NoFork'
  <2> DEFINE g == call[r].token
             l == grant[g].login
  <2>1. ASSUME NEW k \in Grants PROVE LiveGrants(k)' = LiveGrants(k) \ {g}
    BY <1>2, ConsumeFacts DEF LiveGrants, Live
  <2>2. ASSUME NEW k \in Grants
        PROVE  Rotations(k)' = IF k = l THEN Rotations(k) \cup {r} ELSE Rotations(k)
    BY <1>2, ConsumeFacts DEF Rotations
  <2>3. l \in Grants => g \in LiveGrants(l)
    BY <1>2, ConsumeFacts DEF LiveGrants
  <2> QED
    BY <2>1, <2>2, <2>3 DEF NoFork
<1>3. ASSUME NEW r \in Calls, NEW g \in Grants, Issue(r, g) PROVE NoFork'
  <2>1. PICK l \in Token :
           /\ grant' = [grant EXCEPT ![g] = [status |-> "live", login |-> l]]
           /\ \/ call[r].kind = "login" /\ l = g
              \/ call[r].kind = "refresh" /\ call[r].pc = "admitted" /\ l = call[r].login
    BY <1>3, IssueFacts
  <2>2. ASSUME NEW k \in Grants
        PROVE  LiveGrants(k)' = IF k = l THEN LiveGrants(k) \cup {g} ELSE LiveGrants(k)
    BY <1>3, <2>1, IssueFacts DEF LiveGrants, Live, SessionTypeOK
  <2>3. \A k \in Grants : k # 0
    BY SessionsAssumption DEF Grants
  <2>4. ASSUME NEW k \in Grants PROVE Rotations(k)' = Rotations(k) \ {r}
    BY <1>3, <2>3, IssueFacts DEF Rotations
  <2>5. l = g => LiveGrants(l) = {} /\ Rotations(l) = {}
    BY <1>3, <2>3, IssueFacts DEF LiveGrants, Rotations, LoginsAreIssued
  <2>6. l \in Grants /\ l # g => r \in Rotations(l)
    BY <2>1 DEF Rotations
  <2> QED
    BY <2>2, <2>4, <2>5, <2>6 DEF NoFork
<1> QED
  BY <1>1, <1>2, <1>3, QuietSteps

-----------------------------------------------------------------------------
(* Whatever pages present whatever tokens, and whatever is lost or fails, a     *)
(* rotation never forks a login (RefreshStore.Consume revokes and returns the   *)
(* row in one statement).                                                       *)
THEOREM LoginsNeverFork == SessionSpec => [](SessionTypeOK /\ NoFork)
<1>1. SessionInit => SessionInv
  BY SessionsAssumption DEF SessionInit, SessionInv, SessionTypeOK, CallsAreSound, LoginsAreIssued,
     NoFork, LiveGrants, Live, Rotations, Row, Page, Call, NoCall, Grants, Token
<1>2. SessionInv /\ [SessionNext]_sessionVars => SessionInv'
  BY SessionType, CallsStaySound, LoginsStayIssued, NoForkKept DEF SessionInv
<1>3. SessionInv => SessionTypeOK /\ NoFork
  BY DEF SessionInv
<1> QED
  BY <1>1, <1>2, <1>3, PTL DEF SessionSpec

(* A login without a live grant, and without a rotation on the way to one, is   *)
(* never continued, whatever tokens of it are still presented (Service.Refresh, *)
(* Logout, and the expiry of a row).                                            *)
THEOREM EndedLoginsStayEnded == SessionSpec => EndedStaysEnded
<1>1. SessionInit => SessionInv
  BY SessionsAssumption DEF SessionInit, SessionInv, SessionTypeOK, CallsAreSound, LoginsAreIssued,
     NoFork, LiveGrants, Live, Rotations, Row, Page, Call, NoCall, Grants, Token
<1>2. SessionInv /\ [SessionNext]_sessionVars => SessionInv'
  BY SessionType, CallsStaySound, LoginsStayIssued, NoForkKept DEF SessionInv
<1>3. ASSUME SessionInv, [SessionNext]_sessionVars, NEW l \in Grants, Ended(l)
      PROVE  Ended(l)'
  <2> USE <1>3 DEF SessionInv
  <2>0. l # 0
    BY SessionsAssumption DEF Grants
  <2>1. CASE Quiet
    BY <2>1, QuietShrinks DEF Ended, Quiet
  <2>2. ASSUME NEW r \in Calls, Consume(r), Usable(call[r].token) PROVE Ended(l)'
    <3>1. grant[call[r].token].login # l
      BY <2>2, ConsumeFacts DEF Ended, LiveGrants
    <3>2. grant'[l].login = l /\ LiveGrants(l)' = {}
      BY <2>2, ConsumeFacts DEF Ended, LiveGrants, Live
    <3>3. Rotations(l)' = {}
      BY <2>2, <3>1, ConsumeFacts DEF Ended, Rotations
    <3> QED
      BY <3>2, <3>3 DEF Ended
  <2>3. ASSUME NEW r \in Calls, NEW g \in Grants, Issue(r, g) PROVE Ended(l)'
    <3>1. PICK k \in Token :
             /\ grant' = [grant EXCEPT ![g] = [status |-> "live", login |-> k]]
             /\ \/ call[r].kind = "login" /\ k = g
                \/ call[r].kind = "refresh" /\ call[r].pc = "admitted" /\ k = call[r].login
      BY <2>3, IssueFacts
    <3>2. g # l
      BY <2>0, <2>3, IssueFacts DEF Ended, LoginsAreIssued
    <3>3. k # l
      BY <3>1, <3>2 DEF Ended, Rotations
    <3>4. grant'[l].login = l /\ LiveGrants(l)' = {}
      BY <3>1, <3>2, <3>3 DEF Ended, LiveGrants, Live, SessionTypeOK
    <3>5. Rotations(l)' = {}
      BY <2>0, <2>3, IssueFacts DEF Ended, Rotations
    <3> QED
      BY <3>4, <3>5 DEF Ended
  <2> QED
    BY <2>1, <2>2, <2>3, QuietSteps
<1>4. SessionInv /\ [SessionNext]_sessionVars
        => [\A l \in Grants : Ended(l) => Ended(l)']_sessionVars
  BY <1>3
<1> QED
  BY <1>1, <1>2, <1>4, PTL DEF SessionSpec, EndedStaysEnded

LEMMA PagesStillWait ==
  ASSUME SessionTypeOK, PagesWait, [SessionNext]_sessionVars
  PROVE  PagesWait'
<1> USE DEF PagesWait, RefreshInFlight, Waiting
<1>0. /\ \A r \in Calls : call[r] \in Call
      /\ \A t \in Tabs : page[t].asked \in Nat
      /\ NoTab \notin Tabs
  BY SessionsAssumption DEF SessionTypeOK, Page
<1>1. ASSUME NEW t \in Tabs, PageStep(t) PROVE PagesWait'
  <2>1. CASE Reload(t)
    <3>1. page'[t].asked = 0 /\ \A u \in Tabs : u # t => page'[u] = page[u]
      BY <2>1 DEF Reload, SessionTypeOK
    <3>2. \A r \in Calls : call[r].from # t => call'[r] = call[r]
      BY <2>1 DEF Reload
    <3> QED
      BY <1>0, <3>1, <3>2
  <2>2. ASSUME NEW r \in Calls, LogIn(t, r) PROVE PagesWait'
    <3>1. page' = page /\ call[r].kind = "none" /\ \A s \in Calls : s # r => call'[s] = call[s]
      BY <2>2 DEF LogIn, Send, SessionTypeOK
    <3> QED
      BY <3>1
  <2>3. ASSUME NEW r \in Calls, TryRefresh(t, r) PROVE PagesWait'
    <3>1. /\ call[r].kind = "none" /\ \A s \in Calls : s # r => call'[s] = call[s]
          /\ call'[r].from = t /\ call'[r].kind = "refresh"
      BY <2>3 DEF TryRefresh, Send, NoCall, SessionTypeOK
    <3>2. page'[t].asked = page[t].asked + 1 /\ \A u \in Tabs : u # t => page'[u] = page[u]
      BY <2>3 DEF TryRefresh, SessionTypeOK, Page
    <3>3. page[t].asked = 0
      BY <1>0, <2>3 DEF TryRefresh
    <3> QED
      BY <3>1, <3>2, <3>3
  <2>4. ASSUME NEW r \in Calls, LogOut(t, r) PROVE PagesWait'
    <3>1. page' = page /\ call[r].kind = "none" /\ \A s \in Calls : s # r => call'[s] = call[s]
      BY <2>4 DEF LogOut, Send, SessionTypeOK
    <3> QED
      BY <3>1
  <2> QED
    BY <1>1, <2>1, <2>2, <2>3, <2>4 DEF PageStep
<1>2. ASSUME NEW r \in Calls, ServerStep(r) PROVE PagesWait'
  <2>1. /\ page' = page
        /\ \A s \in Calls : \/ call'[s].from = call[s].from /\ call'[s].kind = call[s].kind
                            \/ call[s].from = NoTab
    <3>1. CASE Consume(r)
      <4>1. CASE Usable(call[r].token)
        BY <1>0, <3>1, <4>1 DEF Consume, SessionTypeOK, Call
      <4>2. CASE ~Usable(call[r].token)
        <5>1. /\ page' = page
              /\ call' = [call EXCEPT ![r] = [call[r] EXCEPT !.pc = "failed", !.token = 0, !.login = 0]]
          BY <3>1, <4>2 DEF Consume, Return
        <5>2. call'[r].from = call[r].from /\ call'[r].kind = call[r].kind
          BY <1>0, <5>1 DEF SessionTypeOK, Call
        <5>3. \A q \in Calls : q # r => call'[q] = call[q]
          BY <5>1 DEF SessionTypeOK
        <5> QED
          BY <5>1, <5>2, <5>3
      <4> QED
        BY <4>1, <4>2
    <3>2. CASE Admit(r)
      BY <1>0, <3>2 DEF Admit, SessionTypeOK, Call
    <3>3. CASE Revoke(r)
      BY <1>0, <3>3 DEF Revoke, Return, SessionTypeOK, Call
    <3>4. CASE Refuse(r)
      BY <1>0, <3>4 DEF Refuse, Return, SessionTypeOK, Call
    <3>5. CASE Vanish(r)
      BY <1>0, <3>5 DEF Vanish, SessionTypeOK
    <3>6. ASSUME NEW g \in Grants, Issue(r, g)
          PROVE  /\ page' = page
                 /\ \A s \in Calls : call'[s].from = call[s].from /\ call'[s].kind = call[s].kind
      BY <1>0, <3>6 DEF Issue, Return, SessionTypeOK, Call
    <3> QED
      BY <1>2, <3>1, <3>2, <3>3, <3>4, <3>5, <3>6 DEF ServerStep
  <2> QED
    BY <1>0, <2>1
<1>3. ASSUME NEW r \in Calls, Reply(r) PROVE PagesWait'
  <2>1. \A s \in Calls : s # r => call'[s] = call[s]
    BY <1>3 DEF Reply, SessionTypeOK
  <2>2. \A t \in Tabs : t # call[r].from => page'[t] = page[t]
    BY <1>0, <1>3 DEF Reply, Resolve, SetToken, SessionTypeOK
  <2>3. ASSUME call[r].from \in Tabs
        PROVE  \/ page' = page /\ call[r].kind = "login"
               \/ page'[call[r].from].asked = 0
    BY <1>0, <1>3, <2>3 DEF Reply, Resolve, SetToken, SessionTypeOK
  <2> QED
    BY <1>0, <2>1, <2>2, <2>3
<1>4. ASSUME NEW r \in Calls, Disconnect(r) PROVE PagesWait'
  <2>1. \A s \in Calls : s # r => call'[s] = call[s]
    BY <1>4 DEF Disconnect, SessionTypeOK
  <2>2. \A t \in Tabs : t # call[r].from => page'[t] = page[t]
    BY <1>0, <1>4 DEF Disconnect, SetToken, SessionTypeOK
  <2>3. ASSUME call[r].from \in Tabs
        PROVE  \/ page' = page /\ call[r].kind = "login"
               \/ page'[call[r].from].asked = 0
    BY <1>0, <1>4, <2>3 DEF Disconnect, SetToken, SessionTypeOK
  <2> QED
    BY <1>0, <2>1, <2>2, <2>3
<1>5. ASSUME NEW g \in Grants, Expire(g) PROVE PagesWait'
  BY <1>5 DEF Expire
<1>6. CASE UNCHANGED sessionVars
  BY <1>6 DEF sessionVars
<1> QED
  BY <1>1, <1>2, <1>3, <1>4, <1>5, <1>6 DEF SessionNext

(* A page never presents a token twice (tryRefresh shares the refresh in flight). *)
THEOREM TokensPresentedOnce == SessionSpec => []PresentsOnce
<1>1. SessionInit => PagesWait
  <2>1. ASSUME SessionInit, NEW t \in Tabs
        PROVE  page[t].asked <= 1 /\ (page[t].asked = 1 => RefreshInFlight(t))
    <3>1. page[t] = [token |-> 0, asked |-> 0]
      BY <2>1 DEF SessionInit
    <3>2. page[t].asked = 0
      BY <3>1
    <3> QED
      BY <3>2
  <2> QED
    BY <2>1 DEF PagesWait
<1>2. PagesWait => PresentsOnce
  BY DEF PagesWait, PresentsOnce
<1>3. SessionTypeOK /\ PagesWait /\ [SessionNext]_sessionVars => PagesWait'
  BY PagesStillWait
<1> QED
  BY <1>1, <1>2, <1>3, LoginsNeverFork, PTL DEF SessionSpec

-----------------------------------------------------------------------------
LEMMA AccountsType ==
  ASSUME AccountsTypeOK, [AccountsNext]_accountVars
  PROVE  AccountsTypeOK'
<1> USE AccountsAssumption DEF AccountsTypeOK, User, Entry, Attempt, NoAttempt, Leave, Goto
<1>1. CASE Tick
  BY <1>1 DEF Tick
<1>2. ASSUME NEW a \in Attempts, AttemptStep(a) PROVE AccountsTypeOK'
  <2>1. ASSUME NEW role \in {"employer", "candidate"}, Register(a, role) PROVE AccountsTypeOK'
    BY <2>1 DEF Register
  <2>2. CASE CreateUser(a)
    <3>0. attempt[a].role \in {"none", "employer", "candidate"}
      OBVIOUS
    <3>1. user' \in User
      <4>1. CASE user = NoUser
        <5>1. user' = [role |-> attempt[a].role, context |-> WrittenTogether(attempt[a].role)]
          BY <2>2, <4>1 DEF CreateUser
        <5>2. WrittenTogether(attempt[a].role) \in BOOLEAN
          BY DEF WrittenTogether
        <5> QED
          BY <3>0, <5>1, <5>2
      <4>2. CASE user # NoUser
        BY <2>2, <4>2 DEF CreateUser
      <4> QED
        BY <4>1, <4>2
    <3> QED
      BY <2>2, <3>1 DEF CreateUser
  <2>3. CASE Provision(a)
    <3>1. user' \in User
      <4>1. user' = [user EXCEPT !.context = TRUE] /\ user \in User
        BY <2>3 DEF Provision
      <4> QED
        BY <4>1
    <3> QED
      BY <2>3, <3>1 DEF Provision
  <2>4. CASE Login(a)
    BY <2>4 DEF Login
  <2>5. CASE Check(a)
    BY <2>5 DEF Check
  <2>6. CASE Verify(a)
    BY <2>6 DEF Verify
  <2>7. CASE CountFailure(a)
    <3> DEFINE fresh == entry.count = 0 \/ clock - entry.start > Window
               old   == IF fresh THEN [NoEntry EXCEPT !.start = clock] ELSE entry
    <3>1. entry' \in Entry
      <4>1. old \in Entry /\ clock + Lockout \in Nat
        BY DEF NoEntry
      <4>2. entry' = [old EXCEPT !.count = @ + 1,
                                 !.until = IF old.count + 1 >= MaxFailures THEN clock + Lockout ELSE @]
        BY <2>7 DEF CountFailure
      <4>3. old.count + 1 \in Nat
        BY <4>1
      <4>4. entry'.count = old.count + 1 /\ entry'.start = old.start
            /\ entry'.until \in {clock + Lockout, old.until}
        BY <4>1, <4>2
      <4>5. entry' = [count |-> entry'.count, start |-> entry'.start, until |-> entry'.until]
        BY <4>1, <4>2
      <4> HIDE DEF old
      <4>6. entry'.count \in Nat /\ entry'.start \in Nat /\ entry'.until \in Nat
        BY <4>1, <4>3, <4>4
      <4> QED
        BY <4>5, <4>6
    <3> QED
      BY <2>7, <3>1 DEF CountFailure
  <2>8. CASE ResetCount(a)
    BY <2>8 DEF ResetCount, NoEntry
  <2>9. CASE GiveUp(a)
    BY <2>9 DEF GiveUp
  <2> QED
    BY <1>2, <2>1, <2>2, <2>3, <2>4, <2>5, <2>6, <2>7, <2>8, <2>9 DEF AttemptStep
<1>3. CASE UNCHANGED accountVars
  BY <1>3 DEF accountVars
<1> QED
  BY <1>1, <1>2, <1>3 DEF AccountsNext

LEMMA OneStillRegisters ==
  ASSUME AccountsTypeOK, OneRegisters, RegisteredOnceAndWhole, [AccountsNext]_accountVars
  PROVE  OneRegisters' /\ RegisteredOnceAndWhole'
<1> USE DEF AccountsTypeOK, OneRegisters, RegisteredOnceAndWhole, Is, Leave, Goto
<1>1. CASE Tick
  BY <1>1 DEF Tick
<1>2. ASSUME NEW a \in Attempts, AttemptStep(a) PROVE OneRegisters' /\ RegisteredOnceAndWhole'
  <2>0. attempt[a] \in Attempt /\ user \in User
    OBVIOUS
  <2>1. ASSUME NEW role \in {"employer", "candidate"}, Register(a, role)
        PROVE  OneRegisters' /\ RegisteredOnceAndWhole'
    BY <2>1 DEF Register
  <2>2. CASE CreateUser(a)
    <3>1. CASE user = NoUser
      <4>0. /\ user' = [role |-> attempt[a].role, context |-> WrittenTogether(attempt[a].role)]
            /\ registered' = registered /\ attempt[a].role # "none"
        BY <2>2, <3>1 DEF CreateUser
      <4>1. user' # NoUser /\ (user'.role = "employer" => user'.context) /\ registered' = 0
        <5>1. user'.role = attempt[a].role /\ user'.context = WrittenTogether(attempt[a].role)
          BY <4>0
        <5>2. user'.role # "none" /\ user' # NoUser
          BY <4>0, <5>1 DEF NoUser
        <5>3. user'.role = "employer" => user'.context
          BY <5>1 DEF WrittenTogether
        <5>4. registered = 0
          BY <3>1
        <5> QED
          BY <4>0, <5>2, <5>3, <5>4
      <4>2. attempt'[a].kind = "register" /\ attempt'[a].role # "none"
        BY <2>0, <2>2, <3>1 DEF CreateUser, Attempt
      <4>3. \A b \in Attempts : b # a => attempt'[b] = attempt[b] /\ ~Is(b, "register", "created")
        BY <2>2, <3>1 DEF CreateUser
      <4> QED
        BY <4>1, <4>2, <4>3
    <3>2. CASE user # NoUser
      BY <2>2, <3>2 DEF CreateUser, NoAttempt
    <3> QED
      BY <3>1, <3>2
  <2>3. CASE Provision(a)
    <3>1. /\ registered = 0 /\ registered' = 1 /\ user'.context
          /\ user' # NoUser
      BY <2>0, <2>3 DEF Provision, NoUser, User
    <3>2. /\ attempt'[a] = NoAttempt
          /\ \A b \in Attempts : b # a => attempt'[b] = attempt[b] /\ ~Is(b, "register", "created")
      BY <2>3 DEF Provision
    <3> QED
      BY <3>1, <3>2 DEF NoAttempt
  <2>4. CASE Login(a)
    BY <2>4 DEF Login, NoAttempt
  <2>5. CASE Check(a)
    BY <2>0, <2>5 DEF Check, NoAttempt, Attempt
  <2>6. CASE Verify(a)
    BY <2>0, <2>6 DEF Verify, Attempt
  <2>7. CASE CountFailure(a)
    BY <2>7 DEF CountFailure, NoAttempt
  <2>8. CASE ResetCount(a)
    BY <2>8 DEF ResetCount, NoAttempt
  <2>9. CASE GiveUp(a)
    BY <2>9 DEF GiveUp, NoAttempt
  <2> QED
    BY <1>2, <2>1, <2>2, <2>3, <2>4, <2>5, <2>6, <2>7, <2>8, <2>9 DEF AttemptStep
<1>3. CASE UNCHANGED accountVars
  BY <1>3 DEF accountVars
<1> QED
  BY <1>1, <1>2, <1>3 DEF AccountsNext

(* An address is registered at most once, and neither a registered account nor  *)
(* an employer's ever lacks the row of its context, whatever fails (UserRepo.   *)
(* Create writes an employer's rows in one transaction).                        *)
THEOREM OneRegistration == AccountsSpec => [](AccountsTypeOK /\ RegisteredOnceAndWhole)
<1> DEFINE Inv == AccountsTypeOK /\ OneRegisters /\ RegisteredOnceAndWhole
<1>1. AccountsInit => Inv
  BY AccountsAssumption DEF AccountsInit, AccountsTypeOK, OneRegisters, RegisteredOnceAndWhole, Is,
     NoUser, NoEntry, NoAttempt, User, Entry, Attempt
<1>2. Inv /\ [AccountsNext]_accountVars => Inv'
  BY AccountsType, OneStillRegisters
<1> QED
  BY <1>1, <1>2, PTL DEF AccountsSpec
-----------------------------------------------------------------------------
(* The throttle *)

\* Logins that have passed the check and may still count a failure.
Guessers == {a \in Attempts : Is(a, "login", "checked") \/ Is(a, "login", "wrong")}

WindowEnd == entry.start + Window

\* The inductive invariant.  The lock begins with the failure that reaches the limit
\* and reaches at least to the end of the window, so that until then nobody joins the
\* guessers: what has been counted and what they may still count is bounded together.
\* A lock that ends with the window lets every request in at that instant, and their
\* failures are the last of the window: the first of them locks beyond it.
GuessInv ==
    /\ entry.until <= clock + Lockout
    /\ entry.count > 0 => entry.start <= clock
    /\ entry.count >= MaxFailures =>
          /\ WindowEnd <= entry.until
          /\ entry.until = WindowEnd =>
                /\ entry.count < MaxFailures + Cardinality(Attempts)
                /\ clock < WindowEnd =>
                      entry.count + Cardinality(Guessers) < MaxFailures + Cardinality(Attempts)
          /\ WindowEnd < entry.until =>
                /\ entry.count < MaxFailures + 2 * Cardinality(Attempts)
                /\ clock <= WindowEnd =>
                      entry.count + Cardinality(Guessers) < MaxFailures + 2 * Cardinality(Attempts)

LEMMA GuesserFacts ==
  ASSUME IsFiniteSet(Attempts)
  PROVE  /\ IsFiniteSet(Guessers)
         /\ Cardinality(Guessers) \in Nat /\ Cardinality(Attempts) \in Nat
         /\ Cardinality(Guessers) <= Cardinality(Attempts)
         /\ \A a \in Attempts : Cardinality(Attempts) >= 1
<1>1. Guessers \in SUBSET Attempts
  BY DEF Guessers
<1>2. IsFiniteSet(Guessers) /\ Cardinality(Guessers) <= Cardinality(Attempts)
  BY <1>1, FS_Subset
<1>3. Cardinality(Guessers) \in Nat /\ Cardinality(Attempts) \in Nat
  BY <1>2, FS_CardinalityType
<1>4. \A a \in Attempts : Cardinality(Attempts) # 0
  BY FS_EmptySet
<1> QED
  BY <1>2, <1>3, <1>4

\* The numbers of GuessInv: what a step may do to the entry and to the guessers.
LEMMA EntryNumbers ==
  ASSUME AccountsTypeOK
  PROVE  /\ entry.count \in Nat /\ entry.start \in Nat /\ entry.until \in Nat /\ clock \in Nat
         /\ MaxFailures \in Nat \ {0} /\ Window \in Nat \ {0} /\ Lockout \in Nat \ {0}
BY AccountsAssumption DEF AccountsTypeOK, Entry

\* A step that leaves the entry alone and adds no guesser during a lock keeps the bound.
LEMMA GuessersMayLeave ==
  ASSUME IsFiniteSet(Attempts), AccountsTypeOK, GuessInv, entry' = entry, clock' = clock,
         Guessers' \subseteq Guessers
  PROVE  GuessInv'
<1>1. Cardinality(Guessers') <= Cardinality(Guessers) /\ Cardinality(Guessers') \in Nat
  BY GuesserFacts, FS_Subset, FS_CardinalityType
<1> HIDE DEF Guessers
<1> QED
  BY <1>1, EntryNumbers, GuesserFacts DEF GuessInv, WindowEnd

\* A failure is counted: one guesser less.
LEMMA FailureKeepsBound ==
  ASSUME Lockout >= Window, IsFiniteSet(Attempts), AccountsTypeOK, GuessInv,
         NEW a \in Attempts, CountFailure(a)
  PROVE  GuessInv'
<1> DEFINE fresh == entry.count = 0 \/ clock - entry.start > Window
           old   == IF fresh THEN [NoEntry EXCEPT !.start = clock] ELSE entry
           N == Cardinality(Attempts)
           P == Cardinality(Guessers)
           Q == Cardinality(Guessers')
<1>1. /\ old \in Entry
      /\ fresh => old.count = 0 /\ old.start = clock /\ old.until = 0
      /\ ~fresh => old = entry
  BY EntryNumbers DEF AccountsTypeOK, NoEntry, Entry
<1>2. /\ entry' = [old EXCEPT !.count = @ + 1,
                              !.until = IF old.count + 1 >= MaxFailures THEN clock + Lockout ELSE @]
      /\ clock' = clock
  BY DEF CountFailure
<1>3. /\ entry'.count = old.count + 1 /\ entry'.start = old.start
      /\ entry'.until = IF old.count + 1 >= MaxFailures THEN clock + Lockout ELSE old.until
  <2> HIDE DEF old
  <2> QED
    BY <1>1, <1>2 DEF Entry
<1>4. P \in Nat /\ N \in Nat /\ Q \in Nat /\ N >= 1 /\ Q + 1 <= P /\ P <= N
  <2>1. a \in Guessers /\ a \notin Guessers' /\ Guessers' \subseteq Guessers
    BY DEF CountFailure, Guessers, Is, Leave, AccountsTypeOK, NoAttempt
  <2>2. Guessers' \in SUBSET (Guessers \ {a})
    BY <2>1
  <2>3. IsFiniteSet(Guessers \ {a}) /\ Cardinality(Guessers \ {a}) = P - 1
    BY <2>1, GuesserFacts, FS_RemoveElement
  <2>4. IsFiniteSet(Guessers') /\ Q <= P - 1
    BY <2>2, <2>3, FS_Subset
  <2>5. Q \in Nat
    BY <2>4, FS_CardinalityType
  <2> QED
    BY <2>4, <2>5, GuesserFacts
<1> DEFINE count == entry.count
           start == entry.start
           until == entry.until
<1>5. /\ count \in Nat /\ start \in Nat /\ until \in Nat /\ clock \in Nat
      /\ MaxFailures \in Nat \ {0} /\ Window \in Nat \ {0} /\ Lockout \in Nat \ {0}
  BY EntryNumbers
<1> HIDE DEF N, P, Q
\* The first failure of a window.
<1>6. CASE fresh
  <2>1. entry'.count = 1 /\ entry'.start = clock /\ entry'.until \in {0, clock + Lockout}
        /\ (1 >= MaxFailures => entry'.until = clock + Lockout)
    BY <1>1, <1>3, <1>5, <1>6
  <2>2. 1 >= MaxFailures => MaxFailures = 1
    BY <1>5
  <2>3. entry'.count + Q < MaxFailures + N
    BY <2>1, <1>4, <1>5
  <2>4. entry'.count < MaxFailures + N /\ entry'.count + Q < MaxFailures + 2 * N
        /\ entry'.count < MaxFailures + 2 * N
    BY <2>1, <2>3, <1>4, <1>5
  <2>5. entry'.until <= clock + Lockout /\ entry'.start <= clock
    BY <2>1, <1>5
  <2>6. entry'.count >= MaxFailures => entry'.start + Window <= entry'.until
    BY <2>1, <1>5
  <2> QED
    BY <1>2, <2>3, <2>4, <2>5, <2>6 DEF GuessInv, WindowEnd, N, Q
\* A further one.
<1>7. CASE ~fresh
  <2>1. /\ count > 0 /\ start <= clock /\ clock <= start + Window /\ until <= clock + Lockout
        /\ entry'.count = count + 1 /\ entry'.start = start
        /\ entry'.until = IF count + 1 >= MaxFailures THEN clock + Lockout ELSE until
    BY <1>1, <1>3, <1>5, <1>7 DEF GuessInv
  <2> DEFINE end == start + Window
  <2>2. end \in Nat
    BY <1>5
  <2>3. entry'.until <= clock + Lockout /\ entry'.start <= clock
    BY <2>1, <1>5
  <2>4. CASE count + 1 < MaxFailures
    <3>1. ~(entry'.count >= MaxFailures)
      BY <2>1, <2>4, <1>5
    <3> QED
      BY <1>2, <2>3, <3>1 DEF GuessInv
  <2>5. CASE count + 1 = MaxFailures
    <3>1. entry'.until = clock + Lockout /\ end <= clock + Lockout
      BY <2>1, <2>5, <1>5
    <3>2. entry'.count < MaxFailures + N /\ entry'.count + Q < MaxFailures + N
      BY <2>1, <2>5, <1>4, <1>5
    <3>3. entry'.count < MaxFailures + 2 * N /\ entry'.count + Q < MaxFailures + 2 * N
      BY <3>2, <2>1, <1>4, <1>5
    <3> QED
      BY <1>2, <2>1, <2>3, <3>1, <3>2, <3>3 DEF GuessInv, WindowEnd, N, Q
  <2>6. CASE count >= MaxFailures
    <3>1. entry'.until = clock + Lockout /\ end <= clock + Lockout
      BY <2>1, <2>6, <1>5
    <3>2. /\ end <= until
          /\ until = end => count < MaxFailures + N /\ (clock < end => count + P < MaxFailures + N)
          /\ end < until => /\ count < MaxFailures + 2 * N
                            /\ clock <= end => count + P < MaxFailures + 2 * N
      BY <2>6 DEF GuessInv, WindowEnd, N, P
    <3>3. CASE until = end /\ clock < end
      <4>1. count + 1 < MaxFailures + N /\ count + 1 + Q < MaxFailures + N
        BY <1>4, <1>5, <3>2, <3>3
      <4>2. count + 1 < MaxFailures + 2 * N /\ count + 1 + Q < MaxFailures + 2 * N
        BY <4>1, <1>4, <1>5
      <4> QED
        BY <1>2, <2>1, <2>3, <3>1, <4>1, <4>2 DEF GuessInv, WindowEnd, N, Q
    <3>4. CASE until = end /\ clock = end
      <4>1. end < clock + Lockout
        BY <1>5, <3>4
      <4>2. count + 1 < MaxFailures + 2 * N /\ count + 1 + Q < MaxFailures + 2 * N
        BY <1>4, <1>5, <3>2, <3>4
      <4> QED
        BY <1>2, <1>5, <2>1, <2>2, <2>3, <3>1, <4>1, <4>2 DEF GuessInv, WindowEnd, N, Q
    <3>5. CASE end < until
      <4>1. end < clock + Lockout
        BY <1>5, <2>1, <3>5
      <4>2. count + 1 < MaxFailures + 2 * N /\ count + 1 + Q < MaxFailures + 2 * N
        BY <1>4, <1>5, <2>1, <3>2, <3>5
      <4> QED
        BY <1>2, <1>5, <2>1, <2>2, <2>3, <3>1, <4>1, <4>2 DEF GuessInv, WindowEnd, N, Q
    <3> QED
      BY <1>5, <2>1, <3>2, <3>3, <3>4, <3>5
  <2> QED
    BY <1>5, <2>4, <2>5, <2>6
<1> QED
  BY <1>6, <1>7

LEMMA GuessesStayBounded ==
  ASSUME Lockout >= Window, IsFiniteSet(Attempts), AccountsTypeOK, GuessInv,
         [AccountsNext]_accountVars
  PROVE  GuessInv'
<1>0. \A a \in Attempts : attempt[a] \in Attempt
  BY DEF AccountsTypeOK
<1>1. CASE Tick
  <2>1. clock' = clock + 1 /\ entry' = entry /\ Guessers' = Guessers
    BY <1>1 DEF Tick, Guessers, Is
  <2> QED
    BY <2>1, EntryNumbers, GuesserFacts DEF GuessInv, WindowEnd
<1>2. ASSUME NEW a \in Attempts, AttemptStep(a) PROVE GuessInv'
  \* Steps by which nobody becomes a guesser.
  <2>0. ASSUME entry' = entry, clock' = clock, NEW x, attempt' = [attempt EXCEPT ![a] = x],
               ~(x.kind = "login" /\ x.pc \in {"checked", "wrong"})
        PROVE  GuessInv'
    <3>1. Guessers' \subseteq Guessers
      BY <2>0 DEF Guessers, Is, AccountsTypeOK
    <3> QED
      BY <2>0, <3>1, GuessersMayLeave
  <2>1. ASSUME NEW role \in {"employer", "candidate"}, Register(a, role) PROVE GuessInv'
    <3> DEFINE x == [kind |-> "register", role |-> role, pc |-> "begun"]
    <3>1. x.kind # "login"
      OBVIOUS
    <3>2. entry' = entry /\ clock' = clock /\ attempt' = [attempt EXCEPT ![a] = x]
      BY <2>1 DEF Register
    <3> HIDE DEF x
    <3> QED
      BY <2>0, <3>1, <3>2
  <2>2. NoAttempt.kind # "login"
    BY DEF NoAttempt
  <2>3. CASE CreateUser(a)
    <3>1. attempt' = [attempt EXCEPT ![a] = [attempt[a] EXCEPT !.pc = "created"]] \/ Leave(a)
      BY <2>3 DEF CreateUser, Goto
    <3>2. [attempt[a] EXCEPT !.pc = "created"].kind # "login"
      BY <1>0, <2>3 DEF CreateUser, Is, Attempt
    <3>3. entry' = entry /\ clock' = clock
      BY <2>3 DEF CreateUser
    <3> QED
      BY <2>0, <2>2, <3>1, <3>2, <3>3 DEF Leave
  <2>4. CASE Provision(a) \/ GiveUp(a)
    BY <2>0, <2>2, <2>4 DEF Provision, GiveUp, Leave
  <2>5. CASE Login(a)
    <3>1. [NoAttempt EXCEPT !.kind = "login", !.pc = "begun"].pc = "begun"
      BY DEF NoAttempt
    <3> QED
      BY <2>0, <2>5, <3>1 DEF Login
  <2>6. CASE Check(a)
    <3>1. CASE Locked
      BY <2>0, <2>2, <2>6, <3>1 DEF Check, Leave
    <3>2. CASE ~Locked
      <4>1. /\ entry' = entry /\ clock' = clock
            /\ Guessers' = Guessers \cup {a}
        BY <1>0, <2>6, <3>2 DEF Check, Goto, Guessers, Is, AccountsTypeOK, Attempt
      <4>2. Cardinality(Guessers') \in Nat
        BY <4>1, GuesserFacts, FS_AddElement, FS_CardinalityType
      <4>3. entry.count > 0 => clock >= entry.until
        BY <3>2, EntryNumbers DEF Locked
      <4> QED
        BY <4>1, <4>2, <4>3, EntryNumbers, GuesserFacts DEF GuessInv, WindowEnd
    <3> QED
      BY <3>1, <3>2
  <2>7. CASE Verify(a)
    <3>1. Guessers' \subseteq Guessers
      BY <1>0, <2>7 DEF Verify, Goto, Guessers, Is, AccountsTypeOK, Attempt
    <3> QED
      BY <2>7, <3>1, GuessersMayLeave DEF Verify
  <2>8. CASE CountFailure(a)
    BY <2>8, FailureKeepsBound
  <2>9. CASE ResetCount(a)
    <3>1. entry'.count = 0 /\ entry'.until = 0 /\ clock' = clock
      BY <2>9 DEF ResetCount, NoEntry
    <3> QED
      BY <3>1, EntryNumbers DEF GuessInv
  <2> QED
    BY <1>2, <2>1, <2>3, <2>4, <2>5, <2>6, <2>7, <2>8, <2>9 DEF AttemptStep
<1>3. CASE UNCHANGED accountVars
  <2>1. Guessers' = Guessers /\ entry' = entry /\ clock' = clock
    BY <1>3 DEF accountVars, Guessers, Is
  <2> QED
    BY <2>1, GuessersMayLeave
<1> QED
  BY <1>1, <1>2, <1>3 DEF AccountsNext

(* Guessing in parallel: however many requests fail together, one window counts *)
(* fewer than MaxFailures + 2 * Attempts of them, if the policy locks for no    *)
(* less than its window (throttleCheck and throttleFail are two calls).         *)
THEOREM GuessesAreBounded ==
  ASSUME Lockout >= Window, IsFiniteSet(Attempts)
  PROVE  AccountsSpec => []GuessesBounded
<1>1. AccountsInit => GuessInv
  BY AccountsAssumption DEF AccountsInit, GuessInv, NoEntry
<1>2. AccountsTypeOK /\ GuessInv => GuessesBounded
  BY EntryNumbers, GuesserFacts DEF GuessInv, GuessesBounded, WindowEnd
<1>3. AccountsTypeOK /\ GuessInv /\ [AccountsNext]_accountVars => GuessInv'
  BY GuessesStayBounded
<1> QED
  BY <1>1, <1>2, <1>3, OneRegistration, PTL DEF AccountsSpec
=============================================================================

--------------------------- MODULE CandidateProofs ---------------------------
(***************************************************************************)
(* What a candidate is party to: that the agent is honest, for any roles,  *)
(* rubrics and skills, any number of overlapping executions and any        *)
(* uploads in between; that a passport is of one CV unless writers overlap *)
(* or stop half-way, for any number of CVs, blank or not, and of requests; *)
(* that contests never dangle, verdicts stand and deleted roles stay       *)
(* deleted, for any pool, any number of requests and of contests.          *)
(***************************************************************************)
EXTENDS AgentRuns, Passports, Shortlists, TLAPS

-----------------------------------------------------------------------------
(* AgentRuns *)

\* An execution at work uses a profile the candidate has had since it began; the
\* role it assesses passed the gates on that profile; and it has applied to none of
\* the roles it still has before it.
RunSound(e) ==
    /\ execution[e].from <= version
    /\ execution[e].pc \in {"read", "scanning", "assessing", "created"}
         => /\ execution[e].from <= execution[e].uses /\ execution[e].uses <= version
            /\ execution[e].uses # 0
    /\ execution[e].pc = "assessing"
         => \A role \in execution[e].job : Eligible(e, role) /\ role \notin execution[e].todo
    /\ \A a \in applications : a.by = e =>
         /\ execution[e].pc \in {"scanning", "assessing", "created", "done"}
         /\ a.role \notin execution[e].todo
         /\ execution[e].pc = "assessing" => a.role \notin execution[e].job

AgentInv ==
    /\ AgentRunsTypeOK
    /\ \A e \in Executions : RunSound(e)
    /\ \A a \in applications : a.at <= version
    /\ AgentIsHonest

-----------------------------------------------------------------------------
\* What an execution does leaves the profiles and the other executions alone.
LEMMA OnlyItself ==
  ASSUME AgentRunsTypeOK, NEW e \in Executions, RunStep(e)
  PROVE  /\ versions' = versions /\ version' = version /\ openRoles' = openRoles
         /\ execution' \in [Executions -> Execution]
         /\ \A d \in Executions : d # e => execution'[d] = execution[d]
<1> USE DEF AgentRunsTypeOK
<1>0. MaxVersions \in Nat /\ 0 \in 0..MaxVersions /\ execution[e] \in Execution
  BY AgentRunsAssumption
<1> USE <1>0 DEF Execution
<1>1. CASE StartRun(e)
  BY <1>1 DEF StartRun
<1>2. CASE ReadProfile(e)
  <2>1. \E pc \in {"done", "read"} :
           execution' = [execution EXCEPT ![e].pc = pc, ![e].uses = version]
    BY <1>2 DEF ReadProfile
  <2> QED
    BY <1>2, <2>1 DEF ReadProfile
<1>3. CASE ListRoles(e)
  BY <1>3 DEF ListRoles
<1>4. ASSUME NEW role \in Roles, Consider(e, role)
      PROVE  /\ versions' = versions /\ version' = version /\ openRoles' = openRoles
             /\ execution' \in [Executions -> Execution]
             /\ \A d \in Executions : d # e => execution'[d] = execution[d]
  <2>1. PICK pc \in {"assessing", "scanning"}, job \in SUBSET Roles, todo \in SUBSET Roles :
           execution' = [execution EXCEPT ![e].todo = todo, ![e].pc = pc, ![e].job = job]
    <3>1. execution[e].todo \ {role} \in SUBSET Roles /\ {role} \in SUBSET Roles
      OBVIOUS
    <3> QED
      BY <1>4, <3>1 DEF Consider
  <2>2. [execution[e] EXCEPT !.todo = todo, !.pc = pc, !.job = job] \in Execution
    OBVIOUS
  <2>3. execution' = [execution EXCEPT ![e] = [execution[e] EXCEPT !.todo = todo, !.pc = pc,
                                                                   !.job = job]]
    BY <2>1
  <2> HIDE DEF Execution
  <2> QED
    BY <1>4, <2>2, <2>3 DEF Consider
<1>5. CASE PassOver(e)
  BY <1>5 DEF PassOver
<1>6. CASE RecordSubmission(e)
  BY <1>6 DEF RecordSubmission
<1>7. CASE EndRun(e)
  <2>1. [execution[e] EXCEPT !.pc = "done", !.uses = 0, !.todo = {}, !.job = {}] \in Execution
    OBVIOUS
  <2>2. execution' = [execution EXCEPT ![e] = [execution[e] EXCEPT !.pc = "done", !.uses = 0,
                                                                   !.todo = {}, !.job = {}]]
    BY <1>7 DEF EndRun
  <2> HIDE DEF Execution
  <2> QED
    BY <1>7, <2>1, <2>2 DEF EndRun
<1>8. ASSUME NEW claims \in SUBSET Skills, Apply(e, claims)
      PROVE  /\ versions' = versions /\ version' = version /\ openRoles' = openRoles
             /\ execution' \in [Executions -> Execution]
             /\ \A d \in Executions : d # e => execution'[d] = execution[d]
  BY <1>8 DEF Apply
<1> QED
  BY <1>1, <1>2, <1>3, <1>4, <1>5, <1>6, <1>7, <1>8 DEF RunStep

\* A step either leaves the applications alone or is a submission.
LEMMA ApplicationSteps ==
  ASSUME [AgentRunsNext]_agentVars
  PROVE  \/ applications' = applications
         \/ \E e \in Executions, claims \in SUBSET Skills : Apply(e, claims)
BY DEF AgentRunsNext, RunStep, agentVars, StartRun, ReadProfile, ListRoles, Consider, PassOver,
   RecordSubmission, EndRun, ChangeProfile, CloseRole

LEMMA ApplyFacts ==
  ASSUME AgentRunsTypeOK, NEW e \in Executions, NEW claims \in SUBSET Skills, Apply(e, claims)
  PROVE  /\ execution[e].pc = "assessing" /\ execution'[e].pc = "created"
         /\ execution'[e].from = execution[e].from /\ execution'[e].uses = execution[e].uses
         /\ execution'[e].todo = execution[e].todo
         /\ \E role \in execution[e].job :
               /\ Grounded(claims, role, versions[execution[e].uses])
               /\ applications' = applications \cup
                     {[role |-> role, by |-> e, claims |-> claims, at |-> version]}
BY DEF Apply, AgentRunsTypeOK, Execution

LEMMA AgentRunsType ==
  ASSUME AgentRunsTypeOK, [AgentRunsNext]_agentVars
  PROVE  AgentRunsTypeOK'
<1> USE AgentRunsAssumption DEF AgentRunsTypeOK
<1>1. ASSUME NEW e \in Executions, RunStep(e) PROVE AgentRunsTypeOK'
  <2>1. /\ versions' = versions /\ version' = version /\ openRoles' = openRoles
        /\ execution' \in [Executions -> Execution]
    BY <1>1, OnlyItself
  <2>2. applications' \subseteq Application /\ audited' \subseteq applications'
    <3>1. ASSUME NEW claims \in SUBSET Skills, Apply(e, claims)
          PROVE  applications' \subseteq Application /\ audited' \subseteq applications'
      <4>1. PICK role \in execution[e].job :
               applications' = applications \cup
                 {[role |-> role, by |-> e, claims |-> claims, at |-> version]}
        BY <3>1, ApplyFacts
      <4>2. role \in Roles
        BY DEF Execution
      <4> QED
        BY <3>1, <4>1, <4>2 DEF Apply, Application
    <3>2. CASE RecordSubmission(e)
      BY <3>2 DEF RecordSubmission
    <3>3. CASE applications' = applications /\ audited' = audited
      BY <3>3
    <3>4. \/ applications' = applications /\ audited' = audited
          \/ RecordSubmission(e)
          \/ \E claims \in SUBSET Skills : Apply(e, claims)
      BY <1>1 DEF RunStep, StartRun, ReadProfile, ListRoles, Consider, PassOver, EndRun
    <3> QED
      BY <3>1, <3>2, <3>3, <3>4
  <2> QED
    BY <2>1, <2>2
<1>2. ASSUME NEW skills \in SUBSET Skills, ChangeProfile(skills) PROVE AgentRunsTypeOK'
  BY <1>2 DEF ChangeProfile
<1>3. ASSUME NEW role \in openRoles, CloseRole(role) PROVE AgentRunsTypeOK'
  BY <1>3 DEF CloseRole
<1>4. CASE UNCHANGED agentVars
  BY <1>4 DEF agentVars
<1> QED
  BY <1>1, <1>2, <1>3, <1>4 DEF AgentRunsNext

\* Profiles are only ever added, and an execution that has begun keeps its start.
LEMMA HistoryStands ==
  ASSUME AgentRunsTypeOK, [AgentRunsNext]_agentVars
  PROVE  /\ version <= version'
         /\ \A v \in 1..version : versions'[v] = versions[v]
         /\ \A e \in Executions : execution[e].pc # "new" => execution'[e].from = execution[e].from
<1> USE AgentRunsAssumption DEF AgentRunsTypeOK
<1>1. ASSUME NEW e \in Executions, RunStep(e)
      PROVE  execution[e].pc # "new" => execution'[e].from = execution[e].from
  <2>0. execution[e] \in Execution
    OBVIOUS
  <2>1. CASE StartRun(e)
    BY <2>1 DEF StartRun
  <2>2. CASE ReadProfile(e) \/ ListRoles(e)
    BY <2>0, <2>2 DEF ReadProfile, ListRoles, Execution
  <2>3. ASSUME NEW role \in Roles, Consider(e, role) PROVE execution'[e].from = execution[e].from
    BY <2>0, <2>3 DEF Consider, Execution
  <2>4. CASE PassOver(e) \/ RecordSubmission(e)
    BY <2>0, <2>4 DEF PassOver, RecordSubmission, Execution
  <2>5. CASE EndRun(e)
    BY <2>0, <2>5 DEF EndRun, Execution
  <2>6. ASSUME NEW claims \in SUBSET Skills, Apply(e, claims)
        PROVE  execution'[e].from = execution[e].from
    BY <2>6, ApplyFacts
  <2> QED
    BY <1>1, <2>1, <2>2, <2>3, <2>4, <2>5, <2>6 DEF RunStep
<1>2. ASSUME NEW e \in Executions, RunStep(e)
      PROVE  /\ version <= version'
             /\ \A v \in 1..version : versions'[v] = versions[v]
             /\ \A d \in Executions : execution[d].pc # "new" => execution'[d].from = execution[d].from
  BY <1>1, <1>2, OnlyItself
<1>3. ASSUME NEW skills \in SUBSET Skills, ChangeProfile(skills)
      PROVE  /\ version <= version' /\ execution' = execution
             /\ \A v \in 1..version : versions'[v] = versions[v]
  BY <1>3 DEF ChangeProfile
<1>4. ASSUME NEW role \in openRoles, CloseRole(role)
      PROVE  version' = version /\ execution' = execution /\ versions' = versions
  BY <1>4 DEF CloseRole
<1>5. CASE UNCHANGED agentVars
  BY <1>5 DEF agentVars
<1> QED
  BY <1>2, <1>3, <1>4, <1>5 DEF AgentRunsNext

\* An application stays as honest as it was: the execution keeps its start, and the
\* profiles up to the time of the application keep their skills.
LEMMA HonestyStands ==
  ASSUME AgentInv, [AgentRunsNext]_agentVars, NEW a \in applications
  PROVE  \E v \in (execution'[a.by].from..a.at) \ {0} :
            /\ Needs[a.role] \subseteq versions'[v]
            /\ a.claims \cap Rubric[a.role] \subseteq versions'[v]
<1>1. a.by \in Executions /\ a.at \in Nat /\ a.at <= version
  BY AgentRunsAssumption DEF AgentInv, AgentRunsTypeOK, Application
<1>2. execution[a.by].from \in Nat /\ version \in Nat
  BY <1>1, AgentRunsAssumption DEF AgentInv, AgentRunsTypeOK, Execution
<1>3. execution[a.by].pc # "new"
  BY <1>1 DEF AgentInv, RunSound
<1>4. PICK v \in (execution[a.by].from..a.at) \ {0} :
         /\ Needs[a.role] \subseteq versions[v]
         /\ a.claims \cap Rubric[a.role] \subseteq versions[v]
  BY DEF AgentInv, AgentIsHonest
<1>5. v \in 1..version
  BY <1>1, <1>2, <1>4
<1>6. execution'[a.by].from = execution[a.by].from /\ versions'[v] = versions[v]
  BY <1>1, <1>3, <1>5, HistoryStands DEF AgentInv
<1> QED
  BY <1>4, <1>6

LEMMA StillHonest ==
  ASSUME AgentInv, [AgentRunsNext]_agentVars
  PROVE  AgentIsHonest' /\ \A a \in applications' : a.at <= version'
<1>1. version \in Nat /\ version' \in Nat /\ version <= version'
  BY AgentRunsType, HistoryStands, AgentRunsAssumption DEF AgentInv, AgentRunsTypeOK
<1>2. \A a \in applications : a.at \in Nat /\ a.at <= version'
  <2> TAKE a \in applications
  <2>1. a.at \in Nat /\ a.at <= version
    BY AgentRunsAssumption DEF AgentInv, AgentRunsTypeOK, Application
  <2> QED
    BY <1>1, <2>1
<1>3. \A a \in applications :
        /\ a.role \in Compatible
        /\ \A b \in applications : b.by = a.by /\ b.role = a.role => b = a
  BY DEF AgentInv, AgentIsHonest
<1>4. CASE applications' = applications
  BY <1>2, <1>3, <1>4, HonestyStands DEF AgentIsHonest
<1>5. ASSUME NEW e \in Executions, NEW claims \in SUBSET Skills, Apply(e, claims)
      PROVE  AgentIsHonest' /\ \A a \in applications' : a.at <= version'
  <2>1. AgentRunsTypeOK
    BY DEF AgentInv
  <2>2. PICK role \in execution[e].job :
           /\ Grounded(claims, role, versions[execution[e].uses])
           /\ applications' = applications \cup
                 {[role |-> role, by |-> e, claims |-> claims, at |-> version]}
    BY <1>5, <2>1, ApplyFacts
  <2> DEFINE new == [role |-> role, by |-> e, claims |-> claims, at |-> version]
             v   == execution[e].uses
  <2>3. version' = version /\ versions' = versions /\ execution'[e].from = execution[e].from
    BY <1>5, <2>1, ApplyFacts DEF Apply
  <2>4. /\ execution[e].from <= v /\ v <= version /\ v # 0
        /\ Eligible(e, role)
        /\ \A a \in applications : a.by = e => a.role # role
    BY <1>5, <2>1, <2>2, ApplyFacts DEF AgentInv, RunSound
  <2>5. execution[e].from \in Nat /\ v \in Nat
    BY <2>1, AgentRunsAssumption DEF AgentRunsTypeOK, Execution
  <2>6. /\ new.role = role /\ new.by = e /\ new.claims = claims /\ new.at = version
    OBVIOUS
  <2>7. /\ role \in Compatible
        /\ v \in (execution'[e].from..version) \ {0}
        /\ Needs[role] \subseteq versions'[v]
        /\ claims \cap Rubric[role] \subseteq versions'[v]
    BY <1>1, <2>2, <2>3, <2>4, <2>5 DEF Eligible, CoversMustHaves, Grounded
  <2>8. /\ new.at <= version'
        /\ new.role \in Compatible
        /\ \E w \in (execution'[new.by].from..new.at) \ {0} :
              /\ Needs[new.role] \subseteq versions'[w]
              /\ new.claims \cap Rubric[new.role] \subseteq versions'[w]
    BY <1>1, <2>3, <2>6, <2>7
  <2>9. \A a \in applications : ~(a.by = new.by /\ a.role = new.role)
    BY <2>4, <2>6
  <2> HIDE DEF new
  <2>10. applications' = applications \cup {new}
    BY <2>2 DEF new
  <2> QED
    BY <1>2, <1>3, <2>8, <2>9, <2>10, HonestyStands DEF AgentIsHonest
<1> QED
  BY <1>4, <1>5, ApplicationSteps

LEMMA RunsStaySound ==
  ASSUME AgentInv, [AgentRunsNext]_agentVars
  PROVE  \A e \in Executions : RunSound(e)'
<1> USE AgentRunsAssumption
<1>0. AgentRunsTypeOK /\ \A e \in Executions : RunSound(e)
  BY DEF AgentInv
\* An execution to which nothing happens.
<1>1. ASSUME NEW d \in Executions, execution'[d] = execution[d],
             \A a \in applications' : a.by = d => a \in applications
      PROVE  RunSound(d)'
  <2>1. /\ version <= version' /\ version \in Nat /\ version' \in Nat
        /\ execution[d].from \in Nat /\ execution[d].uses \in Nat
    BY <1>0, HistoryStands, AgentRunsType DEF AgentRunsTypeOK, Execution
  <2>2. RunSound(d)
    BY <1>0
  <2>3. execution'[d].from <= version'
    BY <1>1, <2>1, <2>2 DEF RunSound
  <2>4. execution'[d].pc \in {"read", "scanning", "assessing", "created"}
          => /\ execution'[d].from <= execution'[d].uses /\ execution'[d].uses <= version'
             /\ execution'[d].uses # 0
    BY <1>1, <2>1, <2>2 DEF RunSound
  <2>5. execution'[d].pc = "assessing" => execution[d].uses \in 1..version
    BY <1>1, <2>1, <2>2 DEF RunSound
  <2>6. execution'[d].pc = "assessing" => versions'[execution'[d].uses] = versions[execution[d].uses]
    BY <1>0, <1>1, <2>5, HistoryStands
  <2>7. execution'[d].pc = "assessing"
          => \A role \in execution'[d].job :
               /\ role \in Compatible /\ CoversMustHaves(versions'[execution'[d].uses], role)
               /\ role \notin execution'[d].todo
    BY <1>1, <2>2, <2>6 DEF RunSound, Eligible
  <2>8. \A a \in applications' : a.by = d =>
          /\ execution'[d].pc \in {"scanning", "assessing", "created", "done"}
          /\ a.role \notin execution'[d].todo
          /\ execution'[d].pc = "assessing" => a.role \notin execution'[d].job
    BY <1>1, <2>2 DEF RunSound
  <2> QED
    BY <2>3, <2>4, <2>7, <2>8 DEF RunSound, Eligible
<1>2. ASSUME NEW e \in Executions, RunStep(e) PROVE RunSound(e)'
  <2>0. /\ versions' = versions /\ version' = version /\ version \in Nat
        /\ execution[e] \in Execution /\ RunSound(e)
        /\ execution[e].from \in Nat /\ execution[e].uses \in Nat
    BY <1>0, <1>2, OnlyItself DEF AgentRunsTypeOK, Execution
  <2> USE <2>0 DEF RunSound
  <2>1. CASE StartRun(e)
    <3>1. /\ execution[e].pc = "new" /\ applications' = applications
          /\ execution'[e].pc = "begun" /\ execution'[e].from = version
      BY <1>0, <2>1 DEF StartRun, AgentRunsTypeOK, Execution
    <3> QED
      BY <3>1
  <2>2. CASE ReadProfile(e)
    <3>1. /\ execution[e].pc = "begun" /\ applications' = applications
          /\ execution'[e].pc = (IF version = 0 THEN "done" ELSE "read")
          /\ execution'[e].from = execution[e].from /\ execution'[e].uses = version
      BY <1>0, <2>2 DEF ReadProfile, AgentRunsTypeOK, Execution
    <3> QED
      BY <3>1
  <2>3. CASE ListRoles(e)
    <3>1. /\ execution[e].pc = "read" /\ applications' = applications
          /\ execution'[e].pc = "scanning"
          /\ execution'[e].from = execution[e].from /\ execution'[e].uses = execution[e].uses
      BY <1>0, <2>3 DEF ListRoles, AgentRunsTypeOK, Execution
    <3> QED
      BY <3>1
  <2>4. ASSUME NEW role \in Roles, Consider(e, role) PROVE RunSound(e)'
    <3>1. /\ execution[e].pc = "scanning" /\ applications' = applications
          /\ role \in execution[e].todo
          /\ execution'[e].from = execution[e].from /\ execution'[e].uses = execution[e].uses
          /\ execution'[e].todo = execution[e].todo \ {role}
          /\ \/ /\ Eligible(e, role)
                /\ execution'[e].pc = "assessing" /\ execution'[e].job = {role}
             \/ execution'[e].pc = "scanning"
      BY <1>0, <2>4 DEF Consider, AgentRunsTypeOK, Execution
    <3>2. execution'[e].pc = "assessing"
            => \A r \in execution'[e].job : Eligible(e, r)' /\ r \notin execution'[e].todo
      BY <3>1 DEF Eligible
    <3> QED
      BY <3>1, <3>2
  <2>5. CASE PassOver(e)
    <3>1. /\ execution[e].pc = "assessing" /\ applications' = applications
          /\ execution'[e].pc = "scanning" /\ execution'[e].todo = execution[e].todo
          /\ execution'[e].from = execution[e].from /\ execution'[e].uses = execution[e].uses
      BY <1>0, <2>5 DEF PassOver, AgentRunsTypeOK, Execution
    <3> QED
      BY <3>1
  <2>6. CASE RecordSubmission(e)
    <3>1. /\ execution[e].pc = "created" /\ applications' = applications
          /\ execution'[e].pc = "scanning" /\ execution'[e].todo = execution[e].todo
          /\ execution'[e].from = execution[e].from /\ execution'[e].uses = execution[e].uses
      BY <1>0, <2>6 DEF RecordSubmission, AgentRunsTypeOK, Execution
    <3> QED
      BY <3>1
  <2>7. CASE EndRun(e)
    <3>1. /\ execution'[e].pc = "done" /\ execution'[e].todo = {}
          /\ execution'[e].from = execution[e].from /\ applications' = applications
      BY <1>0, <2>7 DEF EndRun, AgentRunsTypeOK, Execution
    <3> QED
      BY <3>1
  <2>8. ASSUME NEW claims \in SUBSET Skills, Apply(e, claims) PROVE RunSound(e)'
    <3>1. /\ execution[e].pc = "assessing" /\ execution'[e].pc = "created"
          /\ execution'[e].from = execution[e].from /\ execution'[e].uses = execution[e].uses
          /\ execution'[e].todo = execution[e].todo
      BY <1>0, <2>8, ApplyFacts
    <3>2. \A a \in applications' : a \in applications \/ a.role \in execution[e].job
      BY <1>0, <2>8, ApplyFacts
    <3> QED
      BY <3>1, <3>2
  <2> QED
    BY <1>2, <2>1, <2>2, <2>3, <2>4, <2>5, <2>6, <2>7, <2>8 DEF RunStep
<1>3. ASSUME NEW e \in Executions, RunStep(e), NEW d \in Executions, d # e
      PROVE  RunSound(d)'
  <2>1. execution'[d] = execution[d]
    BY <1>0, <1>3, OnlyItself
  <2>2. \A a \in applications' : a.by = d => a \in applications
    <3>1. ASSUME NEW claims \in SUBSET Skills, Apply(e, claims)
          PROVE  \A a \in applications' : a \in applications \/ a.by = e
      BY <1>0, <3>1, ApplyFacts
    <3>2. applications' = applications \/ \E claims \in SUBSET Skills : Apply(e, claims)
      BY <1>3 DEF RunStep, StartRun, ReadProfile, ListRoles, Consider, PassOver, RecordSubmission,
         EndRun
    <3> QED
      BY <1>3, <3>1, <3>2
  <2> QED
    BY <1>1, <2>1, <2>2
<1>4. CASE execution' = execution /\ applications' = applications
  BY <1>1, <1>4
<1>5. \/ \E e \in Executions : RunStep(e)
      \/ execution' = execution /\ applications' = applications
  BY DEF AgentRunsNext, ChangeProfile, CloseRole, agentVars
<1> QED
  BY <1>2, <1>3, <1>4, <1>5

-----------------------------------------------------------------------------
(* The agent is honest: every application is backed by one profile the         *)
(* candidate had while the execution ran, and an execution applies to a role   *)
(* once (Runner.Run; CheckGrounding, MustHavesMet).                            *)
THEOREM AgentStaysHonest == AgentRunsSpec => [](AgentRunsTypeOK /\ AgentIsHonest)
<1>1. AgentRunsInit => AgentInv
  <2> SUFFICES ASSUME AgentRunsInit PROVE AgentInv
    OBVIOUS
  <2>1. AgentRunsTypeOK
    BY AgentRunsAssumption DEF AgentRunsInit, AgentRunsTypeOK, Execution
  <2>2. \A e \in Executions : RunSound(e)
    BY AgentRunsAssumption DEF AgentRunsInit, RunSound
  <2> QED
    BY <2>1, <2>2 DEF AgentInv, AgentRunsInit, AgentIsHonest
<1>2. AgentInv /\ [AgentRunsNext]_agentVars => AgentInv'
  <2> SUFFICES ASSUME AgentInv, [AgentRunsNext]_agentVars PROVE AgentInv'
    OBVIOUS
  <2>1. AgentRunsTypeOK'
    BY AgentRunsType DEF AgentInv
  <2>2. (\A e \in Executions : RunSound(e))'
    BY RunsStaySound
  <2> QED
    BY <2>1, <2>2, StillHonest DEF AgentInv
<1>3. AgentInv => AgentRunsTypeOK /\ AgentIsHonest
  BY DEF AgentInv
<1> QED
  BY <1>1, <1>2, <1>3, PTL DEF AgentRunsSpec

-----------------------------------------------------------------------------
(* Passports *)

Merges(w) == writer[w].kind = "upload" /\ writer[w].pc \in {"merged", "read"}

\* What a request is at, by its kind.
WritersAreSound ==
    \A w \in Writers :
       /\ writer[w].kind = "upload" => writer[w].cv \in CVs /\ writer[w].pc \in {"drafted", "merged", "read"}
       /\ writer[w].kind = "screening" => writer[w].cv = 0 /\ writer[w].pc = "read" /\ writer[w].row # 0
       /\ writer[w].kind = "none" => writer[w].pc = "idle"

\* Without disturbance one upload at most is between its two writes, the intake is
\* its CV's, and nobody works on a row that is not the candidate's only one.
OneAtATime ==
    ~disturbed =>
       /\ Profiles \subseteq {1}
       /\ \A v, w \in Writers : Merges(v) /\ Merges(w) => v = w
       /\ \A w \in Writers : Merges(w) => intake = writer[w].cv
       /\ \A w \in Writers : writer[w].pc = "read" /\ writer[w].row # 0 => writer[w].row \in Profiles
       /\ screened => Profiles # {}

PassportsInv == PassportsTypeOK /\ WritersAreSound /\ OneAtATime /\ PassportIsOfOneCV

-----------------------------------------------------------------------------
LEMMA PassportFacts ==
  /\ 0 \in CV /\ CVs \subseteq CV /\ 0 \notin CVs
  /\ \A cv \in CV : VectorOf(cv) \in CV
  /\ NoProfile \in ProfileRow /\ NoWriter \in Writer
  /\ MaxProfiles \in Nat /\ 1 \in 1..MaxProfiles
BY PassportsAssumption DEF CV, VectorOf, NoProfile, ProfileRow, NoWriter, Writer

\* A step of one writer: what it leaves of the others.
LEMMA WriterMoves ==
  ASSUME PassportsTypeOK, NEW w \in Writers, NEW x \in Writer, writer' = [writer EXCEPT ![w] = x]
  PROVE  /\ writer' \in [Writers -> Writer] /\ writer'[w] = x
         /\ \A v \in Writers : v # w => writer'[v] = writer[v]
BY DEF PassportsTypeOK

\* Merging is what Merges is about.
LEMMA MergingMerges ==
  ASSUME WritersAreSound
  PROVE  Merging <=> \E w \in Writers : Merges(w)
BY DEF WritersAreSound, Merging, Merges

LEMMA DraftStep ==
  ASSUME PassportsInv, NEW w \in Writers, NEW cv \in CVs, DraftProfile(w, cv)
  PROVE  PassportsInv'
<1> DEFINE x == [NoWriter EXCEPT !.kind = "upload", !.pc = "drafted", !.cv = cv]
<1>1. x \in Writer /\ x.kind = "upload" /\ x.pc = "drafted" /\ x.cv = cv /\ x.row = 0
  BY PassportFacts DEF NoWriter, Writer
<1>2. /\ writer' = [writer EXCEPT ![w] = x] /\ writer[w] = NoWriter
      /\ UNCHANGED <<profile, intake, screened, disturbed>>
  BY DEF DraftProfile
<1>3. ~Merges(w) /\ Profiles' = Profiles
  BY <1>2 DEF Merges, NoWriter, Profiles
<1> HIDE DEF x
<1>4. /\ writer' \in [Writers -> Writer] /\ writer'[w] = x
      /\ \A v \in Writers : v # w => writer'[v] = writer[v]
  BY <1>1, <1>2, WriterMoves DEF PassportsInv
<1>5. \A v \in Writers : Merges(v)' <=> Merges(v)
  BY <1>1, <1>3, <1>4 DEF Merges
<1>6. PassportsTypeOK' /\ WritersAreSound'
  BY <1>1, <1>2, <1>4 DEF PassportsInv, PassportsTypeOK, WritersAreSound
<1>7. OneAtATime'
  BY <1>1, <1>2, <1>3, <1>4, <1>5 DEF PassportsInv, OneAtATime, Merges
<1>8. Merging' <=> Merging
  BY <1>5, <1>6, MergingMerges DEF PassportsInv, Merging, Merges, WritersAreSound
<1> QED
  BY <1>2, <1>3, <1>6, <1>7, <1>8 DEF PassportsInv, PassportIsOfOneCV

LEMMA MergeStep ==
  ASSUME PassportsInv, NEW w \in Writers, MergeIntake(w)
  PROVE  PassportsInv'
<1> DEFINE x == [writer[w] EXCEPT !.pc = "merged"]
<1>0. writer[w] \in Writer /\ writer[w].kind = "upload" /\ writer[w].cv \in CVs /\ ~Merges(w)
      /\ writer[w].pc = "drafted"
  BY DEF MergeIntake, PassportsInv, PassportsTypeOK, WritersAreSound, Writer, Merges
<1>1. x \in Writer /\ x.kind = "upload" /\ x.pc = "merged" /\ x.cv = writer[w].cv /\ x.row = writer[w].row
  BY <1>0 DEF Writer
<1>2. /\ writer' = [writer EXCEPT ![w] = x] /\ intake' = x.cv
      /\ UNCHANGED <<profile, screened>> /\ Profiles' = Profiles
      /\ disturbed' = (disturbed \/ \E v \in Writers : writer[v].cv # 0 /\ writer[v].pc \in {"merged", "read"})
  BY <1>1 DEF MergeIntake, Profiles
<1> HIDE DEF x
<1>4. /\ writer' \in [Writers -> Writer] /\ writer'[w] = x
      /\ \A v \in Writers : v # w => writer'[v] = writer[v]
  BY <1>1, <1>2, WriterMoves DEF PassportsInv
<1>5. PassportsTypeOK' /\ WritersAreSound'
  BY <1>0, <1>1, <1>2, <1>4, PassportFacts DEF PassportsInv, PassportsTypeOK, WritersAreSound
<1>6. ~disturbed' => ~disturbed /\ \A v \in Writers : ~Merges(v)
  BY <1>2, PassportFacts DEF PassportsInv, WritersAreSound, Merges
<1>7. OneAtATime'
  BY <1>1, <1>2, <1>4, <1>6 DEF PassportsInv, OneAtATime, Merges
<1>8. Merging'
  BY <1>1, <1>4 DEF Merging
<1> QED
  BY <1>2, <1>5, <1>6, <1>7, <1>8 DEF PassportsInv, PassportIsOfOneCV

LEMMA ReadStep ==
  ASSUME PassportsInv, NEW w \in Writers, ReadForUpload(w) \/ ReadForScreening(w)
  PROVE  PassportsInv'
<1>1. \E x \in Writer : /\ writer' = [writer EXCEPT ![w] = x]
                        /\ x.pc = "read" /\ x.row \in Profiles \cup {0}
                        /\ \/ x.kind = "upload" /\ Merges(w) /\ x.cv = writer[w].cv
                           \/ x.kind = "screening" /\ x.cv = 0 /\ x.row # 0 /\ ~Merges(w)
  <2>0. /\ Profiles \subseteq 1..MaxProfiles /\ 0 \notin 1..MaxProfiles
        /\ \A r \in Profiles : profile[r] \in ProfileRow
        /\ writer[w] \in Writer
    BY PassportFacts DEF Profiles, PassportsInv, PassportsTypeOK
  <2>1. CASE ReadForUpload(w)
    <3>1. PICK r \in Profiles \cup {0} :
             writer' = [writer EXCEPT ![w].pc = "read", ![w].row = r,
                                      ![w].copy = IF r = 0 THEN NoProfile ELSE profile[r]]
      BY <2>1 DEF ReadForUpload
    <3> DEFINE copy == IF r = 0 THEN NoProfile ELSE profile[r]
               x == [writer[w] EXCEPT !.pc = "read", !.row = r, !.copy = copy]
    <3>2. copy \in ProfileRow /\ r \in 0..MaxProfiles
      BY <2>0, PassportFacts
    <3>3. writer' = [writer EXCEPT ![w] = x]
      BY <3>1
    <3>4. Merges(w) /\ writer[w].kind = "upload"
      BY <2>0, <2>1 DEF ReadForUpload, Merges, PassportsInv, WritersAreSound, Writer
    <3> HIDE DEF copy
    <3>5. x \in Writer /\ x.pc = "read" /\ x.row = r /\ x.kind = "upload" /\ x.cv = writer[w].cv
      BY <2>0, <3>2, <3>4 DEF Writer
    <3> QED
      BY <3>3, <3>4, <3>5
  <2>2. CASE ReadForScreening(w)
    <3>1. PICK r \in Profiles :
             writer' = [writer EXCEPT ![w] = [NoWriter EXCEPT !.kind = "screening", !.pc = "read",
                                                              !.row = r, !.copy = profile[r]]]
      BY <2>2 DEF ReadForScreening
    <3> DEFINE x == [NoWriter EXCEPT !.kind = "screening", !.pc = "read",
                                     !.row = r, !.copy = profile[r]]
    <3>2. r # 0 /\ r \in 0..MaxProfiles /\ profile[r] \in ProfileRow
      BY <2>0, PassportFacts
    <3>3. x \in Writer /\ x.pc = "read" /\ x.row = r /\ x.kind = "screening" /\ x.cv = 0
      BY <3>2, PassportFacts DEF NoWriter, Writer
    <3>4. writer[w] = NoWriter /\ NoWriter.kind = "none"
      BY <2>2 DEF ReadForScreening, NoWriter
    <3>5. ~Merges(w)
      BY <3>4 DEF Merges
    <3> HIDE DEF x
    <3>6. writer' = [writer EXCEPT ![w] = x]
      BY <3>1 DEF x
    <3> QED
      BY <3>2, <3>3, <3>5, <3>6
  <2> QED
    BY <2>1, <2>2
<1>2. PICK x \in Writer : /\ writer' = [writer EXCEPT ![w] = x]
                          /\ x.pc = "read" /\ x.row \in Profiles \cup {0}
                          /\ \/ x.kind = "upload" /\ Merges(w) /\ x.cv = writer[w].cv
                             \/ x.kind = "screening" /\ x.cv = 0 /\ x.row # 0 /\ ~Merges(w)
  BY <1>1
<1>3. /\ UNCHANGED <<profile, intake, screened>> /\ Profiles' = Profiles
      /\ disturbed' \in BOOLEAN /\ (~disturbed' => ~disturbed)
  <2>1. UNCHANGED <<profile, intake, screened>> /\ Profiles' = Profiles
    BY DEF ReadForUpload, ReadForScreening, Profiles
  <2>2. disturbed' = disturbed \/ \E r : disturbed' = (disturbed \/ (r = 0 /\ Profiles # {}))
    BY Zenon DEF ReadForUpload, ReadForScreening
  <2>3. disturbed \in BOOLEAN
    BY DEF PassportsInv, PassportsTypeOK
  <2>4. ASSUME NEW r, disturbed' = (disturbed \/ (r = 0 /\ Profiles # {}))
        PROVE  disturbed' \in BOOLEAN /\ (~disturbed' => ~disturbed)
    BY <2>4, Zenon
  <2> QED
    BY <2>1, <2>2, <2>3, <2>4, Zenon
<1>4. /\ writer' \in [Writers -> Writer] /\ writer'[w] = x
      /\ \A v \in Writers : v # w => writer'[v] = writer[v]
  BY <1>2, WriterMoves DEF PassportsInv
<1>5. \A v \in Writers : Merges(v)' <=> Merges(v)
  BY <1>2, <1>4 DEF Merges
<1>6. PassportsTypeOK' /\ WritersAreSound'
  BY <1>2, <1>3, <1>4 DEF PassportsInv, PassportsTypeOK, WritersAreSound, Merges
<1>7. OneAtATime'
  BY <1>2, <1>3, <1>4, <1>5 DEF PassportsInv, OneAtATime, Merges
<1>8. Merging' <=> Merging
  BY <1>5, <1>6 DEF PassportsInv, Merging, Merges, WritersAreSound
<1> QED
  BY <1>3, <1>6, <1>7, <1>8 DEF PassportsInv, PassportIsOfOneCV

\* The row is written and its writer is done.
LEMMA UpdateStep ==
  ASSUME PassportsInv, NEW w \in Writers, UpdateProfile(w)
  PROVE  PassportsInv'
<1> DEFINE r == writer[w].row
           copy == writer[w].copy
           old == profile[r]
           upload == writer[w].kind = "upload"
           new == IF upload THEN Replacing(copy, writer[w].cv)
                  ELSE [copy EXCEPT !.status = "screened", !.vector = 0]
           row == [new EXCEPT !.vector = KeepVector(old.vector, @)]
<1>0. /\ writer[w] \in Writer /\ copy \in ProfileRow /\ writer[w].pc = "read" /\ r # 0
      /\ writer[w].kind \in {"upload", "screening"}
      /\ upload => writer[w].cv \in CVs
      /\ r \in 1..MaxProfiles /\ old \in ProfileRow /\ profile \in [1..MaxProfiles -> ProfileRow]
  <2>1. writer[w] \in Writer /\ writer[w].pc = "read" /\ r # 0
    BY DEF UpdateProfile, PassportsInv, PassportsTypeOK
  <2>2. copy \in ProfileRow /\ r \in 0..MaxProfiles /\ writer[w].kind \in {"none", "upload", "screening"}
    BY <2>1 DEF Writer
  <2>3. r \in 1..MaxProfiles
    BY <2>1, <2>2, PassportFacts
  <2> QED
    BY <2>1, <2>2, <2>3 DEF PassportsInv, PassportsTypeOK, WritersAreSound
<1>1. /\ profile' = [profile EXCEPT ![r] = row]
      /\ screened' = IF upload THEN screened ELSE TRUE
      /\ writer' = [writer EXCEPT ![w] = NoWriter] /\ intake' = intake
      /\ disturbed' = (disturbed \/ copy # old)
  BY DEF UpdateProfile, Save
<1>2. new \in ProfileRow /\ new.status = (IF upload THEN copy.status ELSE "screened")
      /\ new.text = (IF upload THEN writer[w].cv ELSE copy.text)
      /\ new.vector = (IF upload THEN VectorOf(writer[w].cv) ELSE 0)
  <2>1. CASE upload
    <3>1. new = [text |-> writer[w].cv, vector |-> VectorOf(writer[w].cv), status |-> copy.status]
      BY <2>1 DEF Replacing
    <3>2. writer[w].cv \in CV /\ VectorOf(writer[w].cv) \in CV /\ copy.status \in {"none", "cv_only", "screened"}
      BY <1>0, <2>1, PassportFacts DEF ProfileRow
    <3> HIDE DEF new
    <3> QED
      BY <2>1, <3>1, <3>2 DEF ProfileRow
  <2>2. CASE ~upload
    BY <1>0, <2>2, PassportFacts DEF ProfileRow
  <2> QED
    BY <2>1, <2>2
<1> HIDE DEF new
<1>3. row \in ProfileRow /\ row.status = new.status /\ row.text = new.text
      /\ row.vector = (IF new.vector = 0 THEN old.vector ELSE new.vector)
  <2>1. KeepVector(old.vector, new.vector) \in CV
    BY <1>0, <1>2 DEF ProfileRow, KeepVector
  <2> QED
    BY <1>2, <2>1 DEF ProfileRow, KeepVector
<1> HIDE DEF row, old, copy, upload
<1>4. /\ profile' \in [1..MaxProfiles -> ProfileRow] /\ profile'[r] = row
      /\ \A s \in 1..MaxProfiles : s # r => profile'[s] = profile[s]
  BY <1>0, <1>1, <1>3
<1>5. /\ writer' \in [Writers -> Writer] /\ writer'[w] = NoWriter
      /\ \A v \in Writers : v # w => writer'[v] = writer[v]
  BY <1>1, PassportFacts, WriterMoves DEF PassportsInv
<1>6. NoWriter.kind = "none" /\ NoWriter.pc = "idle" /\ NoWriter.cv = 0
  BY DEF NoWriter
<1>7. disturbed' \in BOOLEAN /\ (~disturbed' => ~disturbed /\ copy = old)
  BY <1>1, Zenon
<1>8. PassportsTypeOK' /\ WritersAreSound'
  <2>1. intake' \in CV /\ screened' \in BOOLEAN
    BY <1>1 DEF PassportsInv, PassportsTypeOK
  <2> QED
    BY <1>4, <1>5, <1>6, <1>7, <2>1 DEF PassportsInv, PassportsTypeOK, WritersAreSound
\* With the row undisturbed: it is the only one, and is still one.
<1>9. ASSUME ~disturbed'
      PROVE  /\ r = 1 /\ r \in Profiles /\ Profiles' = {1}
             /\ screened' => row.status = "screened"
             /\ row.vector = row.text \/ row.text \in Blank
             /\ upload => intake = row.text /\ \A v \in Writers : ~Merges(v)'
             /\ ~upload => row.text = old.text
  <2>1. ~disturbed /\ copy = old
    BY <1>7, <1>9
  <2>2. r = 1 /\ r \in Profiles
    BY <1>0, <2>1 DEF PassportsInv, OneAtATime
  <2>3. /\ old.vector = old.text \/ old.text \in Blank
        /\ screened => old.status = "screened"
        /\ old.status # "none" \/ old.text # 0 \/ old.vector # 0
    <3>1. old # NoProfile
      BY <2>2 DEF Profiles, old
    <3>2. old = [text |-> old.text, vector |-> old.vector, status |-> old.status]
      BY <1>0 DEF ProfileRow
    <3>3. old.status # "none" \/ old.text # 0 \/ old.vector # 0
      BY <3>1, <3>2 DEF NoProfile
    <3> QED
      BY <2>1, <2>2, <3>3 DEF PassportsInv, PassportIsOfOneCV, old
  <2>4. screened' => row.status = "screened"
    BY <1>1, <1>2, <1>3, <2>1, <2>3
  <2>5. row.vector = row.text \/ row.text \in Blank
    <3>1. CASE upload
      <4>1. row.text = writer[w].cv /\ new.vector = VectorOf(writer[w].cv) /\ writer[w].cv # 0
        BY <1>0, <1>2, <1>3, <3>1, PassportFacts
      <4> QED
        BY <1>3, <4>1 DEF VectorOf
    <3>2. CASE ~upload
      BY <1>2, <1>3, <2>1, <2>3, <3>2
    <3> QED
      BY <3>1, <3>2
  <2>6. ASSUME upload PROVE intake = row.text /\ \A v \in Writers : ~Merges(v)'
    <3>1. Merges(w)
      BY <1>0, <2>6 DEF Merges, upload
    <3>2. intake = row.text
      BY <1>2, <1>3, <2>1, <2>6, <3>1 DEF PassportsInv, OneAtATime
    <3>3. \A v \in Writers : v # w => ~Merges(v)
      BY <2>1, <3>1 DEF PassportsInv, OneAtATime
    <3> QED
      BY <1>5, <1>6, <3>2, <3>3 DEF Merges
  <2>7. row # NoProfile
    <3>1. row.text # 0 \/ row.status # "none"
      <4>1. CASE upload
        BY <1>0, <1>2, <1>3, <4>1, PassportFacts
      <4>2. CASE ~upload
        BY <1>2, <1>3, <4>2
      <4> QED
        BY <4>1, <4>2
    <3> QED
      BY <3>1 DEF NoProfile
  <2>8. Profiles' = {1}
    BY <1>4, <2>1, <2>2, <2>7 DEF Profiles, PassportsInv, OneAtATime
  <2>9. ~upload => row.text = old.text
    BY <1>2, <1>3, <2>1
  <2> QED
    BY <2>2, <2>4, <2>5, <2>6, <2>8, <2>9
<1>10. OneAtATime'
  <2> SUFFICES ASSUME ~disturbed'
               PROVE  /\ Profiles' \subseteq {1}
                      /\ \A v, u \in Writers : Merges(v)' /\ Merges(u)' => v = u
                      /\ \A v \in Writers : Merges(v)' => intake' = writer'[v].cv
                      /\ \A v \in Writers : writer'[v].pc = "read" /\ writer'[v].row # 0
                                              => writer'[v].row \in Profiles'
                      /\ screened' => Profiles' # {}
    BY DEF OneAtATime
  <2>1. ~disturbed /\ Profiles' = {1}
    BY <1>7, <1>9
  <2>2. \A v \in Writers : Merges(v)' => Merges(v) /\ writer'[v] = writer[v]
    BY <1>5, <1>6 DEF Merges
  <2>3. \A v \in Writers : writer'[v].pc = "read" => writer'[v] = writer[v]
    BY <1>5, <1>6
  <2> QED
    BY <1>1, <2>1, <2>2, <2>3 DEF PassportsInv, OneAtATime
<1>11. PassportIsOfOneCV'
  <2> SUFFICES ASSUME ~disturbed'
               PROVE  intake = row.text \/ Merging'
    BY <1>1, <1>4, <1>9 DEF PassportIsOfOneCV
  <2>1. CASE upload
    BY <1>9, <2>1
  <2>2. CASE ~upload
    <3>1. intake = old.text \/ Merging
      BY <1>7, <1>9 DEF PassportsInv, PassportIsOfOneCV, old
    <3>2. ASSUME Merging PROVE Merging'
      <4>1. PICK v \in Writers : writer[v].kind = "upload" /\ writer[v].pc # "drafted"
        BY <3>2 DEF Merging
      <4>2. writer'[v] = writer[v]
        BY <1>5, <2>2, <4>1 DEF upload
      <4> QED
        BY <4>1, <4>2 DEF Merging
    <3> QED
      BY <1>9, <2>2, <3>1, <3>2
  <2> QED
    BY <2>1, <2>2
<1> QED
  BY <1>8, <1>10, <1>11 DEF PassportsInv

\* A first profile is created, or one more beside it.
LEMMA CreateStep ==
  ASSUME PassportsInv, NEW w \in Writers, NEW r \in 1..MaxProfiles, CreateProfile(w, r)
  PROVE  PassportsInv'
<1> DEFINE cv == writer[w].cv
           row == [text |-> cv, vector |-> VectorOf(cv), status |-> "cv_only"]
<1>0. /\ writer[w] \in Writer /\ writer[w].pc = "read" /\ writer[w].kind = "upload" /\ Merges(w)
      /\ cv \in CVs /\ cv # 0
  <2>1. writer[w] \in Writer /\ writer[w].pc = "read" /\ writer[w].row = 0
    BY DEF CreateProfile, PassportsInv, PassportsTypeOK
  <2>2. writer[w].kind \in {"none", "upload", "screening"}
    BY <2>1 DEF Writer
  <2>3. writer[w].kind = "upload"
    BY <2>1, <2>2 DEF PassportsInv, WritersAreSound
  <2> QED
    BY <2>1, <2>3, PassportFacts DEF PassportsInv, WritersAreSound, Merges
<1>1. /\ profile' = [profile EXCEPT ![r] = row] /\ writer' = [writer EXCEPT ![w] = NoWriter]
      /\ disturbed' = (disturbed \/ Profiles # {})
      /\ UNCHANGED <<intake, screened>>
      /\ \A s \in 1..(r - 1) : s \in Profiles
  BY DEF CreateProfile
<1>2. row \in ProfileRow /\ row.text = cv /\ row.vector = VectorOf(cv) /\ row # NoProfile
  <2>1. row.status # NoProfile.status
    BY DEF NoProfile
  <2> QED
    BY <1>0, <2>1, PassportFacts DEF ProfileRow
<1> HIDE DEF cv, row
<1>3. /\ profile' \in [1..MaxProfiles -> ProfileRow] /\ profile'[r] = row
      /\ \A s \in 1..MaxProfiles : s # r => profile'[s] = profile[s]
  BY <1>1, <1>2 DEF PassportsInv, PassportsTypeOK
<1>4. /\ writer' \in [Writers -> Writer] /\ writer'[w] = NoWriter
      /\ \A v \in Writers : v # w => writer'[v] = writer[v]
      /\ NoWriter.kind = "none" /\ NoWriter.pc = "idle" /\ NoWriter.cv = 0
  BY <1>1, PassportFacts, WriterMoves DEF PassportsInv, NoWriter
<1>5. disturbed' \in BOOLEAN /\ (~disturbed' => ~disturbed /\ Profiles = {})
  BY <1>1, Zenon
<1>6. PassportsTypeOK' /\ WritersAreSound'
  BY <1>1, <1>3, <1>4, <1>5 DEF PassportsInv, PassportsTypeOK, WritersAreSound
<1>7. ASSUME ~disturbed'
      PROVE  /\ r = 1 /\ Profiles' = {1} /\ ~screened
             /\ row.vector = row.text \/ row.text \in Blank
             /\ intake = row.text /\ \A v \in Writers : ~Merges(v)'
  <2>1. ~disturbed /\ Profiles = {}
    BY <1>5, <1>7
  <2>2. r = 1
    BY <1>1, <2>1, PassportFacts
  <2>3. Profiles' = {1}
    BY <1>2, <1>3, <2>1, <2>2 DEF Profiles
  <2>4. row.vector = row.text \/ row.text \in Blank
    BY <1>2 DEF VectorOf
  <2>5. ~screened /\ intake = row.text /\ \A v \in Writers : Merges(v) => v = w
    BY <1>0, <1>2, <2>1 DEF PassportsInv, OneAtATime, cv
  <2> QED
    BY <1>4, <2>2, <2>3, <2>4, <2>5 DEF Merges
<1>8. OneAtATime'
  <2> SUFFICES ASSUME ~disturbed'
               PROVE  /\ Profiles' \subseteq {1}
                      /\ \A v, u \in Writers : Merges(v)' /\ Merges(u)' => v = u
                      /\ \A v \in Writers : Merges(v)' => intake' = writer'[v].cv
                      /\ \A v \in Writers : writer'[v].pc = "read" /\ writer'[v].row # 0
                                              => writer'[v].row \in Profiles'
                      /\ screened' => Profiles' # {}
    BY DEF OneAtATime
  <2>1. \A v \in Writers : ~(writer'[v].pc = "read" /\ writer'[v].row # 0)
    BY <1>4, <1>5 DEF PassportsInv, OneAtATime
  <2> QED
    BY <1>7, <2>1
<1>9. PassportIsOfOneCV'
  BY <1>1, <1>3, <1>7 DEF PassportIsOfOneCV
<1> QED
  BY <1>6, <1>8, <1>9 DEF PassportsInv

\* A writer stops, and its CV is only half in if it had begun to write.
LEMMA StopStep ==
  ASSUME PassportsInv, NEW w \in Writers, StopWriter(w)
  PROVE  PassportsInv'
<1>1. /\ writer' = [writer EXCEPT ![w] = NoWriter]
      /\ disturbed' = (disturbed \/ (writer[w].kind = "upload" /\ writer[w].pc # "drafted"))
      /\ UNCHANGED <<profile, intake, screened>> /\ Profiles' = Profiles
  BY DEF StopWriter, Profiles
<1>2. /\ writer' \in [Writers -> Writer] /\ writer'[w] = NoWriter
      /\ \A v \in Writers : v # w => writer'[v] = writer[v]
      /\ NoWriter.kind = "none" /\ NoWriter.pc = "idle" /\ NoWriter.cv = 0
  BY <1>1, PassportFacts, WriterMoves DEF PassportsInv, NoWriter
<1>3. disturbed' \in BOOLEAN
      /\ (~disturbed' => ~disturbed /\ ~(writer[w].kind = "upload" /\ writer[w].pc # "drafted"))
  BY <1>1, Zenon
<1>4. PassportsTypeOK' /\ WritersAreSound'
  BY <1>1, <1>2, <1>3 DEF PassportsInv, PassportsTypeOK, WritersAreSound
<1>5. ~disturbed' => ~disturbed /\ ~Merges(w)
  BY <1>3 DEF Merges
<1>6. \A v \in Writers : Merges(v)' => Merges(v) /\ writer'[v] = writer[v]
  BY <1>2 DEF Merges
<1>7. \A v \in Writers : writer'[v].pc = "read" => writer'[v] = writer[v]
  BY <1>2
<1>8. OneAtATime'
  BY <1>1, <1>5, <1>6, <1>7 DEF PassportsInv, OneAtATime
<1>9. ~disturbed' /\ Merging => Merging'
  <2> SUFFICES ASSUME ~disturbed', Merging PROVE Merging'
    OBVIOUS
  <2>1. PICK v \in Writers : writer[v].kind = "upload" /\ writer[v].pc # "drafted"
    BY DEF Merging
  <2>2. writer'[v] = writer[v]
    BY <1>2, <1>3, <2>1
  <2> QED
    BY <2>1, <2>2 DEF Merging
<1> QED
  BY <1>1, <1>4, <1>5, <1>8, <1>9 DEF PassportsInv, PassportIsOfOneCV

-----------------------------------------------------------------------------
(* Undisturbed, a candidate has one profile, of one CV - its text, its          *)
(* embedding and the intake - that once screened stays screened (CreateFromCV,  *)
(* markScreened).                                                               *)
THEOREM PassportsAreWhole == PassportsSpec => [](PassportsTypeOK /\ PassportIsOfOneCV)
<1>1. PassportsInit => PassportsInv
  <2> SUFFICES ASSUME PassportsInit PROVE PassportsInv
    OBVIOUS
  <2>1. PassportsTypeOK
    BY PassportFacts DEF PassportsInit, PassportsTypeOK
  <2>2. Profiles = {} /\ intake = 0 /\ ~screened
    BY DEF PassportsInit, Profiles
  <2>3. \A w \in Writers : writer[w].kind = "none" /\ writer[w].pc = "idle"
    BY DEF PassportsInit, NoWriter
  <2> QED
    BY <2>1, <2>2, <2>3
       DEF PassportsInv, WritersAreSound, OneAtATime, PassportIsOfOneCV, Merges
<1>2. PassportsInv /\ [PassportsNext]_passportVars => PassportsInv'
  <2> SUFFICES ASSUME PassportsInv, [PassportsNext]_passportVars PROVE PassportsInv'
    OBVIOUS
  <2>1. ASSUME NEW w \in Writers, WriterStep(w) PROVE PassportsInv'
    BY <2>1, DraftStep, MergeStep, ReadStep, UpdateStep, CreateStep, StopStep DEF WriterStep
  <2>2. CASE UNCHANGED passportVars
    BY <2>2 DEF passportVars, PassportsInv, PassportsTypeOK, WritersAreSound, OneAtATime,
       PassportIsOfOneCV, Profiles, Merges, Merging
  <2> QED
    BY <2>1, <2>2 DEF PassportsNext
<1>3. PassportsInv => PassportsTypeOK /\ PassportIsOfOneCV
  BY DEF PassportsInv
<1> QED
  BY <1>1, <1>2, <1>3, PTL DEF PassportsSpec
-----------------------------------------------------------------------------
(* Shortlists: contests, the roles and their matches *)


\* What the requests under way have seen is still there to be found: the match of
\* a contest about to be created, the contest about to be resolved, a status of
\* the role.
SeenIsThere ==
    \A o \in Ops :
       /\ op[o].kind = "raise" => Stored(op[o].ref)
       /\ op[o].kind = "resolve" => /\ op[o].ref \in Contests
                                    /\ contest[op[o].ref].status # "none"
       /\ Doing(o, Edits, "read") => op[o].seen \in {"draft", "closed"}

ShortlistsInv == ShortlistsTypeOK /\ SeenIsThere /\ ContestsHaveSubjects

-----------------------------------------------------------------------------
LEMMA NoOpIsOp == NoOp \in Op
BY ShortlistsAssumption DEF NoOp, Op, MatchId, Statuses, Settled

\* What stays of the other requests when one of them moves.
LEMMA OthersStay ==
  ASSUME op \in [Ops -> Op], NEW o \in Ops, NEW new \in Op, op' = [op EXCEPT ![o] = new]
  PROVE  /\ op' \in [Ops -> Op]
         /\ op'[o] = new
         /\ \A p \in Ops : p # o => op'[p] = op[p]
OBVIOUS

\* Every step of a request is a move of that request alone, to a record of Op.
LEMMA OpMoves ==
  ASSUME ShortlistsTypeOK, NEW o \in Ops, OpStep(o)
  PROVE  /\ op' \in [Ops -> Op]
         /\ \A p \in Ops : p # o => op'[p] = op[p]
<1> USE DEF ShortlistsTypeOK
<1>0. /\ op[o] \in Op /\ NoOp \in Op /\ op \in [Ops -> Op]
      /\ 0 \in MatchId /\ minted \in Nat /\ position \in Statuses
      /\ \A k \in Contests : contest[k].status \in {"none", "open"} \cup Settled
  BY NoOpIsOp, ShortlistsAssumption DEF MatchId
<1>1. ASSUME NEW kind \in Edits \cup {"shortlist"}, StartOp(o, kind) PROVE \E new \in Op : op' = [op EXCEPT ![o] = new]
  <2>1. [NoOp EXCEPT !.kind = kind, !.pc = "begun"] \in Op
    BY <1>0 DEF Op, Edits
  <2> QED
    BY <1>1, <2>1 DEF StartOp
<1>2. ASSUME ReadRole(o) PROVE \E new \in Op : op' = [op EXCEPT ![o] = new]
  <2>1. [op[o] EXCEPT !.pc = "read", !.seen = position] \in Op
    BY <1>0 DEF Op
  <2>2. op' = [op EXCEPT ![o] = [op[o] EXCEPT !.pc = "read", !.seen = position]]
    BY <1>2 DEF ReadRole
  <2> QED
    BY <2>1, <2>2
<1>3. ASSUME WriteRole(o) PROVE \E new \in Op : op' = [op EXCEPT ![o] = new]
  <2>1. [NoOp EXCEPT !.kind = "shortlist", !.pc = "begun"] \in Op
    BY <1>0 DEF Op
  <2> QED
    BY <1>0, <1>3, <2>1 DEF WriteRole
<1>4. ASSUME NEW recalled \in SUBSET Pool, Recall(o, recalled)
      PROVE \E new \in Op : op' = [op EXCEPT ![o] = new]
  <2>1. [op[o] EXCEPT !.pc = "scoring", !.todo = recalled] \in Op
    BY <1>0 DEF Op
  <2>2. op' = [op EXCEPT ![o] = [op[o] EXCEPT !.pc = "scoring", !.todo = recalled]]
    BY <1>4 DEF Recall
  <2> QED
    BY <2>1, <2>2
<1>5. ASSUME NEW c \in Pool, Evaluate(o, c) PROVE \E new \in Op : op' = [op EXCEPT ![o] = new]
  <2>1. CASE op' = [op EXCEPT ![o].todo = @ \ {c}]
    <3>1. [op[o] EXCEPT !.todo = @ \ {c}] \in Op
      BY <1>0 DEF Op
    <3>2. op' = [op EXCEPT ![o] = [op[o] EXCEPT !.todo = @ \ {c}]]
      BY <2>1
    <3> QED
      BY <3>1, <3>2
  <2>2. CASE /\ minted < MaxIds
             /\ op' = [op EXCEPT ![o].todo = @ \ {c}, ![o].found[c] = minted + 1]
    <3>1. minted + 1 \in MatchId
      BY <1>0, <2>2, ShortlistsAssumption DEF MatchId
    <3>2. [op[o].found EXCEPT ![c] = minted + 1] \in [Pool -> MatchId]
      BY <1>0, <3>1 DEF Op
    <3>3. [op[o] EXCEPT !.todo = @ \ {c}, !.found = [op[o].found EXCEPT ![c] = minted + 1]] \in Op
      BY <1>0, <3>2 DEF Op
    <3>4. op' = [op EXCEPT ![o] = [op[o] EXCEPT !.todo = @ \ {c},
                                                !.found = [op[o].found EXCEPT ![c] = minted + 1]]]
      BY <2>2, <1>0 DEF Op
    <3> QED
      BY <3>3, <3>4
  <2> QED
    BY <1>5, <2>1, <2>2 DEF Evaluate
<1>6. ASSUME NEW c \in Pool, Persist(o, c) PROVE \E new \in Op : op' = [op EXCEPT ![o] = new]
  <2>1. [op[o].found EXCEPT ![c] = 0] \in [Pool -> MatchId]
    BY <1>0 DEF Op
  <2>2. [op[o] EXCEPT !.found = [op[o].found EXCEPT ![c] = 0]] \in Op
    BY <1>0, <2>1 DEF Op
  <2>3. op' = [op EXCEPT ![o] = [op[o] EXCEPT !.found = [op[o].found EXCEPT ![c] = 0]]]
    BY <1>6, <1>0 DEF Persist
  <2> QED
    BY <2>2, <2>3
<1>7. ASSUME CheckSubject(o) PROVE \E new \in Op : op' = [op EXCEPT ![o] = new]
  <2>1. PICK id \in MatchId :
           op' = [op EXCEPT ![o] = [NoOp EXCEPT !.kind = "raise", !.pc = "checked", !.ref = id]]
    BY <1>7 DEF CheckSubject
  <2>2. [NoOp EXCEPT !.kind = "raise", !.pc = "checked", !.ref = id] \in Op
    BY <1>0 DEF Op
  <2> QED
    BY <2>1, <2>2
<1>8. ASSUME CheckOwner(o) PROVE \E new \in Op : op' = [op EXCEPT ![o] = new]
  <2>1. [op[o] EXCEPT !.pc = "owned"] \in Op
    BY <1>0 DEF Op
  <2>2. op' = [op EXCEPT ![o] = [op[o] EXCEPT !.pc = "owned"]]
    BY <1>8 DEF CheckOwner
  <2> QED
    BY <2>1, <2>2
<1>9. ASSUME ReturnOp(o) PROVE \E new \in Op : op' = [op EXCEPT ![o] = new]
  BY <1>0, <1>9 DEF ReturnOp
<1>10. ASSUME NEW k \in Contests, CreateContest(o, k) PROVE \E new \in Op : op' = [op EXCEPT ![o] = new]
  BY <1>0, <1>10 DEF CreateContest
<1>11. ASSUME NEW k \in Contests, ReadContest(o, k) PROVE \E new \in Op : op' = [op EXCEPT ![o] = new]
  <2>1. [NoOp EXCEPT !.kind = "resolve", !.pc = "read", !.seen = contest[k].status, !.ref = k] \in Op
    BY <1>0, <1>11 DEF Op, ReadContest
  <2> QED
    BY <1>11, <2>1 DEF ReadContest
<1>12. ASSUME NEW verdict \in Settled, Settle(o, verdict) PROVE \E new \in Op : op' = [op EXCEPT ![o] = new]
  BY <1>0, <1>12 DEF Settle
<1>13. \E new \in Op : op' = [op EXCEPT ![o] = new]
  BY <1>1, <1>2, <1>3, <1>4, <1>5, <1>6, <1>7, <1>8, <1>9, <1>10, <1>11, <1>12 DEF OpStep
<1> QED
  BY <1>0, <1>13, OthersStay

\* The row of a candidate, once it has an id, keeps it (UpsertMatch).
LEMMA MatchesStay ==
  ASSUME ShortlistsTypeOK, [ShortlistsNext]_shortlistVars
  PROVE  /\ match' \in [Pool -> MatchId]
         /\ \A c \in Pool : match[c] # 0 => match'[c] = match[c]
<1> USE DEF ShortlistsTypeOK
<1>1. CASE match' = match
  BY <1>1
<1>2. ASSUME NEW o \in Ops, NEW c \in Pool, Persist(o, c)
      PROVE  /\ match' \in [Pool -> MatchId]
             /\ \A d \in Pool : match[d] # 0 => match'[d] = match[d]
  <2>1. op[o].found[c] \in MatchId
    BY DEF Op
  <2>2. Upserted(match[c], op[o].found[c]) \in MatchId
    BY <2>1 DEF Upserted
  <2>3. match[c] # 0 => Upserted(match[c], op[o].found[c]) = match[c]
    BY DEF Upserted
  <2>4. match' = [match EXCEPT ![c] = Upserted(match[c], op[o].found[c])]
    BY <1>2 DEF Persist
  <2> QED
    BY <2>2, <2>3, <2>4
<1>3. match' = match \/ \E o \in Ops, c \in Pool : Persist(o, c)
  BY DEF ShortlistsNext, OpStep, shortlistVars, GenerateRole, StartOp, ReadRole, WriteRole, Recall,
     Evaluate, CheckSubject, CheckOwner, ReturnOp, CreateContest, ReadContest, Settle
<1> QED
  BY <1>1, <1>2, <1>3

\* Stored(id) after the step, for the id the step is about.
StillStored(id) == \E c \in Pool : id # 0 /\ match'[c] = id

LEMMA StoredStays ==
  ASSUME ShortlistsTypeOK, [ShortlistsNext]_shortlistVars
  PROVE  \A id \in MatchId : Stored(id) => StillStored(id)
BY MatchesStay DEF Stored, StillStored

LEMMA StoredIsId == ASSUME ShortlistsTypeOK PROVE \A id : Stored(id) => id \in MatchId
BY DEF Stored, ShortlistsTypeOK

\* A step leaves the contests alone, creates one or settles one.
LEMMA ContestSteps ==
  ASSUME [ShortlistsNext]_shortlistVars
  PROVE  \/ contest' = contest
         \/ \E o \in Ops, k \in Contests : CreateContest(o, k)
         \/ \E o \in Ops, verdict \in Settled : Settle(o, verdict)
BY DEF ShortlistsNext, OpStep, shortlistVars, GenerateRole, StartOp, ReadRole, WriteRole, Recall,
   Evaluate, Persist, CheckSubject, CheckOwner, ReturnOp, ReadContest

\* A contest, once raised, keeps its subject and is never unraised.
LEMMA ContestsStay ==
  ASSUME ShortlistsTypeOK, SeenIsThere, [ShortlistsNext]_shortlistVars, NEW k \in Contests
  PROVE  /\ contest[k].status # "none" => /\ contest'[k].status # "none"
                                          /\ contest'[k].subject = contest[k].subject
         /\ contest[k].status = "none" /\ contest'[k].status # "none"
              => \E o \in Ops : op[o].kind = "raise" /\ contest'[k].subject = op[o].ref
<1> USE DEF ShortlistsTypeOK
<1>1. ASSUME NEW o \in Ops, NEW j \in Contests, CreateContest(o, j)
      PROVE  /\ contest[j].status = "none" /\ op[o].kind = "raise"
             /\ contest'[j] = [status |-> "open", subject |-> op[o].ref]
             /\ k # j => contest'[k] = contest[k]
  BY <1>1 DEF CreateContest, Doing
<1>2. ASSUME NEW o \in Ops, NEW verdict \in Settled, Settle(o, verdict)
      PROVE  /\ contest'[k].subject = contest[k].subject
             /\ contest[k].status # "none" => contest'[k].status # "none"
             /\ contest'[k].status # "none" => contest[k].status # "none"
  <2>1. contest' = [contest EXCEPT ![op[o].ref].status = verdict] /\ op[o].kind = "resolve"
    BY <1>2 DEF Settle, Doing
  <2>2. verdict # "none" /\ contest[op[o].ref].status # "none" /\ op[o].ref \in Contests
    BY <2>1 DEF Settled, SeenIsThere
  <2>3. contest[k] \in [status : {"none", "open"} \cup Settled, subject : MatchId]
    OBVIOUS
  <2>4. CASE k = op[o].ref
    BY <2>1, <2>2, <2>3, <2>4
  <2>5. CASE k # op[o].ref
    BY <2>1, <2>2, <2>5
  <2> QED
    BY <2>4, <2>5
<1> QED
  <2>1. contest' = contest => contest'[k] = contest[k]
    OBVIOUS
  <2>3. ASSUME NEW o \in Ops, NEW j \in Contests, CreateContest(o, j)
        PROVE  \/ k # j /\ contest'[k] = contest[k]
               \/ /\ contest[k].status = "none" /\ op[o].kind = "raise"
                  /\ contest'[k].subject = op[o].ref
    <3>1. /\ contest[j].status = "none" /\ op[o].kind = "raise"
          /\ contest'[j] = [status |-> "open", subject |-> op[o].ref]
          /\ k # j => contest'[k] = contest[k]
      BY <1>1, <2>3
    <3>2. contest'[j].subject = op[o].ref
      BY <3>1
    <3> QED
      BY <3>1, <3>2
  <2> QED
    BY <1>2, <2>1, <2>3, ContestSteps

LEMMA ShortlistsType ==
  ASSUME ShortlistsTypeOK, SeenIsThere, [ShortlistsNext]_shortlistVars
  PROVE  ShortlistsTypeOK'
<1> USE DEF ShortlistsTypeOK
<1>1. op' \in [Ops -> Op]
  <2>1. ASSUME NEW o \in Ops, OpStep(o) PROVE op' \in [Ops -> Op]
    BY <2>1, OpMoves
  <2>2. CASE GenerateRole \/ UNCHANGED shortlistVars
    BY <2>2 DEF GenerateRole, shortlistVars
  <2> QED
    BY <2>1, <2>2 DEF ShortlistsNext
<1>2. position' \in Statuses
  <2>1. ASSUME NEW o \in Ops, WriteRole(o) PROVE position' \in Statuses
    BY <2>1 DEF WriteRole, SeenIsThere, Statuses, Revised
  <2>2. CASE position' = position \/ GenerateRole
    BY <2>2 DEF GenerateRole, Statuses
  <2>3. position' = position \/ GenerateRole \/ \E o \in Ops : WriteRole(o)
    BY DEF ShortlistsNext, OpStep, shortlistVars, StartOp, ReadRole, Recall,
       Evaluate, Persist, CheckSubject, CheckOwner, ReturnOp, CreateContest, ReadContest, Settle
  <2> QED
    BY <2>1, <2>2, <2>3
<1>3. minted' \in MatchId
  <2>1. minted' = minted \/ \E o \in Ops, c \in Pool : Evaluate(o, c)
    BY DEF ShortlistsNext, OpStep, shortlistVars, GenerateRole, StartOp, ReadRole, WriteRole, Recall,
       Persist, CheckSubject, CheckOwner, ReturnOp, CreateContest, ReadContest, Settle
  <2>2. ASSUME NEW o \in Ops, NEW c \in Pool, Evaluate(o, c)
        PROVE  minted' = minted \/ (minted < MaxIds /\ minted' = minted + 1)
    BY <2>2 DEF Evaluate
  <2>3. minted' = minted \/ (minted < MaxIds /\ minted' = minted + 1)
    BY <2>1, <2>2
  <2> QED
    BY <2>3, ShortlistsAssumption DEF MatchId
<1>4. contest' \in [Contests -> [status : {"none", "open"} \cup Settled, subject : MatchId]]
  <2>1. ASSUME NEW o \in Ops, NEW k \in Contests, CreateContest(o, k)
        PROVE  contest' \in [Contests -> [status : {"none", "open"} \cup Settled, subject : MatchId]]
    <3>1. op[o].ref \in MatchId
      <4>1. Stored(op[o].ref)
        BY <2>1 DEF CreateContest, Doing, SeenIsThere
      <4> QED
        BY <4>1 DEF Stored
    <3> QED
      BY <2>1, <3>1 DEF CreateContest
  <2>2. ASSUME NEW o \in Ops, NEW verdict \in Settled, Settle(o, verdict)
        PROVE  contest' \in [Contests -> [status : {"none", "open"} \cup Settled, subject : MatchId]]
    BY <2>2 DEF Settle
  <2> QED
    BY <2>1, <2>2, ContestSteps
<1> QED
  BY <1>1, <1>2, <1>3, <1>4, MatchesStay

LEMMA SeenStaysThere ==
  ASSUME ShortlistsInv, [ShortlistsNext]_shortlistVars
  PROVE  SeenIsThere'
<1> USE DEF ShortlistsInv
<1>1. \A p \in Ops : op'[p] = op[p] =>
         /\ op'[p].kind = "raise" => StillStored(op'[p].ref)
         /\ op'[p].kind = "resolve" => /\ op'[p].ref \in Contests
                                       /\ contest'[op'[p].ref].status # "none"
         /\ Doing(p, Edits, "read")' => op'[p].seen \in {"draft", "closed"}
  <2> TAKE p \in Ops
  <2> HAVE op'[p] = op[p]
  <2>1. op[p].kind = "raise" => Stored(op[p].ref) /\ StillStored(op[p].ref)
    BY StoredStays, StoredIsId DEF SeenIsThere
  <2>2. op[p].kind = "resolve" => op[p].ref \in Contests /\ contest'[op[p].ref].status # "none"
    BY ContestsStay DEF SeenIsThere
  <2> QED
    BY <2>1, <2>2 DEF SeenIsThere, Doing
<1>2. ASSUME NEW o \in Ops, OpStep(o)
      PROVE  /\ op'[o].kind = "raise" => StillStored(op'[o].ref)
             /\ op'[o].kind = "resolve" => /\ op'[o].ref \in Contests
                                           /\ contest'[op'[o].ref].status # "none"
             /\ Doing(o, Edits, "read")' => op'[o].seen \in {"draft", "closed"}
  <2> USE DEF ShortlistsTypeOK
  <2>0. op[o] \in Op /\ position \in Statuses
    OBVIOUS
  <2>1. ASSUME NEW kind \in Edits \cup {"shortlist"}, StartOp(o, kind)
        PROVE  op'[o].kind \notin {"raise", "resolve"} /\ op'[o].pc = "begun"
    BY <2>1 DEF StartOp, Edits, NoOp
  <2>2. ASSUME ReadRole(o)
        PROVE  op'[o].kind \notin {"raise", "resolve"} /\ op'[o].seen \in {"draft", "closed"}
    BY <2>0, <2>2 DEF ReadRole, Doing, Edits, Op, Statuses
  <2>3. ASSUME WriteRole(o) PROVE op'[o].kind \in {"none", "shortlist"}
    BY <2>3 DEF WriteRole, NoOp
  <2>4. ASSUME NEW recalled \in SUBSET Pool, Recall(o, recalled) PROVE op'[o].kind = "shortlist"
    BY <2>0, <2>4 DEF Recall, Doing, Op
  <2>5. ASSUME NEW c \in Pool, Evaluate(o, c) PROVE op'[o].kind = "shortlist"
    BY <2>0, <2>5 DEF Evaluate, Doing, Op
  <2>6. ASSUME NEW c \in Pool, Persist(o, c) PROVE op'[o].kind = "shortlist"
    BY <2>0, <2>6 DEF Persist, Doing, Op
  <2>7. ASSUME CheckSubject(o)
        PROVE  op'[o].kind = "raise" /\ op'[o].pc = "checked" /\ StillStored(op'[o].ref)
    <3>1. PICK id \in MatchId :
             /\ Stored(id)
             /\ op' = [op EXCEPT ![o] = [NoOp EXCEPT !.kind = "raise", !.pc = "checked", !.ref = id]]
      BY <2>7 DEF CheckSubject
    <3>2. op'[o].kind = "raise" /\ op'[o].pc = "checked" /\ op'[o].ref = id
      BY <3>1 DEF NoOp
    <3> QED
      BY <3>1, <3>2, StoredStays
  <2>8. ASSUME CheckOwner(o)
        PROVE  op'[o].kind = "resolve" /\ op[o].kind = "resolve" /\ op'[o].ref = op[o].ref
    BY <2>0, <2>8 DEF CheckOwner, Doing, Op
  <2>9. ASSUME ReturnOp(o) PROVE op'[o].kind = "none"
    BY <2>9 DEF ReturnOp, NoOp
  <2>10. ASSUME NEW k \in Contests, CreateContest(o, k) PROVE op'[o].kind = "none"
    BY <2>10 DEF CreateContest, NoOp
  <2>11. ASSUME NEW k \in Contests, ReadContest(o, k)
         PROVE  op'[o].kind = "resolve" /\ op'[o].ref = k /\ contest'[k].status # "none"
    BY <2>11 DEF ReadContest, NoOp
  <2>12. ASSUME NEW verdict \in Settled, Settle(o, verdict) PROVE op'[o].kind = "none"
    BY <2>12 DEF Settle, NoOp
  <2>13. op[o].kind = "resolve" => op[o].ref \in Contests /\ contest'[op[o].ref].status # "none"
    BY ContestsStay DEF SeenIsThere
  <2> QED
    BY <1>2, <2>1, <2>2, <2>3, <2>4, <2>5, <2>6, <2>7, <2>8, <2>9, <2>10, <2>11, <2>12, <2>13
       DEF OpStep, Doing, Edits
<1>3. CASE op' = op
  BY <1>1, <1>3 DEF SeenIsThere, Stored, StillStored
<1>4. ASSUME NEW o \in Ops, OpStep(o) PROVE SeenIsThere'
  <2>1. \A p \in Ops : p # o => op'[p] = op[p]
    BY <1>4, OpMoves
  <2> QED
    BY <1>1, <1>2, <1>4, <2>1 DEF SeenIsThere, Stored, StillStored
<1> QED
  BY <1>3, <1>4 DEF ShortlistsNext, GenerateRole, shortlistVars

LEMMA SubjectsStay ==
  ASSUME ShortlistsInv, [ShortlistsNext]_shortlistVars
  PROVE  ContestsHaveSubjects'
<1> SUFFICES ASSUME NEW k \in Contests, contest'[k].status # "none"
             PROVE  StillStored(contest'[k].subject)
  BY DEF ContestsHaveSubjects, Stored, StillStored
<1>1. CASE contest[k].status # "none"
  BY <1>1, ContestsStay, StoredStays, StoredIsId DEF ShortlistsInv, ContestsHaveSubjects
<1>2. CASE contest[k].status = "none"
  BY <1>2, ContestsStay, StoredStays, StoredIsId DEF ShortlistsInv, SeenIsThere
<1> QED
  BY <1>1, <1>2

LEMMA ShortlistsStart == ShortlistsInit => ShortlistsInv
<1> SUFFICES ASSUME ShortlistsInit PROVE ShortlistsInv
  OBVIOUS
<1>1. ShortlistsTypeOK
  BY NoOpIsOp, ShortlistsAssumption DEF ShortlistsInit, ShortlistsTypeOK, Statuses, MatchId
<1>2. \A o \in Ops : op[o].kind = "none" /\ op[o].pc = "idle"
  BY DEF ShortlistsInit, NoOp
<1>3. \A k \in Contests : contest[k].status = "none"
  BY DEF ShortlistsInit
<1> QED
  BY <1>1, <1>2, <1>3 DEF ShortlistsInv, SeenIsThere, ContestsHaveSubjects, Doing

LEMMA ShortlistsStep == ShortlistsInv /\ [ShortlistsNext]_shortlistVars => ShortlistsInv'
BY ShortlistsType, SeenStaysThere, SubjectsStay DEF ShortlistsInv

-----------------------------------------------------------------------------
(* Every contest has its match, with the id it was raised against, however     *)
(* often the role is shortlisted (UpsertMatch keeps the id of a stored row).   *)
THEOREM SubjectsNeverDangle == ShortlistsSpec => [](ShortlistsTypeOK /\ ContestsHaveSubjects)
<1>1. ShortlistsInv => ShortlistsTypeOK /\ ContestsHaveSubjects
  BY DEF ShortlistsInv
<1> QED
  BY <1>1, ShortlistsStart, ShortlistsStep, PTL DEF ShortlistsSpec

(* A verdict is changed only by a Resolve that read the contest when it was    *)
(* open (Service.Resolve loads, checks and saves in separate calls).           *)
THEOREM VerdictsStand == ShortlistsSpec => VerdictStands
<1>1. ASSUME ShortlistsInv, [ShortlistsNext]_shortlistVars, NEW k \in Contests,
             contest[k].status \in Settled, ~ResolvingOpen(k)
      PROVE  contest'[k] = contest[k]
  <2>1. ASSUME NEW o \in Ops, NEW j \in Contests, CreateContest(o, j) PROVE contest'[k] = contest[k]
    <3>1. k # j
      BY <1>1, <2>1 DEF CreateContest, Settled
    <3> QED
      BY <1>1, <2>1, <3>1 DEF CreateContest, ShortlistsInv, ShortlistsTypeOK
  <2>2. ASSUME NEW o \in Ops, NEW verdict \in Settled, Settle(o, verdict)
        PROVE  contest'[k] = contest[k]
    <3>1. op[o].ref # k
      BY <1>1, <2>2 DEF Settle, Doing, MayResolve, ResolvingOpen
    <3> QED
      BY <1>1, <2>2, <3>1 DEF Settle, ShortlistsInv, ShortlistsTypeOK
  <2> QED
    BY <1>1, <2>1, <2>2, ContestSteps
<1>2. ShortlistsInv /\ [ShortlistsNext]_shortlistVars
        => [\A k \in Contests :
              contest[k].status \in Settled /\ ~ResolvingOpen(k) => contest'[k] = contest[k]
           ]_shortlistVars
  BY <1>1
<1> QED
  BY <1>2, ShortlistsStart, ShortlistsStep, PTL DEF ShortlistsSpec, VerdictStands

(* A deleted role is reopened only by an Update or a Refine that read it while *)
(* it was a draft (Service.Update, Refine and Delete each read the row and     *)
(* write it back whole).                                                       *)
THEOREM DeletedRolesStayClosed == ShortlistsSpec => ClosedStaysClosed
<1>1. ASSUME ShortlistsInv, [ShortlistsNext]_shortlistVars, position = "closed", ~EditingDraft
      PROVE  position' = "closed"
  <2>1. ASSUME NEW o \in Ops, WriteRole(o) PROVE position' = "closed"
    <3>1. op[o].seen = "closed"
      BY <1>1, <2>1 DEF WriteRole, EditingDraft, ShortlistsInv, SeenIsThere
    <3> QED
      BY <2>1, <3>1 DEF WriteRole, Revised
  <2>2. position' = position \/ GenerateRole \/ \E o \in Ops : WriteRole(o)
    BY <1>1 DEF ShortlistsNext, OpStep, shortlistVars, StartOp, ReadRole, Recall,
       Evaluate, Persist, CheckSubject, CheckOwner, ReturnOp, CreateContest, ReadContest, Settle
  <2> QED
    BY <1>1, <2>1, <2>2 DEF GenerateRole
<1>2. ShortlistsInv /\ [ShortlistsNext]_shortlistVars
        => [position = "closed" /\ ~EditingDraft => position' = "closed"]_shortlistVars
  BY <1>1
<1> QED
  BY <1>2, ShortlistsStart, ShortlistsStep, PTL DEF ShortlistsSpec, ClosedStaysClosed
=============================================================================

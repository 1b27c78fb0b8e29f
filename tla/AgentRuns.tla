----------------------------- MODULE AgentRuns -----------------------------
(***************************************************************************)
(* The candidate agent (app/candidateagent/runner.go) on behalf of one     *)
(* candidate, while the candidate uploads other CVs and employers close    *)
(* their roles.  An execution is started by RunAgent, by TimeAdvance, or   *)
(* by the queue, which retries failed ones from the start: executions can  *)
(* overlap and repeat.  Skills are the competencies of rubrics; what the   *)
(* model decides and claims is left open.                                  *)
(***************************************************************************)
EXTENDS Naturals, FiniteSets

CONSTANTS Skills,
          Roles,
          Needs,          \* [Roles -> skills that are must-haves]
          Rubric,         \* [Roles -> all skills of the rubric]
          Compatible,     \* roles past the location, salary and deal-breaker gates
          MaxExecutions,  \* bound: executions started
          MaxVersions     \* bound: profiles the candidate has one after another

ASSUME AgentRunsAssumption ==
    /\ Needs \in [Roles -> SUBSET Skills] /\ Rubric \in [Roles -> SUBSET Skills]
    /\ Compatible \subseteq Roles
    /\ {MaxExecutions, MaxVersions} \subseteq Nat

VARIABLES
    versions,      \* history: the profiles so far, as sets of skills; the last is stored
    version,       \* how many there are
    openRoles,     \* roles ListOpen returns
    execution,     \* [1..MaxExecutions -> record]
    applications,  \* rows, with the execution that wrote them
    audited        \* the applications the audit trail names

agentVars == <<versions, version, openRoles, execution, applications, audited>>

-----------------------------------------------------------------------------
Executions == 1..MaxExecutions

\* from: the version stored when the execution began; uses: the one it read;
\* job: the role it is at.
Execution == [pc : {"new", "begun", "read", "scanning", "assessing", "created", "done"},
              from : 0..MaxVersions, uses : 0..MaxVersions,
              todo : SUBSET Roles, job : SUBSET Roles]

Application == [role : Roles, by : Executions, claims : SUBSET Skills, at : 0..MaxVersions]

AgentRunsTypeOK ==
    /\ versions \in [1..MaxVersions -> SUBSET Skills]
    /\ version \in 0..MaxVersions
    /\ openRoles \subseteq Roles
    /\ execution \in [Executions -> Execution]
    /\ applications \subseteq Application
    /\ audited \subseteq applications

AgentRunsInit ==
    /\ versions = [v \in 1..MaxVersions |-> {}]
    /\ version = 0
    /\ openRoles = Roles
    /\ execution = [e \in Executions |-> [pc |-> "new", from |-> 0, uses |-> 0,
                                          todo |-> {}, job |-> {}]]
    /\ applications = {} /\ audited = {}

-----------------------------------------------------------------------------
\* The others.
ChangeProfile(skills) ==
    /\ version < MaxVersions
    /\ version' = version + 1
    /\ versions' = [versions EXCEPT ![version + 1] = skills]
    /\ UNCHANGED <<openRoles, execution, applications, audited>>

CloseRole(role) ==
    /\ openRoles' = openRoles \ {role}
    /\ UNCHANGED <<versions, version, execution, applications, audited>>

-----------------------------------------------------------------------------
StartRun(e) ==
    /\ execution[e].pc = "new" /\ \A d \in 1..(e - 1) : execution[d].pc # "new"
    /\ execution' = [execution EXCEPT ![e].pc = "begun", ![e].from = version]
    /\ UNCHANGED <<versions, version, openRoles, applications, audited>>

\* Without a profile the agent does nothing.
ReadProfile(e) ==
    /\ execution[e].pc = "begun"
    /\ execution' = [execution EXCEPT ![e].pc = IF version = 0 THEN "done" ELSE "read",
                                      ![e].uses = version]
    /\ UNCHANGED <<versions, version, openRoles, applications, audited>>

ListRoles(e) ==
    /\ execution[e].pc = "read"
    /\ execution' = [execution EXCEPT ![e].pc = "scanning", ![e].todo = openRoles]
    /\ UNCHANGED <<versions, version, openRoles, applications, audited>>

CoversMustHaves(skills, role) == Needs[role] \subseteq skills

\* The gates before the model is asked: all on what was read at the start.
Eligible(e, role) ==
    role \in Compatible /\ CoversMustHaves(versions[execution[e].uses], role)

Consider(e, role) ==
    /\ execution[e].pc = "scanning" /\ role \in execution[e].todo
    /\ execution' = [execution EXCEPT
                       ![e].todo = @ \ {role},
                       ![e].pc = IF Eligible(e, role) THEN "assessing" ELSE "scanning",
                       ![e].job = IF Eligible(e, role) THEN {role} ELSE {}]
    /\ UNCHANGED <<versions, version, openRoles, applications, audited>>

\* A faulty Grounded: the draft is not checked.
GroundedAlways(claims, role, skills) == TRUE

\* CheckGrounding: no competency of the rubric is claimed that the profile lacks.
Grounded(claims, role, skills) == claims \cap Rubric[role] \subseteq skills

\* The model declines, or its draft is not grounded: the role is passed over.
PassOver(e) ==
    /\ execution[e].pc = "assessing"
    /\ execution' = [execution EXCEPT ![e].pc = "scanning", ![e].job = {}]
    /\ UNCHANGED <<versions, version, openRoles, applications, audited>>

Apply(e, claims) ==
    /\ execution[e].pc = "assessing"
    /\ \E role \in execution[e].job :
          /\ Grounded(claims, role, versions[execution[e].uses])
          /\ applications' = applications \cup
                {[role |-> role, by |-> e, claims |-> claims, at |-> version]}
    /\ execution' = [execution EXCEPT ![e].pc = "created"]
    /\ UNCHANGED <<versions, version, openRoles, audited>>

\* The entry is appended if it can be; the application stands either way.
RecordSubmission(e) ==
    /\ execution[e].pc = "created"
    /\ audited' \in {audited,
                     audited \cup {a \in applications : a.by = e /\ a.role \in execution[e].job}}
    /\ execution' = [execution EXCEPT ![e].pc = "scanning", ![e].job = {}]
    /\ UNCHANGED <<versions, version, openRoles, applications>>

\* Run returns, at the end or with an error; a crash ends it anywhere.
EndRun(e) ==
    /\ execution[e].pc \notin {"new", "done"}
    /\ execution' = [execution EXCEPT ![e].pc = "done", ![e].uses = 0,
                                      ![e].todo = {}, ![e].job = {}]
    /\ UNCHANGED <<versions, version, openRoles, applications, audited>>

RunStep(e) ==
    \/ StartRun(e) \/ ReadProfile(e) \/ ListRoles(e)
    \/ \E role \in Roles : Consider(e, role)
    \/ PassOver(e) \/ RecordSubmission(e) \/ EndRun(e)
    \/ \E claims \in SUBSET Skills : Apply(e, claims)

AgentRunsNext ==
    \/ \E e \in Executions : RunStep(e)
    \/ \E skills \in SUBSET Skills : ChangeProfile(skills)
    \/ \E role \in openRoles : CloseRole(role)

AgentRunsSpec == AgentRunsInit /\ [][AgentRunsNext]_agentVars

-----------------------------------------------------------------------------
(* The agent is honest, whatever changes while it runs: behind every           *)
(* application there is one profile that the candidate had since the execution *)
(* began, and that profile both covers the must-haves and evidences every      *)
(* rubric competency the summary claims; the role passed the other gates.  And *)
(* an execution applies to a role once - several executions, a retry of a run  *)
(* that failed half-way among them, may each apply (applications has no        *)
(* uniqueness).                                                                *)
AgentIsHonest ==
    \A a \in applications :
       /\ a.role \in Compatible
       /\ \E v \in (execution[a.by].from..a.at) \ {0} :
             /\ Needs[a.role] \subseteq versions[v]
             /\ a.claims \cap Rubric[a.role] \subseteq versions[v]
       /\ \A b \in applications : b.by = a.by /\ b.role = a.role => b = a

=============================================================================

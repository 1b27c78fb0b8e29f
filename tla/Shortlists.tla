----------------------------- MODULE Shortlists -----------------------------
(***************************************************************************)
(* One role from its creation to its soft deletion, the matches that       *)
(* shortlisting stores for it, and the contests candidates raise against   *)
(* them: app/roles, app/matching and app/contest.  Requests run in steps,  *)
(* one per call of a repository or of the model; what a score or a spec    *)
(* says, and which candidates the gates let through, is left open.         *)
(* Erasure of a candidate is the subject of Erasure.                       *)
(***************************************************************************)
EXTENDS Naturals

CONSTANTS Pool,        \* the candidates
          Ops,         \* requests that can be under way at a time
          MaxIds,      \* bound: match ids minted
          MaxContests  \* bound: contests raised

ASSUME ShortlistsAssumption == {MaxIds, MaxContests} \subseteq Nat

VARIABLES
    position,  \* the status of the role's row; "none" before it is created
    match,     \* [Pool -> id], the rows of the role; 0 if there is none
    minted,    \* ids NewMatch has given
    contest,   \* [1..MaxContests -> [status, subject]]
    op         \* [Ops -> record], requests under way

shortlistVars == <<position, match, minted, contest, op>>

-----------------------------------------------------------------------------
Statuses == {"none", "draft", "closed"}
Settled  == {"upheld", "dismissed"}
MatchId  == 0..MaxIds
Contests == 1..MaxContests

\* seen: the status a request has read, of the role or of its contest.
Op == [kind  : {"none", "update", "refine", "delete", "shortlist", "raise", "resolve"},
       pc    : {"idle", "begun", "read", "scoring", "checked", "owned"},
       seen  : Statuses \cup Settled \cup {"open"},
       todo  : SUBSET Pool,             \* recalled, not yet evaluated
       found : [Pool -> MatchId],       \* matches to persist
       ref   : MatchId \cup Contests]   \* the match or the contest it is about

NoOp == [kind |-> "none", pc |-> "idle", seen |-> "none", todo |-> {},
         found |-> [c \in Pool |-> 0], ref |-> 0]

ShortlistsTypeOK ==
    /\ position \in Statuses
    /\ match \in [Pool -> MatchId]
    /\ minted \in MatchId
    /\ contest \in [Contests -> [status : {"none", "open"} \cup Settled, subject : MatchId]]
    /\ op \in [Ops -> Op]

ShortlistsInit ==
    /\ position = "none"
    /\ match = [c \in Pool |-> 0]
    /\ minted = 0
    /\ contest = [k \in Contests |-> [status |-> "none", subject |-> 0]]
    /\ op = [o \in Ops |-> NoOp]

Edits == {"update", "refine", "delete"}

Doing(o, kinds, pc) == op[o].kind \in kinds /\ op[o].pc = pc

-----------------------------------------------------------------------------
(* The role. *)

\* Generate: the role is stored once its spec is drafted and embedded.
GenerateRole ==
    /\ position = "none"
    /\ position' = "draft"
    /\ UNCHANGED <<match, minted, contest, op>>

StartOp(o, kind) ==
    /\ op[o] = NoOp
    /\ op' = [op EXCEPT ![o] = [NoOp EXCEPT !.kind = kind, !.pc = "begun"]]
    /\ UNCHANGED <<position, match, minted, contest>>

\* ByID, and the caller owns the role.  No request asks whether it is closed.
ReadRole(o) ==
    /\ Doing(o, Edits \cup {"shortlist"}, "begun")
    /\ position # "none"
    /\ op' = [op EXCEPT ![o].pc = "read", ![o].seen = position]
    /\ UNCHANGED <<position, match, minted, contest>>

\* A faulty Revised: an edited role is a draft again.
RevisedToDraft(status) == "draft"

\* A faulty Revised: an edit publishes the role, a status no other code knows here.
RevisedToOpen(status) == "open"

\* Revise leaves the status as it was read.
Revised(status) == status

\* The whole row is written, the status included; a refinement goes on to shortlist.
WriteRole(o) ==
    /\ Doing(o, Edits, "read")
    /\ position' = IF op[o].kind = "delete" THEN "closed" ELSE Revised(op[o].seen)
    /\ op' = [op EXCEPT ![o] = IF op[o].kind = "refine"
                               THEN [NoOp EXCEPT !.kind = "shortlist", !.pc = "begun"]
                               ELSE NoOp]
    /\ UNCHANGED <<match, minted, contest>>

-----------------------------------------------------------------------------
(* GenerateShortlist *)

Recall(o, recalled) ==
    /\ Doing(o, {"shortlist"}, "read")
    /\ op' = [op EXCEPT ![o].pc = "scoring", ![o].todo = recalled]
    /\ UNCHANGED <<position, match, minted, contest>>

\* A candidate is gated out, or gone, or scored: NewMatch mints an id every time.
Evaluate(o, c) ==
    /\ Doing(o, {"shortlist"}, "scoring") /\ c \in op[o].todo
    /\ \/ /\ op' = [op EXCEPT ![o].todo = @ \ {c}]
          /\ UNCHANGED minted
       \/ /\ minted < MaxIds
          /\ minted' = minted + 1
          /\ op' = [op EXCEPT ![o].todo = @ \ {c}, ![o].found[c] = minted + 1]
    /\ UNCHANGED <<position, match, contest>>

\* A faulty Upserted: the row takes the new id, as it does in the store in memory.
Overwritten(stored, new) == new

\* ON CONFLICT (role_id, candidate_id) DO UPDATE keeps the id of the row.
Upserted(stored, new) == IF stored = 0 THEN new ELSE stored

\* Only when all are scored is anything stored, one row at a time.
Persist(o, c) ==
    /\ Doing(o, {"shortlist"}, "scoring")
    /\ op[o].todo = {} /\ op[o].found[c] # 0
    /\ match' = [match EXCEPT ![c] = Upserted(@, op[o].found[c])]
    /\ op' = [op EXCEPT ![o].found[c] = 0]
    /\ UNCHANGED <<position, minted, contest>>

-----------------------------------------------------------------------------
(* Contests *)

Stored(id) == \E c \in Pool : id # 0 /\ match[c] = id

\* Raise: the match exists and is the candidate's own, or nothing happens.
CheckSubject(o) ==
    /\ op[o] = NoOp
    /\ \E id \in MatchId :
          /\ Stored(id)
          /\ op' = [op EXCEPT ![o] = [NoOp EXCEPT !.kind = "raise", !.pc = "checked", !.ref = id]]
    /\ UNCHANGED <<position, match, minted, contest>>

CreateContest(o, k) ==
    /\ Doing(o, {"raise"}, "checked")
    /\ contest[k].status = "none" /\ \A j \in 1..(k - 1) : contest[j].status # "none"
    /\ contest' = [contest EXCEPT ![k] = [status |-> "open", subject |-> op[o].ref]]
    /\ op' = [op EXCEPT ![o] = NoOp]
    /\ UNCHANGED <<position, match, minted>>

\* Resolve: a copy of the contest is read,
ReadContest(o, k) ==
    /\ op[o] = NoOp /\ contest[k].status # "none"
    /\ op' = [op EXCEPT ![o] = [NoOp EXCEPT !.kind = "resolve", !.pc = "read",
                                            !.seen = contest[k].status, !.ref = k]]
    /\ UNCHANGED <<position, match, minted, contest>>

\* its owner is found through its match and the role,
CheckOwner(o) ==
    /\ Doing(o, {"resolve"}, "read")
    /\ Stored(contest[op[o].ref].subject) /\ position # "none"
    /\ op' = [op EXCEPT ![o].pc = "owned"]
    /\ UNCHANGED <<position, match, minted, contest>>

\* A faulty MayResolve: a resolved contest can be resolved again.
MayAlwaysResolve(status) == TRUE

\* and if the copy is open it is resolved and written back.
MayResolve(status) == status = "open"

Settle(o, verdict) ==
    /\ Doing(o, {"resolve"}, "owned")
    /\ MayResolve(op[o].seen)
    /\ contest' = [contest EXCEPT ![op[o].ref].status = verdict]
    /\ op' = [op EXCEPT ![o] = NoOp]
    /\ UNCHANGED <<position, match, minted>>

-----------------------------------------------------------------------------
\* The handler returns: it is done, is refused, or a step of it fails, and what it
\* has stored so far stays.
ReturnOp(o) ==
    /\ op[o] # NoOp
    /\ op' = [op EXCEPT ![o] = NoOp]
    /\ UNCHANGED <<position, match, minted, contest>>

OpStep(o) ==
    \/ \E kind \in Edits \cup {"shortlist"} : StartOp(o, kind)
    \/ ReadRole(o) \/ WriteRole(o)
    \/ \E recalled \in SUBSET Pool : Recall(o, recalled)
    \/ \E c \in Pool : Evaluate(o, c) \/ Persist(o, c)
    \/ CheckSubject(o) \/ CheckOwner(o) \/ ReturnOp(o)
    \/ \E k \in Contests : CreateContest(o, k) \/ ReadContest(o, k)
    \/ \E verdict \in Settled : Settle(o, verdict)

ShortlistsNext == GenerateRole \/ \E o \in Ops : OpStep(o)

ShortlistsSpec == ShortlistsInit /\ [][ShortlistsNext]_shortlistVars

-----------------------------------------------------------------------------
(* A contest never dangles: however often, and however much at once, the role  *)
(* is shortlisted again, the match a contest was raised against keeps its id,  *)
(* so that Resolve can find its owner (UpsertMatch; the store in memory gives  *)
(* the row the new id, and breaks this).                                       *)
ContestsHaveSubjects ==
    \A k \in Contests : contest[k].status # "none" => Stored(contest[k].subject)

(* A verdict stands: once a contest is resolved, only a Resolve that read it   *)
(* when it was open can still change it.  That one can: two reviewers at once  *)
(* both succeed, and the later overwrites.                                     *)
ResolvingOpen(k) ==
    \E o \in Ops : op[o].kind = "resolve" /\ op[o].ref = k /\ op[o].seen = "open"
VerdictStands ==
    [][\A k \in Contests :
          contest[k].status \in Settled /\ ~ResolvingOpen(k) => contest'[k] = contest[k]
      ]_shortlistVars

(* A deleted role stays deleted, except that an Update or a Refine that read   *)
(* it before the deletion writes it back as a draft.                           *)
EditingDraft == \E o \in Ops : Doing(o, Edits, "read") /\ op[o].seen = "draft"
ClosedStaysClosed ==
    [][position = "closed" /\ ~EditingDraft => position' = "closed"]_shortlistVars

=============================================================================

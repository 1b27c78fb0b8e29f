----------------------------- MODULE Passports -----------------------------
(***************************************************************************)
(* The talent passport of one candidate.  Uploads of a CV (CreateFromCV,   *)
(* app/profiles/builder.go) and finished interviews (markScreened,         *)
(* app/interview/interviewer.go) read the profile, and write the whole row *)
(* back; only the embedding is left alone by a writer that has none.       *)
(* A CV is a number; the text drawn from it and the embedding of that text *)
(* are told apart by the CV they come from.                                *)
(***************************************************************************)
EXTENDS Naturals

CONSTANTS Writers,   \* requests that can be under way at a time
          CVs,       \* the candidate's CVs
          Blank,     \* those from which no competency is evidenced
          MaxProfiles    \* bound: profile rows

ASSUME PassportsAssumption ==
    /\ CVs \subseteq Nat \ {0} /\ Blank \subseteq CVs
    /\ MaxProfiles \in Nat \ {0}

VARIABLES
    profile,    \* [1..MaxProfiles -> row], talent_profiles of the candidate
    intake,     \* the CV whose guided intake the candidates row holds
    writer,     \* [Writers -> record]
    screened,   \* history: a finished interview has marked the passport
    disturbed   \* history: writers overlapped, or one stopped half-way

passportVars == <<profile, intake, writer, screened, disturbed>>

-----------------------------------------------------------------------------
CV == CVs \cup {0}
ProfileRow == [text : CV, vector : CV, status : {"none", "cv_only", "screened"}]
NoProfile  == [text |-> 0, vector |-> 0, status |-> "none"]

\* row: the profile read, 0 if none; copy: its content then.
Writer == [kind : {"none", "upload", "screening"},
           pc   : {"idle", "drafted", "merged", "read"},
           cv   : CV, row : 0..MaxProfiles, copy : ProfileRow]
NoWriter == [kind |-> "none", pc |-> "idle", cv |-> 0, row |-> 0, copy |-> NoProfile]

PassportsTypeOK ==
    /\ profile \in [1..MaxProfiles -> ProfileRow]
    /\ intake \in CV
    /\ writer \in [Writers -> Writer]
    /\ {screened, disturbed} \subseteq BOOLEAN

PassportsInit ==
    /\ profile = [r \in 1..MaxProfiles |-> NoProfile]
    /\ intake = 0
    /\ writer = [w \in Writers |-> NoWriter]
    /\ screened = FALSE /\ disturbed = FALSE

Profiles == {r \in 1..MaxProfiles : profile[r] # NoProfile}

\* The embedding of a text without words is none.
VectorOf(cv) == IF cv \in Blank THEN 0 ELSE cv

-----------------------------------------------------------------------------
\* The candidate is there, the model has drafted the profile, and it is embedded.
DraftProfile(w, cv) ==
    /\ writer[w] = NoWriter
    /\ writer' = [writer EXCEPT ![w] = [NoWriter EXCEPT !.kind = "upload", !.pc = "drafted",
                                                        !.cv = cv]]
    /\ UNCHANGED <<profile, intake, screened, disturbed>>

MergeIntake(w) ==
    /\ writer[w].pc = "drafted"
    /\ intake' = writer[w].cv
    /\ writer' = [writer EXCEPT ![w].pc = "merged"]
    /\ disturbed' = (disturbed \/ \E v \in Writers : writer[v].cv # 0 /\ writer[v].pc \in {"merged", "read"})
    /\ UNCHANGED <<profile, screened>>

\* ByCandidateID of an upload.  Any error, not only that there is no profile, makes
\* upsert create one; of several rows one is returned.
ReadForUpload(w) ==
    /\ writer[w].pc = "merged"
    /\ \E r \in Profiles \cup {0} :
          /\ writer' = [writer EXCEPT ![w].pc = "read", ![w].row = r,
                                      ![w].copy = IF r = 0 THEN NoProfile ELSE profile[r]]
          /\ disturbed' = (disturbed \/ (r = 0 /\ Profiles # {}))
    /\ UNCHANGED <<profile, intake, screened>>

\* ByCandidateID of a finished interview; without a profile, or with a screened one,
\* nothing more happens.
ReadForScreening(w) ==
    /\ writer[w] = NoWriter
    /\ \E r \in Profiles :
          /\ profile[r].status = "cv_only"
          /\ writer' = [writer EXCEPT ![w] = [NoWriter EXCEPT !.kind = "screening", !.pc = "read",
                                                              !.row = r, !.copy = profile[r]]]
    /\ UNCHANGED <<profile, intake, screened, disturbed>>

\* COALESCE(NULLIF(new, ''), stored)
KeepVector(stored, new) == IF new = 0 THEN stored ELSE new

\* A faulty Replacing: the fresh profile replaces the stored one, its status included.
ReplacingAll(copy, cv) == [text |-> cv, vector |-> VectorOf(cv), status |-> "cv_only"]

\* What an upload writes over an existing profile: its status is kept.
Replacing(copy, cv) == [text |-> cv, vector |-> VectorOf(cv), status |-> copy.status]

Save(r, new) ==
    profile' = [profile EXCEPT ![r] = [new EXCEPT !.vector = KeepVector(profile[r].vector, @)]]

UpdateProfile(w) ==
    /\ writer[w].pc = "read" /\ writer[w].row # 0
    /\ LET r == writer[w].row
           copy == writer[w].copy IN
       /\ IF writer[w].kind = "upload"
          THEN Save(r, Replacing(copy, writer[w].cv)) /\ UNCHANGED screened
          ELSE Save(r, [copy EXCEPT !.status = "screened", !.vector = 0]) /\ screened' = TRUE
       /\ disturbed' = (disturbed \/ copy # profile[r])
    /\ writer' = [writer EXCEPT ![w] = NoWriter]
    /\ UNCHANGED intake

\* There is no UNIQUE(candidate_id).
CreateProfile(w, r) ==
    /\ writer[w].pc = "read" /\ writer[w].row = 0
    /\ r \notin Profiles /\ \A s \in 1..(r - 1) : s \in Profiles
    /\ profile' = [profile EXCEPT ![r] = [text |-> writer[w].cv, vector |-> VectorOf(writer[w].cv),
                                          status |-> "cv_only"]]
    /\ disturbed' = (disturbed \/ Profiles # {})
    /\ writer' = [writer EXCEPT ![w] = NoWriter]
    /\ UNCHANGED <<intake, screened>>

\* A repository fails, or the process stops: what is written stays.
StopWriter(w) ==
    /\ writer[w] # NoWriter
    /\ writer' = [writer EXCEPT ![w] = NoWriter]
    /\ disturbed' = (disturbed \/ (writer[w].kind = "upload" /\ writer[w].pc # "drafted"))
    /\ UNCHANGED <<profile, intake, screened>>

WriterStep(w) ==
    \/ \E cv \in CVs : DraftProfile(w, cv)
    \/ MergeIntake(w) \/ ReadForUpload(w) \/ ReadForScreening(w) \/ UpdateProfile(w)
    \/ \E r \in 1..MaxProfiles : CreateProfile(w, r)
    \/ StopWriter(w)

PassportsNext == \E w \in Writers : WriterStep(w)

PassportsSpec == PassportsInit /\ [][PassportsNext]_passportVars

-----------------------------------------------------------------------------
(* A passport is of one CV: unless writers overlapped, a read failed or an     *)
(* upload stopped half-way, there is one profile; its text, its embedding and  *)
(* the intake come from the same CV; and a screened passport stays screened    *)
(* through later uploads.  The embedding of a CV with nothing evidenced is     *)
(* that of an earlier CV: an empty one does not replace it (UpdateTalentProfile). *)
Merging == \E w \in Writers : writer[w].kind = "upload" /\ writer[w].pc # "drafted"
PassportIsOfOneCV ==
    ~disturbed =>
       /\ \A r \in Profiles :
             /\ r = 1
             /\ profile[r].vector = profile[r].text \/ profile[r].text \in Blank
             /\ intake = profile[r].text \/ Merging
             /\ screened => profile[r].status = "screened"
       /\ Profiles = {} => intake = 0 \/ Merging

=============================================================================

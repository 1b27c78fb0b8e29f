---------------------------- MODULE MCComponents ----------------------------
(***************************************************************************)
(* The components that share no state, checked by one run: Init chooses    *)
(* which of them runs, and the others stand still.                         *)
(***************************************************************************)
EXTENDS Sessions, Accounts, Buckets, ModelCalls, LogShipper, Rotation,
        Shortlists, Passports, AgentRuns, Radar, Seeding, TLC

VARIABLE running   \* the component chosen

CONSTANTS t1, t2, r1, r2   \* the tabs and the calls of Sessions

Symmetry == Permutations({t1, t2}) \cup Permutations({r1, r2})

\* A row of a table with a key of its own, one that refers to it, one without a key.
MCDataset == <<<<"users", 1>>, <<"roles", 1>>, <<"applications", 1>>, <<"applications", 2>>>>

\* The role asks for a skill, and its rubric names another.
MCNeeds  == [r \in {"backend"} |-> {"go"}]
MCRubric == [r \in {"backend"} |-> {"go", "sql"}]

-----------------------------------------------------------------------------
Components == {"sessions", "accounts", "buckets", "calls", "shipper", "rotation",
               "shortlists", "passports", "agent", "radar", "seeding"}

Init ==
    /\ running \in Components
    /\ SessionInit /\ AccountsInit /\ BucketsInit /\ ModelCallsInit /\ LogShipperInit
    /\ RotationInit /\ ShortlistsInit /\ PassportsInit /\ AgentRunsInit /\ RadarInit
    /\ SeedingInit

Still(name, vars) == IF running = name THEN TRUE ELSE UNCHANGED vars

OthersStandStill ==
    /\ UNCHANGED running
    /\ Still("sessions", sessionVars) /\ Still("accounts", accountVars)
    /\ Still("buckets", bucketVars) /\ Still("calls", callVars)
    /\ Still("shipper", shipVars) /\ Still("rotation", rotationVars)
    /\ Still("shortlists", shortlistVars) /\ Still("passports", passportVars)
    /\ Still("agent", agentVars) /\ Still("radar", radarVars) /\ Still("seeding", seedVars)

Next ==
    /\ OthersStandStill
    /\ \/ running = "sessions" /\ SessionNext
       \/ running = "accounts" /\ AccountsNext
       \/ running = "buckets" /\ BucketsNext
       \/ running = "calls" /\ ModelCallsNext
       \/ running = "shipper" /\ LogShipperNext
       \/ running = "rotation" /\ RotationNext
       \/ running = "shortlists" /\ ShortlistsNext
       \/ running = "passports" /\ PassportsNext
       \/ running = "agent" /\ AgentRunsNext
       \/ running = "radar" /\ RadarNext
       \/ running = "seeding" /\ SeedingNext

Vars == <<running, sessionVars, accountVars, bucketVars, callVars, shipVars, rotationVars,
          shortlistVars, passportVars, agentVars, radarVars, seedVars>>

Spec == Init /\ [][Next]_Vars

\* Every variable of every component has its type.
TypesOK ==
    /\ SessionTypeOK /\ AccountsTypeOK /\ BucketsTypeOK /\ ModelCallsTypeOK
    /\ LogShipperTypeOK /\ RotationTypeOK /\ ShortlistsTypeOK /\ PassportsTypeOK
    /\ AgentRunsTypeOK /\ RadarTypeOK /\ SeedingTypeOK

=============================================================================

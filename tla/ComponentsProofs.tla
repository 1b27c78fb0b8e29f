--------------------------- MODULE ComponentsProofs ---------------------------
(***************************************************************************)
(* The composition of MCComponents: whichever component is chosen to run,  *)
(* what is seen of each is a behaviour of its own specification, so that   *)
(* what is proved of a component holds of the composition.                 *)
(***************************************************************************)
EXTENDS MCComponents, IdentityProofs, CandidateProofs, PlatformProofs

\* A component moves when it was chosen, and by a step of its own.
LEMMA StepsAreTheChosens ==
  ASSUME [Next]_Vars
  PROVE  /\ [SessionNext]_sessionVars /\ [AccountsNext]_accountVars
         /\ [BucketsNext]_bucketVars /\ [ModelCallsNext]_callVars
         /\ [LogShipperNext]_shipVars /\ [RotationNext]_rotationVars
         /\ [ShortlistsNext]_shortlistVars /\ [PassportsNext]_passportVars
         /\ [AgentRunsNext]_agentVars /\ [RadarNext]_radarVars /\ [SeedingNext]_seedVars
<1>1. CASE UNCHANGED Vars
  BY <1>1 DEF Vars
<1>2. CASE Next
  <2>1. OthersStandStill
    BY <1>2 DEF Next
  <2>2. running = "sessions" => SessionNext
    BY <1>2 DEF Next
  <2>3. running = "accounts" => AccountsNext
    BY <1>2 DEF Next
  <2>4. running = "buckets" => BucketsNext
    BY <1>2 DEF Next
  <2>5. running = "calls" => ModelCallsNext
    BY <1>2 DEF Next
  <2>6. running = "shipper" => LogShipperNext
    BY <1>2 DEF Next
  <2>7. running = "rotation" => RotationNext
    BY <1>2 DEF Next
  <2>8. running = "shortlists" => ShortlistsNext
    BY <1>2 DEF Next
  <2>9. running = "passports" => PassportsNext
    BY <1>2 DEF Next
  <2>10. running = "agent" => AgentRunsNext
    BY <1>2 DEF Next
  <2>11. running = "radar" => RadarNext
    BY <1>2 DEF Next
  <2>12. running = "seeding" => SeedingNext
    BY <1>2 DEF Next
  <2> QED
    BY <2>1, <2>2, <2>3, <2>4, <2>5, <2>6, <2>7, <2>8, <2>9, <2>10, <2>11, <2>12
    DEF OthersStandStill, Still
<1> QED
  BY <1>1, <1>2

(* The composition implements the specification of each of its components.        *)
THEOREM EachComponentRuns ==
  Spec => /\ SessionSpec /\ AccountsSpec /\ BucketsSpec /\ ModelCallsSpec /\ LogShipperSpec
          /\ RotationSpec /\ ShortlistsSpec /\ PassportsSpec /\ AgentRunsSpec /\ RadarSpec
          /\ SeedingSpec
<1>1. Init => /\ SessionInit /\ AccountsInit /\ BucketsInit /\ ModelCallsInit /\ LogShipperInit
              /\ RotationInit /\ ShortlistsInit /\ PassportsInit /\ AgentRunsInit /\ RadarInit
              /\ SeedingInit
  BY DEF Init
<1> QED
  BY <1>1, StepsAreTheChosens, PTL
  DEF Spec, SessionSpec, AccountsSpec, BucketsSpec, ModelCallsSpec, LogShipperSpec, RotationSpec,
      ShortlistsSpec, PassportsSpec, AgentRunsSpec, RadarSpec, SeedingSpec

(* Every variable of every component keeps its type, whatever fails or overlaps.  *)
THEOREM ComponentsTypeCorrect == Spec => []TypesOK
<1>1. SessionTypeOK /\ AccountsTypeOK /\ BucketsTypeOK /\ ModelCallsTypeOK /\ LogShipperTypeOK
      /\ RotationTypeOK /\ ShortlistsTypeOK /\ PassportsTypeOK /\ AgentRunsTypeOK
      /\ RadarTypeOK /\ SeedingTypeOK
      => TypesOK
  BY DEF TypesOK
<1> QED
  BY <1>1, EachComponentRuns, LoginsNeverFork, OneRegistration, BucketsTypeCorrect, OverspendBound,
     LinesAreShippedOnce, RotationIsComplete, SubjectsNeverDangle, PassportsAreWhole,
     AgentStaysHonest, ViewsAreRecent, SuccessMeansSeeded, PTL

(* Everything that the run of the composition checks, and two invariants more,     *)
(* for every value of the constants: overlapping requests, failures and restarts   *)
(* leave none of it false, under a policy that locks for no less than its window   *)
(* (DefaultWindow, DefaultLockout).                                                *)
THEOREM ComponentsAreSafe ==
  ASSUME Lockout >= Window, IsFiniteSet(Attempts)
  PROVE  Spec => /\ [](/\ NoFork /\ PresentsOnce /\ GuessesBounded /\ RegisteredOnceAndWhole
                       /\ OverspendIsBounded /\ AlertedExactlyOnce /\ MapIsBounded
                       /\ BufferedIsScheduled /\ EachLineOnce /\ NothingOnTheOldKey
                       /\ ContestsHaveSubjects /\ PassportIsOfOneCV /\ AgentIsHonest
                       /\ ShownIsRecent /\ SeedIsWhole)
                 /\ EndedStaysEnded /\ EvictionIsInvisible
                 /\ VerdictStands /\ ClosedStaysClosed
<1>1. AccountsSpec => []GuessesBounded
  BY GuessesAreBounded
\* The invariants, of two groups of components.
<1>2. SessionSpec /\ AccountsSpec /\ BucketsSpec /\ ModelCallsSpec
      => [](/\ NoFork /\ PresentsOnce /\ GuessesBounded /\ RegisteredOnceAndWhole
            /\ OverspendIsBounded /\ AlertedExactlyOnce /\ MapIsBounded)
  BY <1>1, LoginsNeverFork, TokensPresentedOnce, OneRegistration, OverspendBound,
     AlertsAreRaisedOnce, CeilingHolds, PTL
<1>3. /\ LogShipperSpec /\ RotationSpec /\ ShortlistsSpec /\ PassportsSpec
      /\ AgentRunsSpec /\ RadarSpec /\ SeedingSpec
      => [](/\ BufferedIsScheduled /\ EachLineOnce /\ NothingOnTheOldKey
            /\ ContestsHaveSubjects /\ PassportIsOfOneCV /\ AgentIsHonest
            /\ ShownIsRecent /\ SeedIsWhole)
  BY NothingIsForgotten, LinesAreShippedOnce, RotationIsComplete, SubjectsNeverDangle,
     PassportsAreWhole, AgentStaysHonest, ViewsAreRecent, SuccessMeansSeeded, PTL
\* The action properties and the refinement.
<1>4. SessionSpec /\ BucketsSpec /\ ShortlistsSpec
      => EndedStaysEnded /\ EvictionIsInvisible /\ VerdictStands /\ ClosedStaysClosed
  BY EndedLoginsStayEnded, BucketsImplementLimiter, VerdictsStand, DeletedRolesStayClosed
<1> QED
  BY <1>2, <1>3, <1>4, EachComponentRuns, PTL
===============================================================================

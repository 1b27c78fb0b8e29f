--------------------------- MODULE PlatformProofs ---------------------------
(***************************************************************************)
(* The small components of the platform, for every value of their          *)
(* constants: the snapshot cache, the reseed command, the alerts of the    *)
(* cost tracker and the bound of the overspend, the batching log writer,   *)
(* the token buckets and their refinement of a plain limiter, and the      *)
(* re-encryption of a table.                                               *)
(***************************************************************************)
EXTENDS Radar, Seeding, ModelCalls, LogShipper, Buckets, Rotation, FiniteSetTheorems, TLAPS

-----------------------------------------------------------------------------
(* Radar *)

\* What is under way is not slower than Slow, and what the cache holds is not good
\* for longer than TTL after that.
RadarInv ==
    /\ RadarTypeOK
    /\ snapshot.present => snapshot.expiry <= snapshot.asOf + TTL + Slow
    /\ \A v \in Viewers :
         /\ viewer[v].pc \in {"missed", "computed"}
              => viewer[v].since <= ticks /\ ticks <= viewer[v].since + Slow
         /\ viewer[v].pc = "computed" => viewer[v].since <= viewer[v].asOf
         /\ viewer[v].pc = "served" => ticks <= viewer[v].asOf + TTL + Slow

LEMMA RadarStep ==
  ASSUME RadarInv, [RadarNext]_radarVars
  PROVE  RadarInv'
<1> USE RadarAssumption
<1>0. /\ TTL \in Nat /\ Slow \in Nat /\ MaxTicks \in Nat /\ ticks \in 0..MaxTicks
      /\ snapshot.present \in BOOLEAN /\ snapshot.asOf \in 0..MaxTicks /\ snapshot.expiry \in Nat
      /\ \A v \in Viewers : viewer[v].since \in 0..MaxTicks /\ viewer[v].asOf \in 0..MaxTicks
  BY DEF RadarInv, RadarTypeOK, Snapshot, Viewer
<1>1. CASE Pass
  <2>1. /\ ticks' = ticks + 1 /\ ticks' \in 0..MaxTicks
        /\ snapshot' = snapshot /\ viewer' = viewer
    BY <1>0, <1>1 DEF Pass
  <2>2. \A v \in Viewers : /\ viewer[v].pc \in {"missed", "computed"} => ticks < viewer[v].since + Slow
                           /\ viewer[v].pc # "served"
    BY <1>1 DEF Pass
  <2> QED
    BY <1>0, <2>1, <2>2 DEF RadarInv, RadarTypeOK
<1>2. CASE RefreshSnapshots
  BY <1>2 DEF RefreshSnapshots, NoSnapshot, RadarInv, RadarTypeOK, Snapshot
\* A viewer moves, by itself.
<1>3. ASSUME NEW v \in Viewers, NEW x \in Viewer, viewer' = [viewer EXCEPT ![v] = x],
             snapshot' \in Snapshot, UNCHANGED ticks,
             snapshot'.present => snapshot'.expiry <= snapshot'.asOf + TTL + Slow,
             x.pc \in {"missed", "computed"} => x.since <= ticks /\ ticks <= x.since + Slow,
             x.pc = "computed" => x.since <= x.asOf,
             x.pc = "served" => ticks <= x.asOf + TTL + Slow
      PROVE  RadarInv'
  <2>1. viewer' \in [Viewers -> Viewer] /\ viewer'[v] = x
        /\ \A u \in Viewers : u # v => viewer'[u] = viewer[u]
    BY <1>3 DEF RadarInv, RadarTypeOK
  <2> QED
    BY <1>3, <2>1 DEF RadarInv, RadarTypeOK
<1>4. ASSUME NEW v \in Viewers, Hit(v) PROVE RadarInv'
  <2> DEFINE x == [pc |-> "served", since |-> ticks, asOf |-> snapshot.asOf]
  <2>1. x \in Viewer
    BY <1>0 DEF Viewer
  <2>2. x.pc = "served" /\ x.asOf = snapshot.asOf
    OBVIOUS
  <2>3. ticks <= x.asOf + TTL + Slow
    BY <1>0, <1>4, <2>2 DEF Hit, Fresh, RadarInv
  <2>4. viewer' = [viewer EXCEPT ![v] = x] /\ UNCHANGED <<snapshot, ticks>>
    BY <1>4 DEF Hit
  <2> HIDE DEF x
  <2> QED
    BY <1>3, <2>1, <2>2, <2>3, <2>4 DEF RadarInv, RadarTypeOK
<1>5. ASSUME NEW v \in Viewers, Miss(v) PROVE RadarInv'
  <2> DEFINE x == [pc |-> "missed", since |-> ticks, asOf |-> 0]
  <2>1. x \in Viewer
    BY <1>0 DEF Viewer
  <2>2. x.pc = "missed" /\ x.since = ticks
    OBVIOUS
  <2>3. x.since <= ticks /\ ticks <= x.since + Slow
    BY <1>0, <2>2
  <2>4. viewer' = [viewer EXCEPT ![v] = x] /\ UNCHANGED <<snapshot, ticks>>
    BY <1>5 DEF Miss
  <2> HIDE DEF x
  <2> QED
    BY <1>3, <2>1, <2>2, <2>3, <2>4 DEF RadarInv, RadarTypeOK
<1>6. ASSUME NEW v \in Viewers, Compute(v) PROVE RadarInv'
  <2> DEFINE x == [viewer[v] EXCEPT !.pc = "computed", !.asOf = ticks]
  <2>1. x \in Viewer /\ x.pc = "computed" /\ x.since = viewer[v].since /\ x.asOf = ticks
    BY <1>0 DEF RadarInv, RadarTypeOK, Viewer
  <2>2. x.since <= ticks /\ ticks <= x.since + Slow /\ x.since <= x.asOf
    BY <1>0, <1>6, <2>1 DEF Compute, RadarInv
  <2>3. viewer' = [viewer EXCEPT ![v] = x] /\ UNCHANGED <<snapshot, ticks>>
    BY <1>6 DEF Compute
  <2> HIDE DEF x
  <2> QED
    BY <1>3, <2>1, <2>2, <2>3 DEF RadarInv, RadarTypeOK
<1>7. ASSUME NEW v \in Viewers, StoreSnapshot(v) PROVE RadarInv'
  <2> DEFINE x == [viewer[v] EXCEPT !.pc = "served"]
             new == [present |-> TRUE, asOf |-> viewer[v].asOf, expiry |-> ticks + TTL]
  <2>1. x \in Viewer /\ x.pc = "served" /\ x.asOf = viewer[v].asOf
    BY DEF RadarInv, RadarTypeOK, Viewer
  <2>2. ticks <= viewer[v].asOf + Slow
    BY <1>0, <1>7 DEF StoreSnapshot, RadarInv
  <2>3. new \in Snapshot /\ new.asOf = viewer[v].asOf /\ new.expiry = ticks + TTL
    BY <1>0 DEF Snapshot
  <2>4. new.expiry <= new.asOf + TTL + Slow /\ ticks <= x.asOf + TTL + Slow
    BY <1>0, <2>1, <2>2, <2>3
  <2>5. viewer' = [viewer EXCEPT ![v] = x] /\ snapshot' = new /\ UNCHANGED ticks
    BY <1>7 DEF StoreSnapshot
  <2> HIDE DEF x, new
  <2> QED
    BY <1>3, <2>1, <2>3, <2>4, <2>5
<1>8. ASSUME NEW v \in Viewers, Deliver(v) PROVE RadarInv'
  <2>1. NoViewer \in Viewer /\ NoViewer.pc = "idle"
    BY <1>0 DEF NoViewer, Viewer
  <2>2. viewer' = [viewer EXCEPT ![v] = NoViewer] /\ UNCHANGED <<snapshot, ticks>>
    BY <1>8 DEF Deliver
  <2> QED
    BY <1>3, <2>1, <2>2 DEF RadarInv, RadarTypeOK
<1>9. CASE UNCHANGED radarVars
  BY <1>9 DEF radarVars, RadarInv, RadarTypeOK
<1> QED
  BY <1>1, <1>2, <1>4, <1>5, <1>6, <1>7, <1>8, <1>9 DEF RadarNext

(* A view is shown no later than the TTL and the longest computation after its  *)
(* repositories were read (SnapshotCache.Get and Set, CachedRadar).             *)
THEOREM ViewsAreRecent == RadarSpec => [](RadarTypeOK /\ ShownIsRecent)
<1>1. RadarInit => RadarInv
  BY RadarAssumption DEF RadarInit, RadarInv, RadarTypeOK, NoSnapshot, NoViewer, Snapshot, Viewer
<1>2. RadarInv => RadarTypeOK /\ ShownIsRecent
  BY DEF RadarInv, ShownIsRecent
<1> QED
  BY <1>1, <1>2, RadarStep, PTL DEF RadarSpec

-----------------------------------------------------------------------------
(* Seeding *)

\* While the dataset is loaded, the store is what has been created of it so far.
SeedingInv ==
    /\ SeedingTypeOK
    /\ command = "loading"
         => /\ strays = {}
            /\ \A i \in 1..Len(Dataset) : copies[Dataset[i]] = IF i < next THEN 1 ELSE 0
    /\ SeedIsWhole

LEMMA SeedingStep ==
  ASSUME SeedingInv, [SeedingNext]_seedVars
  PROVE  SeedingInv'
<1> USE SeedingAssumption DEF SeedingInv, SeedingTypeOK, SeedIsWhole
<1>0. /\ Len(Dataset) \in Nat
      /\ \A i \in 1..Len(Dataset) : Dataset[i] \in DemoRows
      /\ \A r \in DemoRows : r[1] \in Tables
  BY DEF DemoRows, Tables
<1>1. CASE StartReseed
  BY <1>1 DEF StartReseed
<1>2. CASE Reset
  <2>1. copies' = [r \in DemoRows |-> 0] /\ strays' = {} /\ next' = 1 /\ command' = "loading"
    BY <1>0, <1>2 DEF Reset, Truncated, Tables
  <2> QED
    BY <1>0, <2>1
<1>3. CASE Create
  <2> DEFINE row == Dataset[next]
  <2>1. next \in 1..Len(Dataset) /\ row \in DemoRows /\ copies[row] = 0 /\ strays' = {}
    BY <1>0, <1>3 DEF Create
  <2>2. copies' = [copies EXCEPT ![row] = 1] /\ next' = next + 1 /\ command' = "loading"
    BY <1>3, <2>1 DEF Create
  <2>3. copies' \in [DemoRows -> 0..MaxCopies] /\ next' \in 1..(Len(Dataset) + 1)
    BY <1>0, <2>1, <2>2
  <2>4. \A i \in 1..Len(Dataset) : copies'[Dataset[i]] = IF i < next' THEN 1 ELSE 0
    <3> TAKE i \in 1..Len(Dataset)
    <3>1. CASE i = next
      BY <1>0, <2>1, <2>2, <3>1
    <3>2. CASE i # next
      <4>1. Dataset[i] # row /\ copies[Dataset[i]] = IF i < next THEN 1 ELSE 0
        BY <1>3, <2>1, <3>2 DEF Create
      <4> QED
        BY <1>0, <2>1, <2>2, <3>2, <4>1
    <3> QED
      BY <3>1, <3>2
  <2> QED
    BY <2>1, <2>2, <2>3, <2>4
<1>4. CASE Succeed
  <2>1. \A r \in DemoRows : copies[r] = 1
    <3>1. \A i \in 1..Len(Dataset) : copies[Dataset[i]] = 1
      BY <1>0, <1>4 DEF Succeed
    <3> QED
      BY <3>1 DEF DemoRows
  <2> QED
    BY <1>4, <2>1 DEF Succeed
<1>5. CASE Fail
  BY <1>5 DEF Fail
<1>6. ASSUME NEW tb \in Tables, Use(tb) PROVE SeedingInv'
  BY <1>6 DEF Use
<1>7. CASE UNCHANGED seedVars
  BY <1>7 DEF seedVars
<1> QED
  BY <1>1, <1>2, <1>3, <1>4, <1>5, <1>6, <1>7 DEF SeedingNext

(* A reseed that reports success has left exactly the dataset (Reseed, Load).   *)
THEOREM SuccessMeansSeeded == SeedingSpec => [](SeedingTypeOK /\ SeedIsWhole)
<1>1. SeedingInit => SeedingInv
  BY SeedingAssumption DEF SeedingInit, SeedingInv, SeedingTypeOK, SeedIsWhole, Tables
<1>2. SeedingInv => SeedingTypeOK /\ SeedIsWhole
  BY DEF SeedingInv
<1> QED
  BY <1>1, <1>2, SeedingStep, PTL DEF SeedingSpec

-----------------------------------------------------------------------------
(* ModelCalls *)

\* The spend as far as it is counted, and the alerts it has raised.
AlertInv ==
    /\ spent \in 0..Ceiling
    /\ cost \in [Callers -> Nat]
    /\ alerts \in [Thresholds -> Nat]
    /\ AlertedExactlyOnce

LEMMA AlertStep ==
  ASSUME AlertInv, [ModelCallsNext]_callVars
  PROVE  AlertInv'
<1> USE ModelCallsAssumption DEF AlertInv, AlertedExactlyOnce
<1>0. MaxCost \in Nat /\ Ceiling \in Nat /\ \A t \in Thresholds : t \in 1..Ceiling
  OBVIOUS
<1>1. ASSUME NEW c \in Callers, NEW amount \in Nat, cost' = [cost EXCEPT ![c] = amount],
             UNCHANGED <<spent, alerts>>
      PROVE  AlertInv'
  BY <1>1
<1>2. ASSUME NEW c \in Callers, Refused(c) \/ Answer(c)
      PROVE  (\E amount \in Nat : cost' = [cost EXCEPT ![c] = amount]) /\ UNCHANGED <<spent, alerts>>
  BY <1>0, <1>2 DEF Refused, Answer
<1>3. ASSUME NEW c \in Callers, Record(c) PROVE AlertInv'
  <2>1. spent' = Capped(spent + cost[c]) /\ cost' = [cost EXCEPT ![c] = 0]
    BY <1>3 DEF Record
  <2>2. /\ spent' \in 0..Ceiling /\ spent <= spent' /\ cost' \in [Callers -> Nat]
        /\ cost[c] = 0 => spent' = spent
    BY <1>0, <2>1 DEF Capped
  <2>3. alerts' = [t \in Thresholds |->
                     IF spent' >= t /\ cost[c] > 0 /\ alerts[t] = 0 THEN 1 ELSE alerts[t]]
    BY <1>3 DEF Record
  <2>4. \A t \in Thresholds : alerts'[t] = IF spent' >= t THEN 1 ELSE 0
    <3> TAKE t \in Thresholds
    <3>1. /\ t \in Nat /\ cost[c] \in Nat /\ alerts[t] = IF spent >= t THEN 1 ELSE 0
          /\ alerts'[t] = IF spent' >= t /\ cost[c] > 0 /\ alerts[t] = 0 THEN 1 ELSE alerts[t]
      BY <1>0, <2>3
    <3> QED
      BY <2>2, <3>1
  <2>5. alerts' \in [Thresholds -> Nat]
    BY <2>3
  <2> QED
    BY <2>2, <2>4, <2>5
<1>4. CASE UNCHANGED <<cost, spent, alerts>>
  BY <1>4
<1>5. \/ UNCHANGED <<cost, spent, alerts>>
      \/ \E c \in Callers : Refused(c) \/ Answer(c) \/ Record(c)
  BY DEF ModelCallsNext, CallerStep, Begin, PassLimiter, PassBudget, Acquire, callVars
<1> QED
  BY <1>1, <1>2, <1>3, <1>4, <1>5

(* "Each threshold alerts at most once", and exactly once when the spend has     *)
(* reached it (CostTracker.Record, under its lock).                              *)
THEOREM AlertsAreRaisedOnce == ModelCallsSpec => []AlertedExactlyOnce
<1>1. ModelCallsInit => AlertInv
  <2>1. Ceiling \in Nat /\ \A t \in Thresholds : t \in Nat /\ t > 0
    BY ModelCallsAssumption
  <2> QED
    BY <2>1 DEF ModelCallsInit, AlertInv, AlertedExactlyOnce
<1>2. AlertInv => AlertedExactlyOnce
  BY DEF AlertInv
<1> QED
  BY <1>1, <1>2, AlertStep, PTL DEF ModelCallsSpec

\* The cost that has been billed and not yet recorded, unit by unit.
ToRecord == {p \in Callers \X (1..MaxCost) : stage[p[1]] = "recording" /\ p[2] <= cost[p[1]]}

\* Calls that have passed the budget and are not billed yet.
Committed == {c \in Callers : stage[c] \in {"waiting", "calling"}}

Recording == {c \in Callers : stage[c] = "recording"}

\* The inductive invariant.  While the budget is open, what was billed is recorded or
\* about to be; a caller that passes it has no cost of its own to record, so that it
\* takes one share of MaxCost.
SpendInv ==
    /\ ModelCallsTypeOK
    /\ spent < Budget => billed <= spent + Cardinality(ToRecord)
    /\ billed + MaxCost * Cardinality(Committed) < Budget + MaxCost * Cardinality(Callers)

LEMMA CallerFacts ==
  /\ IsFiniteSet(ToRecord) /\ IsFiniteSet(Committed) /\ IsFiniteSet(Recording)
  /\ Cardinality(ToRecord) \in Nat /\ Cardinality(Committed) \in Nat
  /\ Cardinality(Recording) \in Nat /\ Cardinality(Callers) \in Nat
  /\ MaxCost \in Nat /\ Budget \in Nat /\ Ceiling \in Nat /\ Budget <= Ceiling
<1>1. MaxCost \in Nat /\ Budget \in Nat /\ Ceiling \in Nat /\ Budget <= Ceiling
      /\ IsFiniteSet(Callers)
  BY ModelCallsAssumption
<1>2. IsFiniteSet(1..MaxCost)
  BY <1>1, FS_Interval
<1>3. IsFiniteSet(Callers \X (1..MaxCost))
  BY <1>1, <1>2, FS_Product
<1>4. ToRecord \in SUBSET (Callers \X (1..MaxCost))
  BY DEF ToRecord
<1>5. Committed \in SUBSET Callers /\ Recording \in SUBSET Callers
  BY DEF Committed, Recording
<1>6. IsFiniteSet(ToRecord) /\ IsFiniteSet(Committed) /\ IsFiniteSet(Recording)
  BY <1>1, <1>3, <1>4, <1>5, FS_Subset
<1> QED
  BY <1>1, <1>6, FS_CardinalityType

\* The units of one caller's cost.
LEMMA PieceSize ==
  ASSUME NEW c \in Callers, NEW amount \in 0..MaxCost
  PROVE  IsFiniteSet({c} \X (1..amount)) /\ Cardinality({c} \X (1..amount)) = amount
<1>1. amount \in Nat /\ 1 \in Int /\ amount \in Int
  BY CallerFacts
<1>2. IsFiniteSet(1..amount) /\ Cardinality(1..amount) = amount
  BY <1>1, FS_Interval
<1>3. IsFiniteSet({c}) /\ Cardinality({c}) = 1
  BY FS_Singleton
<1>4. IsFiniteSet({c} \X (1..amount)) /\ Cardinality({c} \X (1..amount)) = 1 * amount
  BY <1>2, <1>3, FS_Product
<1> QED
  BY <1>1, <1>4

\* A caller comes to "recording" with a cost: its units are to be recorded.
LEMMA UnitsArrive ==
  ASSUME ModelCallsTypeOK, NEW c \in Callers, NEW amount \in 0..MaxCost,
         stage[c] # "recording", stage' = [stage EXCEPT ![c] = "recording"],
         cost' = [cost EXCEPT ![c] = amount]
  PROVE  Cardinality(ToRecord') = Cardinality(ToRecord) + amount
<1> DEFINE piece == {c} \X (1..amount)
<1>1. ToRecord' = ToRecord \cup piece
  <2>1. /\ stage'[c] = "recording" /\ cost'[c] = amount
        /\ \A d \in Callers : d # c => stage'[d] = stage[d] /\ cost'[d] = cost[d]
    BY DEF ModelCallsTypeOK
  <2>2. ASSUME NEW d \in Callers, NEW i \in 1..MaxCost
        PROVE  <<d, i>> \in ToRecord' <=> <<d, i>> \in ToRecord \cup piece
    <3>1. CASE d = c
      <4>1. <<d, i>> \in ToRecord' <=> i <= amount
        BY <2>1, <3>1 DEF ToRecord
      <4>2. <<d, i>> \notin ToRecord
        BY <3>1 DEF ToRecord
      <4>3. <<d, i>> \in piece <=> i <= amount
        BY <3>1, CallerFacts
      <4> QED
        BY <4>1, <4>2, <4>3
    <3>2. CASE d # c
      <4>1. <<d, i>> \notin piece
        BY <3>2
      <4>2. <<d, i>> \in ToRecord' <=> <<d, i>> \in ToRecord
        BY <2>1, <3>2 DEF ToRecord
      <4> QED
        BY <4>1, <4>2
    <3> QED
      BY <3>1, <3>2
  <2>3. ToRecord \subseteq Callers \X (1..MaxCost) /\ ToRecord' \subseteq Callers \X (1..MaxCost)
    BY DEF ToRecord
  <2>4. piece \subseteq Callers \X (1..MaxCost)
    <3>1. 1..amount \subseteq 1..MaxCost
      BY CallerFacts
    <3> QED
      BY <3>1
  <2> HIDE DEF piece
  <2>5. \A p \in Callers \X (1..MaxCost) : p \in ToRecord' <=> p \in ToRecord \cup piece
    BY <2>2
  <2> QED
    BY <2>3, <2>4, <2>5
<1>2. ToRecord \cap piece = {}
  BY DEF ToRecord
<1>3. IsFiniteSet(piece) /\ Cardinality(piece) = amount
  BY PieceSize
<1> HIDE DEF piece
<1>4. Cardinality(ToRecord \cup piece)
        = Cardinality(ToRecord) + Cardinality(piece) - Cardinality(ToRecord \cap piece)
  BY <1>3, CallerFacts, FS_Union
<1> QED
  BY <1>1, <1>2, <1>3, <1>4, CallerFacts, FS_EmptySet

\* A caller has recorded its cost: its units are gone.
LEMMA UnitsLeave ==
  ASSUME ModelCallsTypeOK, NEW c \in Callers,
         stage[c] = "recording", NEW to \in {"limiter", "idle"}, stage' = [stage EXCEPT ![c] = to],
         cost' = [cost EXCEPT ![c] = 0]
  PROVE  Cardinality(ToRecord) = Cardinality(ToRecord') + cost[c]
<1> DEFINE piece == {c} \X (1..cost[c])
<1>0. cost[c] \in 0..MaxCost
  BY DEF ModelCallsTypeOK
<1>1. ToRecord = ToRecord' \cup piece
  <2>1. /\ stage'[c] # "recording"
        /\ \A d \in Callers : d # c => stage'[d] = stage[d] /\ cost'[d] = cost[d]
    BY DEF ModelCallsTypeOK
  <2>2. ASSUME NEW d \in Callers, NEW i \in 1..MaxCost
        PROVE  <<d, i>> \in ToRecord <=> <<d, i>> \in ToRecord' \cup piece
    <3>1. CASE d = c
      <4>1. <<d, i>> \in ToRecord <=> i <= cost[c]
        BY <3>1 DEF ToRecord
      <4>2. <<d, i>> \notin ToRecord'
        BY <2>1, <3>1 DEF ToRecord
      <4>3. <<d, i>> \in piece <=> i <= cost[c]
        BY <1>0, <3>1, CallerFacts
      <4> QED
        BY <4>1, <4>2, <4>3
    <3>2. CASE d # c
      <4>1. <<d, i>> \notin piece
        BY <3>2
      <4>2. <<d, i>> \in ToRecord' <=> <<d, i>> \in ToRecord
        BY <2>1, <3>2 DEF ToRecord
      <4> QED
        BY <4>1, <4>2
    <3> QED
      BY <3>1, <3>2
  <2>3. ToRecord \subseteq Callers \X (1..MaxCost) /\ ToRecord' \subseteq Callers \X (1..MaxCost)
    BY DEF ToRecord
  <2>4. piece \subseteq Callers \X (1..MaxCost)
    <3>1. 1..cost[c] \subseteq 1..MaxCost
      BY <1>0, CallerFacts
    <3> QED
      BY <3>1
  <2> HIDE DEF piece
  <2>5. \A p \in Callers \X (1..MaxCost) : p \in ToRecord <=> p \in ToRecord' \cup piece
    BY <2>2
  <2> QED
    BY <2>3, <2>4, <2>5
<1>2. ToRecord' \cap piece = {}
  BY DEF ToRecord, ModelCallsTypeOK
<1>3. IsFiniteSet(piece) /\ Cardinality(piece) = cost[c]
  BY <1>0, PieceSize
<1> HIDE DEF piece
<1>4. ToRecord' \in SUBSET ToRecord
  BY <1>1
<1>5. IsFiniteSet(ToRecord') /\ Cardinality(ToRecord') \in Nat
  BY <1>4, CallerFacts, FS_Subset, FS_CardinalityType
<1>6. Cardinality(ToRecord' \cup piece)
        = Cardinality(ToRecord') + Cardinality(piece) - Cardinality(ToRecord' \cap piece)
  BY <1>3, <1>5, FS_Union
<1>7. Cardinality(ToRecord' \cap piece) = 0
  BY <1>2, FS_EmptySet
<1>8. cost[c] \in Nat
  BY <1>0, CallerFacts
<1>9. Cardinality(ToRecord) = Cardinality(ToRecord' \cup piece)
  BY <1>1
<1> QED
  BY <1>3, <1>5, <1>6, <1>7, <1>8, <1>9

\* A multiple of the dearest call.
LEMMA Shares ==
  ASSUME NEW k \in Nat, NEW m \in Nat, NEW n \in Nat
  PROVE  /\ k * m \in Nat
         /\ k * (m + 1) = k * m + k
         /\ k * (m + n) = k * m + k * n
         /\ m <= n => k * m <= k * n
<1>1. k * m \in Nat /\ k * (m + 1) = k * m + k /\ k * (m + n) = k * m + k * n
  BY SMT
<1>2. ASSUME m <= n PROVE k * m <= k * n
  <2>1. PICK d \in Nat : n = m + d
    <3>1. n - m \in Nat /\ n = m + (n - m)
      BY <1>2
    <3> QED
      BY <3>1
  <2>2. k * (m + d) = k * m + k * d /\ k * d \in Nat /\ k * m \in Nat
    BY SMT
  <2> QED
    BY <2>1, <2>2
<1> QED
  BY <1>1, <1>2

\* What is committed and what is about to be recorded belongs to different callers.
LEMMA RoomForOneMore ==
  ASSUME NEW c \in Callers, stage[c] = "budget"
  PROVE  Cardinality(Committed) + 1 + Cardinality(Recording) <= Cardinality(Callers)
<1> DEFINE busy == Committed \cup Recording
<1>1. busy \in SUBSET (Callers \ {c})
  BY DEF Committed, Recording
<1>2. Committed \cap Recording = {}
  BY DEF Committed, Recording
<1>3. Cardinality(busy) = Cardinality(Committed) + Cardinality(Recording)
  <2>1. Cardinality(busy) = Cardinality(Committed) + Cardinality(Recording)
                              - Cardinality(Committed \cap Recording)
    BY CallerFacts, FS_Union
  <2>2. Cardinality(Committed \cap Recording) = 0
    BY <1>2, FS_EmptySet
  <2> HIDE DEF busy
  <2> QED
    BY <2>1, <2>2, CallerFacts
<1>4. IsFiniteSet(Callers \ {c}) /\ Cardinality(Callers \ {c}) = Cardinality(Callers) - 1
  BY ModelCallsAssumption, FS_RemoveElement
<1>5. Cardinality(busy) <= Cardinality(Callers \ {c})
  BY <1>1, <1>4, FS_Subset
<1> QED
  BY <1>3, <1>4, <1>5, CallerFacts

\* No caller has more than one dearest call to record.
LEMMA UnitsAreShares == Cardinality(ToRecord) <= MaxCost * Cardinality(Recording)
<1>1. IsFiniteSet(1..MaxCost) /\ Cardinality(1..MaxCost) = MaxCost
  <2>1. 1 \in Int /\ MaxCost \in Int /\ MaxCost >= 1
    BY ModelCallsAssumption
  <2> QED
    BY <2>1, FS_Interval
<1>2. /\ IsFiniteSet(Recording \X (1..MaxCost))
      /\ Cardinality(Recording \X (1..MaxCost)) = Cardinality(Recording) * MaxCost
  BY <1>1, CallerFacts, FS_Product
<1>3. ToRecord \in SUBSET (Recording \X (1..MaxCost))
  BY DEF ToRecord, Recording
<1>4. Cardinality(ToRecord) <= Cardinality(Recording \X (1..MaxCost))
  BY <1>2, <1>3, FS_Subset
<1>5. Cardinality(Recording) * MaxCost = MaxCost * Cardinality(Recording)
  BY CallerFacts
<1> QED
  BY <1>2, <1>4, <1>5

LEMMA CallsType ==
  ASSUME ModelCallsTypeOK, [ModelCallsNext]_callVars
  PROVE  ModelCallsTypeOK'
<1> USE ModelCallsAssumption DEF ModelCallsTypeOK
<1>1. ASSUME NEW c \in Callers, CallerStep(c) PROVE ModelCallsTypeOK'
  <2>1. CASE Begin(c)
    BY <2>1 DEF Begin, Move, Stages
  <2>2. CASE PassLimiter(c) \/ PassBudget(c) \/ Acquire(c)
    BY <2>2 DEF PassLimiter, PassBudget, Acquire, Move, Stages
  <2>3. CASE Refused(c)
    BY <2>3 DEF Refused, Move, Stages
  <2>4. CASE Answer(c)
    BY <2>4 DEF Answer, Move, Stages
  <2>5. CASE Record(c)
    <3>1. stage' \in [Callers -> Stages] /\ cost' \in [Callers -> 0..MaxCost]
          /\ again' \in [Callers -> BOOLEAN] /\ billed' \in Nat
      BY <2>5 DEF Record, Stages
    <3>2. tries' \in [Callers -> 0..MaxAttempts]
      BY <2>5 DEF Record
    <3>3. spent' \in 0..Ceiling
      BY <2>5 DEF Record, Capped
    <3>4. alerts' \in [Thresholds -> Nat]
      BY <2>5 DEF Record
    <3> QED
      BY <3>1, <3>2, <3>3, <3>4
  <2> QED
    BY <1>1, <2>1, <2>2, <2>3, <2>4, <2>5 DEF CallerStep
<1>2. CASE UNCHANGED callVars
  BY <1>2 DEF callVars
<1> QED
  BY <1>1, <1>2 DEF ModelCallsNext

LEMMA SpendStep ==
  ASSUME SpendInv, [ModelCallsNext]_callVars
  PROVE  SpendInv'
<1> DEFINE K == Cardinality(Callers)
           M == Cardinality(Committed)
           U == Cardinality(ToRecord)
<1>0. /\ ModelCallsTypeOK /\ ModelCallsTypeOK'
      /\ K \in Nat /\ M \in Nat /\ U \in Nat /\ MaxCost \in Nat /\ Budget \in Nat
      /\ spent \in Nat /\ billed \in Nat /\ Ceiling \in Nat /\ Budget <= Ceiling
  BY CallsType, CallerFacts DEF SpendInv, ModelCallsTypeOK
<1>k. /\ MaxCost * M \in Nat /\ MaxCost * K \in Nat
      /\ billed + MaxCost * M < Budget + MaxCost * K
      /\ spent < Budget => billed <= spent + U
  BY <1>0, Shares DEF SpendInv
\* Steps that bill and record nothing, and commit nobody.
<1>1. ASSUME Committed' = Committed, ToRecord' = ToRecord, UNCHANGED <<spent, billed>>
      PROVE  SpendInv'
  BY <1>0, <1>1 DEF SpendInv
<1>2. ASSUME NEW c \in Callers, CallerStep(c) PROVE SpendInv'
  \* A caller that comes to "recording": its cost is bounded by its share, or by none.
  <2>1. ASSUME NEW amount \in 0..MaxCost, stage[c] # "recording",
               stage' = [stage EXCEPT ![c] = "recording"], cost' = [cost EXCEPT ![c] = amount],
               spent' = spent,
               billed' = billed \/ (stage[c] = "calling" /\ billed' = billed + amount)
        PROVE  SpendInv'
    <3>1. Cardinality(ToRecord') = U + amount
      BY <1>0, <2>1, UnitsArrive
    <3>2. amount \in Nat /\ amount <= MaxCost
      BY <1>0
    <3>3. Committed' = Committed \ {c}
      BY <1>0, <2>1 DEF Committed, ModelCallsTypeOK
    <3>4. Cardinality(Committed') = IF c \in Committed THEN M - 1 ELSE M
      BY <3>3, CallerFacts, FS_RemoveElement
    <3>5. spent' < Budget => billed' <= spent' + Cardinality(ToRecord')
      BY <1>0, <1>k, <2>1, <3>1, <3>2
    <3>6. billed' + MaxCost * Cardinality(Committed') < Budget + MaxCost * K
      <4>1. CASE c \in Committed
        <5>1. IsFiniteSet(Committed) /\ M # 0
          BY <4>1, CallerFacts, FS_EmptySet
        <5>2. M - 1 \in Nat
          BY <1>0, <5>1
        <5>3. MaxCost * ((M - 1) + 1) = MaxCost * (M - 1) + MaxCost /\ MaxCost * (M - 1) \in Nat
          BY <1>0, <5>2, Shares
        <5>4. (M - 1) + 1 = M
          BY <1>0
        <5>5. MaxCost * M = MaxCost * (M - 1) + MaxCost
          BY <5>3, <5>4
        <5> HIDE DEF M, K, U
        <5>6. billed' <= billed + MaxCost
          BY <1>0, <2>1, <3>2
        <5>7. Cardinality(Committed') = M - 1
          BY <3>4, <4>1
        <5>8. billed' + MaxCost * (M - 1) <= billed + MaxCost * M
          BY <1>0, <5>3, <5>5, <5>6, <2>1, <3>2
        <5>9. billed' \in Nat /\ billed' + MaxCost * (M - 1) < Budget + MaxCost * K
          BY <1>0, <1>k, <2>1, <3>2, <5>3, <5>8
        <5> QED
          BY <5>7, <5>9
      <4>2. CASE c \notin Committed
        BY <1>0, <1>k, <2>1, <3>4, <4>2 DEF Committed
      <4> QED
        BY <4>1, <4>2
    <3> QED
      BY <1>0, <3>5, <3>6 DEF SpendInv
  <2>2. CASE Begin(c) \/ PassLimiter(c) \/ Acquire(c)
    <3>1. Committed' = Committed /\ ToRecord' = ToRecord /\ UNCHANGED <<spent, billed>>
      BY <1>0, <2>2 DEF Begin, PassLimiter, Acquire, Move, Committed, ToRecord, ModelCallsTypeOK
    <3> QED
      BY <1>1, <3>1
  <2>3. CASE PassBudget(c)
    <3>1. /\ spent < Budget /\ stage[c] = "budget" /\ stage' = [stage EXCEPT ![c] = "waiting"]
          /\ cost' = cost /\ spent' = spent /\ billed' = billed
      BY <2>3 DEF PassBudget, WithinBudget, Move
    <3>2. Committed' = Committed \cup {c} /\ c \notin Committed
      BY <1>0, <3>1 DEF Committed, ModelCallsTypeOK
    <3>3. ToRecord' = ToRecord
      BY <1>0, <3>1 DEF ToRecord, ModelCallsTypeOK
    <3>4. Cardinality(Committed') = M + 1
      BY <3>2, CallerFacts, FS_AddElement
    <3> DEFINE R == Cardinality(Recording)
    <3>5. R \in Nat /\ (M + 1) + R <= K /\ U <= MaxCost * R
      BY <1>0, <3>1, CallerFacts, RoomForOneMore, UnitsAreShares
    <3>6. MaxCost * ((M + 1) + R) <= MaxCost * K
      BY <1>0, <3>5, Shares
    <3>7. MaxCost * ((M + 1) + R) = MaxCost * (M + 1) + MaxCost * R
          /\ MaxCost * (M + 1) \in Nat /\ MaxCost * R \in Nat
      BY <1>0, <3>5, Shares
    <3>8. billed < Budget + U
      BY <1>0, <1>k, <3>1
    <3>9. billed + MaxCost * (M + 1) < Budget + MaxCost * K
      <4> HIDE DEF M, K, U, R
      <4> QED
        BY <1>0, <1>k, <3>5, <3>6, <3>7, <3>8
    <3> QED
      BY <1>0, <1>k, <3>1, <3>3, <3>4, <3>9 DEF SpendInv
  <2>4. CASE Refused(c)
    <3>1. \E amount \in 0..1 : cost' = [cost EXCEPT ![c] = amount]
      BY <2>4 DEF Refused
    <3>0. 0..1 \subseteq 0..MaxCost
      BY ModelCallsAssumption
    <3>2. PICK amount \in 0..MaxCost : cost' = [cost EXCEPT ![c] = amount]
      BY <3>0, <3>1, Zenon
    <3>3. stage[c] # "recording" /\ stage' = [stage EXCEPT ![c] = "recording"]
      BY <2>4 DEF Refused, Move
    <3>4. spent' = spent /\ billed' = billed
      BY <2>4 DEF Refused
    <3>5. billed' = billed \/ (stage[c] = "calling" /\ billed' = billed + amount)
      BY <3>4
    <3> QED
      BY <2>1, <3>2, <3>3, <3>4, <3>5, Zenon
  <2>5. CASE Answer(c)
    <3>1. PICK amount \in 0..MaxCost :
             cost' = [cost EXCEPT ![c] = amount] /\ billed' = billed + amount
      BY <2>5 DEF Answer
    <3>2. stage[c] = "calling" /\ stage' = [stage EXCEPT ![c] = "recording"] /\ spent' = spent
      BY <2>5 DEF Answer, Move
    <3> QED
      BY <2>1, <3>1, <3>2
  <2>6. CASE Record(c)
    <3>1. PICK to \in {"limiter", "idle"} : stage' = [stage EXCEPT ![c] = to]
      BY <2>6 DEF Record
    <3>2. /\ stage[c] = "recording" /\ cost' = [cost EXCEPT ![c] = 0] /\ billed' = billed
          /\ spent' = Capped(spent + cost[c])
      BY <2>6 DEF Record
    <3>3. U = Cardinality(ToRecord') + cost[c]
      BY <1>0, <3>1, <3>2, UnitsLeave
    <3>4. Committed' = Committed
      BY <1>0, <3>1, <3>2 DEF Committed, ModelCallsTypeOK
    <3>5. cost[c] \in Nat
      BY <1>0 DEF ModelCallsTypeOK
    <3>6. spent' < Budget => spent' = spent + cost[c] /\ spent < Budget
      BY <1>0, <3>2, <3>5 DEF Capped
    <3>7. U - cost[c] = Cardinality(ToRecord') /\ Cardinality(ToRecord') \in Int
      <4>1. ToRecord' \in SUBSET ToRecord
        BY <1>0, <3>1, <3>2 DEF ToRecord, ModelCallsTypeOK
      <4>2. Cardinality(ToRecord') \in Nat
        BY <4>1, CallerFacts, FS_Subset, FS_CardinalityType
      <4> HIDE DEF U
      <4> QED
        BY <3>3, <3>5, <4>2
    <3>8. spent' < Budget => billed' <= spent' + Cardinality(ToRecord')
      <4> HIDE DEF U
      <4> QED
        BY <1>0, <1>k, <3>2, <3>5, <3>6, <3>7
    <3> QED
      BY <1>0, <1>k, <3>2, <3>4, <3>8 DEF SpendInv
  <2> QED
    BY <1>2, <2>2, <2>3, <2>4, <2>5, <2>6 DEF CallerStep
<1>3. CASE UNCHANGED callVars
  BY <1>1, <1>3 DEF callVars, Committed, ToRecord
<1> QED
  BY <1>2, <1>3 DEF ModelCallsNext

(* The provider is never billed for more than the budget and one dearest call of  *)
(* each caller: the budget is checked before the call and charged after it        *)
(* (Guarded.Complete, CostTracker.Record).                                        *)
THEOREM OverspendBound == ModelCallsSpec => [](ModelCallsTypeOK /\ OverspendIsBounded)
<1>1. ModelCallsInit => SpendInv
  <2> SUFFICES ASSUME ModelCallsInit PROVE SpendInv
    OBVIOUS
  <2>1. Committed = {} /\ ToRecord = {}
    BY DEF ModelCallsInit, Committed, ToRecord
  <2>2. Cardinality({}) = 0
    BY FS_EmptySet
  <2>3. MaxCost * 0 = 0 /\ MaxCost * Cardinality(Callers) \in Nat
    BY CallerFacts, Shares
  <2>4. ModelCallsTypeOK
    BY ModelCallsAssumption DEF ModelCallsInit, ModelCallsTypeOK, Stages
  <2>5. Budget > 0 /\ billed = 0 /\ spent = 0
    BY ModelCallsAssumption DEF ModelCallsInit
  <2> QED
    BY <2>1, <2>2, <2>3, <2>4, <2>5, CallerFacts DEF SpendInv
<1>2. SpendInv => ModelCallsTypeOK /\ OverspendIsBounded
  <2>1. MaxCost * Cardinality(Committed) \in Nat /\ MaxCost * Cardinality(Callers) \in Nat
        /\ MaxCost * Cardinality(Callers) = Cardinality(Callers) * MaxCost
    BY CallerFacts, Shares
  <2> QED
    BY <2>1, CallerFacts DEF SpendInv, ModelCallsTypeOK, OverspendIsBounded
<1> QED
  BY <1>1, <1>2, SpendStep, PTL DEF ModelCallsSpec

-----------------------------------------------------------------------------
(* LogShipper *)

\* The writer's timer is armed, or its callback is on its way: what Write relies on
\* when it arms none.
TimerRuns == timer # NoTimer => clockwork[timer] \in {"armed", "fired"}

\* EachLineOnce, of whichever sets.
Placed(buf, hand, out, done, n) ==
    LET held == hand \cup out IN
    /\ buf \cup (UNION held) \cup done = 1..n
    /\ buf \cap (done \cup UNION held) = {} /\ done \cap (UNION held) = {}
    /\ hand \cap out = {} /\ \A a, b \in held : a = b \/ a \cap b = {}

LEMMA EachLineIsPlaced == EachLineOnce <=> Placed(buffer, inHand, batches, pushed, lines)
BY DEF EachLineOnce, Placed

\* A new line is in no place yet.
LEMMA PlaceNew ==
  ASSUME NEW buf, NEW hand, NEW out, NEW done, NEW n \in Nat, Placed(buf, hand, out, done, n)
  PROVE  Placed(buf \cup {n + 1}, hand, out, done, n + 1)
<1>1. /\ n + 1 \notin buf /\ n + 1 \notin done /\ n + 1 \notin UNION (hand \cup out)
  <2>1. n + 1 \notin 1..n
    OBVIOUS
  <2>2. buf \cup (UNION (hand \cup out)) \cup done = 1..n
    BY DEF Placed
  <2> QED
    BY <2>1, <2>2
<1>2. 1..(n + 1) = (1..n) \cup {n + 1}
  OBVIOUS
<1> QED
  BY <1>1, <1>2 DEF Placed

\* The buffer becomes a batch.
LEMMA PlaceTaken ==
  ASSUME NEW buf, NEW hand, NEW out, NEW done, NEW n \in Nat, Placed(buf, hand, out, done, n),
         NEW taken, taken = IF buf = {} THEN hand ELSE hand \cup {buf}
  PROVE  Placed({}, taken, out, done, n)
<1>1. CASE buf = {}
  BY <1>1 DEF Placed
<1>2. CASE buf # {}
  <2>1. UNION ((hand \cup {buf}) \cup out) = buf \cup UNION (hand \cup out)
    OBVIOUS
  <2>2. \A a \in hand \cup out : a \subseteq UNION (hand \cup out) /\ a \cap buf = {}
    BY DEF Placed
  <2>3. buf \notin out
    BY <1>2, <2>2
  <2> QED
    BY <1>2, <2>1, <2>2, <2>3 DEF Placed
<1> QED
  BY <1>1, <1>2

\* A batch is given to a goroutine.
LEMMA PlaceShipped ==
  ASSUME NEW buf, NEW hand, NEW out, NEW done, NEW n \in Nat, Placed(buf, hand, out, done, n),
         NEW B \in hand
  PROVE  Placed(buf, hand \ {B}, out \cup {B}, done, n)
<1>1. (hand \ {B}) \cup (out \cup {B}) = hand \cup out
  OBVIOUS
<1> QED
  BY <1>1 DEF Placed

\* A batch is pushed.
LEMMA PlacePushed ==
  ASSUME NEW buf, NEW hand, NEW out, NEW done, NEW n \in Nat, Placed(buf, hand, out, done, n),
         NEW B \in out
  PROVE  Placed(buf, hand, out \ {B}, done \cup B, n)
<1>1. B \notin hand /\ B \in hand \cup out
  BY DEF Placed
<1>2. hand \cup (out \ {B}) = (hand \cup out) \ {B}
  BY <1>1
<1>3. B \cup UNION ((hand \cup out) \ {B}) = UNION (hand \cup out)
  <2>1. \A S : B \in S => B \cup UNION (S \ {B}) = UNION S
    OBVIOUS
  <2> QED
    BY <1>1, <2>1
<1>4. \A a \in (hand \cup out) \ {B} : a \cap B = {}
  BY <1>1 DEF Placed
<1>5. B \cap UNION ((hand \cup out) \ {B}) = {}
  BY <1>4
<1> QED
  BY <1>1, <1>2, <1>3, <1>4, <1>5 DEF Placed

\* Close sends what is buffered itself.
LEMMA PlaceClosed ==
  ASSUME NEW buf, NEW hand, NEW out, NEW done, NEW n \in Nat, Placed(buf, hand, out, done, n)
  PROVE  Placed({}, hand, out, done \cup buf, n)
<1> DEFINE carried == UNION (hand \cup out)
<1>1. buf \cup carried \cup done = 1..n /\ buf \cap carried = {} /\ done \cap carried = {}
  BY DEF Placed
<1>2. {} \cup carried \cup (done \cup buf) = 1..n /\ (done \cup buf) \cap carried = {}
  <2> HIDE DEF carried
  <2> QED
    BY <1>1
<1> QED
  BY <1>2 DEF Placed

-----------------------------------------------------------------------------
ShipInv == LogShipperTypeOK /\ TimerRuns /\ BufferedIsScheduled /\ EachLineOnce

LEMMA LogShipperType ==
  ASSUME LogShipperTypeOK, [LogShipperNext]_shipVars
  PROVE  LogShipperTypeOK'
<1> USE LogShipperAssumption DEF LogShipperTypeOK
<1>1. \A B \in SUBSET Lines : (Take(B) => inHand' \in SUBSET (SUBSET Lines))
  BY DEF Take
<1>2. StopTimer => timer' = NoTimer /\ clockwork' \in [Timers -> {"off", "armed", "fired"}]
  BY DEF StopTimer
<1>3. CASE Write
  <2> DEFINE entries == buffer \cup {lines + 1}
  <2>1. lines + 1 \in 0..MaxLines /\ lines + 1 \in Lines /\ entries \in SUBSET Lines
    BY <1>3 DEF Write, Lines
  <2>2. CASE Cardinality(entries) >= BatchSize
    <3>1. buffer' = {} /\ StopTimer /\ Take(entries) /\ lines' = lines + 1
          /\ UNCHANGED <<batches, pushed, closing>>
      BY <1>3, <2>2 DEF Write
    <3> QED
      BY <1>1, <1>2, <2>1, <3>1
  <2>3. CASE ~(Cardinality(entries) >= BatchSize)
    <3>1. /\ buffer' = entries /\ lines' = lines + 1 /\ inHand' = inHand
          /\ IF timer = NoTimer THEN \E t \in Timers : Arm(t) ELSE UNCHANGED <<timer, clockwork>>
          /\ UNCHANGED <<batches, pushed, closing>>
      BY <1>3, <2>3 DEF Write
    <3>2. timer' \in Timers \cup {NoTimer} /\ clockwork' \in [Timers -> {"off", "armed", "fired"}]
      BY <3>1 DEF Arm
    <3> HIDE DEF entries
    <3> QED
      BY <2>1, <3>1, <3>2
  <2> QED
    BY <2>2, <2>3
<1>4. ASSUME NEW t \in Timers, Fire(t) PROVE LogShipperTypeOK'
  BY <1>4 DEF Fire
<1>5. ASSUME NEW t \in Timers, Flush(t) PROVE LogShipperTypeOK'
  BY <1>1, <1>5 DEF Flush
<1>6. ASSUME NEW B \in inHand, Ship(B) PROVE LogShipperTypeOK'
  BY <1>6 DEF Ship
<1>7. ASSUME NEW B \in batches, Push(B) PROVE LogShipperTypeOK'
  BY <1>7 DEF Push
<1>8. CASE CloseTakes
  BY <1>2, <1>8 DEF CloseTakes
<1>9. CASE CloseReturns
  BY <1>9 DEF CloseReturns
<1>10. CASE UNCHANGED shipVars
  BY <1>10 DEF shipVars
<1> QED
  BY <1>3, <1>4, <1>5, <1>6, <1>7, <1>8, <1>9, <1>10 DEF LogShipperNext

LEMMA TimerStillRuns ==
  ASSUME LogShipperTypeOK, TimerRuns, BufferedIsScheduled, [LogShipperNext]_shipVars
  PROVE  TimerRuns' /\ BufferedIsScheduled'
<1> USE LogShipperAssumption DEF LogShipperTypeOK, TimerRuns, BufferedIsScheduled
<1>1. CASE Write
  <2> DEFINE entries == buffer \cup {lines + 1}
  <2>1. CASE Cardinality(entries) >= BatchSize
    BY <1>1, <2>1 DEF Write, StopTimer
  <2>2. CASE ~(Cardinality(entries) >= BatchSize)
    <3>1. IF timer = NoTimer THEN \E t \in Timers : Arm(t) ELSE UNCHANGED <<timer, clockwork>>
      BY <1>1, <2>2 DEF Write
    <3>2. timer' # NoTimer /\ clockwork'[timer'] \in {"armed", "fired"}
      BY <3>1 DEF Arm
    <3> QED
      BY <3>2
  <2> QED
    BY <2>1, <2>2
<1>2. ASSUME NEW t \in Timers, Fire(t) PROVE TimerRuns' /\ BufferedIsScheduled'
  BY <1>2 DEF Fire
<1>3. ASSUME NEW t \in Timers, Flush(t) PROVE TimerRuns' /\ BufferedIsScheduled'
  BY <1>3 DEF Flush
<1>4. CASE UNCHANGED <<buffer, timer, clockwork>>
  BY <1>4
<1>5. CASE CloseTakes
  BY <1>5 DEF CloseTakes, StopTimer
<1>6. UNCHANGED <<buffer, timer, clockwork>>
        \/ Write \/ CloseTakes \/ \E t \in Timers : Fire(t) \/ Flush(t)
  BY DEF LogShipperNext, Ship, Push, CloseReturns, shipVars
<1> QED
  BY <1>1, <1>2, <1>3, <1>4, <1>5, <1>6

LEMMA LinesStayPlaced ==
  ASSUME LogShipperTypeOK, EachLineOnce, [LogShipperNext]_shipVars
  PROVE  Placed(buffer', inHand', batches', pushed', lines')
<1> USE LogShipperAssumption
<1>0. Placed(buffer, inHand, batches, pushed, lines) /\ lines \in Nat
  BY EachLineIsPlaced DEF LogShipperTypeOK
<1>1. CASE Write
  <2> DEFINE entries == buffer \cup {lines + 1}
  <2>1. Placed(entries, inHand, batches, pushed, lines + 1) /\ lines + 1 \in Nat
    BY <1>0, PlaceNew
  <2>2. lines' = lines + 1 /\ batches' = batches /\ pushed' = pushed
    BY <1>1 DEF Write
  <2>3. CASE Cardinality(entries) >= BatchSize
    <3>1. buffer' = {} /\ inHand' = IF entries = {} THEN inHand ELSE inHand \cup {entries}
      BY <1>1, <2>3 DEF Write, Take
    <3> QED
      BY <2>1, <2>2, <3>1, PlaceTaken
  <2>4. CASE ~(Cardinality(entries) >= BatchSize)
    <3>1. buffer' = entries /\ inHand' = inHand
      BY <1>1, <2>4 DEF Write
    <3> QED
      BY <2>1, <2>2, <3>1
  <2> QED
    BY <2>3, <2>4
<1>2. ASSUME NEW t \in Timers, Flush(t) PROVE Placed(buffer', inHand', batches', pushed', lines')
  <2>1. /\ buffer' = {} /\ inHand' = IF buffer = {} THEN inHand ELSE inHand \cup {buffer}
        /\ batches' = batches /\ pushed' = pushed /\ lines' = lines
    BY <1>2 DEF Flush, Take
  <2> QED
    BY <1>0, <2>1, PlaceTaken
<1>3. ASSUME NEW B \in inHand, Ship(B)
      PROVE  Placed(buffer', inHand', batches', pushed', lines')
  BY <1>0, <1>3, PlaceShipped DEF Ship
<1>4. ASSUME NEW B \in batches, Push(B)
      PROVE  Placed(buffer', inHand', batches', pushed', lines')
  BY <1>0, <1>4, PlacePushed DEF Push
<1>5. CASE CloseTakes
  BY <1>0, <1>5, PlaceClosed DEF CloseTakes
<1>6. CASE UNCHANGED <<buffer, inHand, batches, pushed, lines>>
  BY <1>0, <1>6
<1>7. \/ UNCHANGED <<buffer, inHand, batches, pushed, lines>>
      \/ Write \/ CloseTakes
      \/ \E t \in Timers : Flush(t)
      \/ \E B \in inHand : Ship(B)
      \/ \E B \in batches : Push(B)
  BY DEF LogShipperNext, Fire, CloseReturns, shipVars
<1> QED
  BY <1>1, <1>2, <1>3, <1>4, <1>5, <1>6, <1>7

LEMMA ShipStart == LogShipperInit => ShipInv
<1> SUFFICES ASSUME LogShipperInit PROVE ShipInv
  OBVIOUS
<1>1. LogShipperTypeOK
  BY LogShipperAssumption DEF LogShipperInit, LogShipperTypeOK
<1>2. EachLineOnce
  BY DEF LogShipperInit, EachLineOnce
<1> QED
  BY <1>1, <1>2 DEF LogShipperInit, ShipInv, TimerRuns, BufferedIsScheduled

LEMMA ShipStep == ShipInv /\ [LogShipperNext]_shipVars => ShipInv'
<1> SUFFICES ASSUME ShipInv, [LogShipperNext]_shipVars PROVE ShipInv'
  OBVIOUS
<1>1. EachLineOnce'
  <2>1. Placed(buffer', inHand', batches', pushed', lines')
    BY LinesStayPlaced DEF ShipInv
  <2> QED
    BY <2>1 DEF EachLineOnce, Placed
<1> QED
  BY <1>1, LogShipperType, TimerStillRuns DEF ShipInv

(* While lines are buffered a timer is armed for them or its callback is on its *)
(* way (Writer.Write, Flush and Close under the mutex).                         *)
THEOREM NothingIsForgotten == LogShipperSpec => []BufferedIsScheduled
<1>1. ShipInv => BufferedIsScheduled
  BY DEF ShipInv
<1> QED
  BY <1>1, ShipStart, ShipStep, PTL DEF LogShipperSpec

(* Every line written is in exactly one place - the buffer, one batch, or the   *)
(* lines that were pushed (takeLocked, and the goroutines that push).           *)
THEOREM LinesAreShippedOnce == LogShipperSpec => [](LogShipperTypeOK /\ EachLineOnce)
<1>1. ShipInv => LogShipperTypeOK /\ EachLineOnce
  BY DEF ShipInv
<1> QED
  BY <1>1, ShipStart, ShipStep, PTL DEF LogShipperSpec

-----------------------------------------------------------------------------
(* Buckets: the map never exceeds its ceiling, and what it does to save room    *)
(* cannot be told from an allowance per key that is never forgotten.            *)

MapInv == IsFiniteSet(Tracked) /\ MapIsBounded

LEMMA MapStep ==
  ASSUME MapInv, [BucketsNext]_bucketVars
  PROVE  MapInv'
<1> USE BucketsAssumption DEF MapInv, MapIsBounded
<1>0. Cardinality(Tracked) \in Nat
  BY FS_CardinalityType
<1>1. ASSUME NEW k, NEW tokens, NEW price, NEW rest, Spend(k, tokens, price, rest)
      PROVE  Tracked' = rest \cup {k}
  BY <1>1 DEF Spend, Tracked
\* One more bucket than are kept.
<1>2. ASSUME NEW k, NEW rest, IsFiniteSet(rest), Cardinality(rest) < MaxBuckets,
             Tracked' = rest \cup {k}
      PROVE  MapInv'
  <2>1. /\ IsFiniteSet(rest \cup {k})
        /\ Cardinality(rest \cup {k}) = Cardinality(rest)
             \/ Cardinality(rest \cup {k}) = Cardinality(rest) + 1
    BY <1>2, FS_AddElement
  <2>2. Cardinality(rest) \in Nat
    BY <1>2, FS_CardinalityType
  <2>3. Cardinality(rest \cup {k}) <= MaxBuckets
    BY <1>2, <2>1, <2>2
  <2> QED
    BY <1>2, <2>1, <2>3
<1>3. ASSUME NEW k \in Keys, NEW price \in Costs, AllowKnown(k, price) PROVE MapInv'
  <2>1. Tracked' = Tracked
    BY <1>1, <1>3 DEF AllowKnown
  <2> QED
    BY <2>1
<1>4. ASSUME NEW k \in Keys, NEW price \in Costs, AllowNew(k, price) PROVE MapInv'
  <2> DEFINE swept == IF SweepDue THEN Tracked \ Idle ELSE Tracked
  <2>1. swept \subseteq Tracked /\ IsFiniteSet(swept)
    BY FS_Subset
  <2>2. CASE Cardinality(swept) >= MaxBuckets
    <3>1. PICK kept \in Batches(swept) : Spend(k, Burst, price, kept)
      BY <1>4, <2>2 DEF AllowNew
    <3>2. /\ kept \subseteq swept /\ IsFiniteSet(kept) /\ Cardinality(kept) < MaxBuckets
      BY <2>1, FS_Subset DEF Batches
    <3>3. Tracked' = kept \cup {k}
      BY <1>1, <3>1
    <3> QED
      BY <1>2, <3>2, <3>3
  <2>3. CASE ~(Cardinality(swept) >= MaxBuckets)
    <3>1. Spend(k, Burst, price, swept)
      BY <1>4, <2>3 DEF AllowNew
    <3>2. Tracked' = swept \cup {k}
      BY <1>1, <3>1
    <3>3. Cardinality(swept) < MaxBuckets
      BY <2>1, <2>3, FS_CardinalityType
    <3> QED
      BY <1>2, <2>1, <3>2, <3>3
  <2> QED
    BY <2>2, <2>3
<1>5. CASE UNCHANGED bucket
  BY <1>5 DEF Tracked
<1> QED
  BY <1>3, <1>4, <1>5 DEF BucketsNext, Elapse, bucketVars

(* "The map can never exceed it": the ceiling on buckets is absolute (evictBatch). *)
THEOREM CeilingHolds == BucketsSpec => []MapIsBounded
<1>1. BucketsInit => MapInv
  <2> SUFFICES ASSUME BucketsInit PROVE MapInv
    OBVIOUS
  <2>1. Tracked = {}
    BY DEF BucketsInit, Tracked
  <2> QED
    BY <2>1, FS_EmptySet, BucketsAssumption DEF MapInv, MapIsBounded
<1>2. MapInv => MapIsBounded
  BY DEF MapInv
<1> QED
  BY <1>1, <1>2, MapStep, PTL DEF BucketsSpec

-----------------------------------------------------------------------------
\* The buckets there are: of known keys, not over-full, not from the future.
Sound(b) == /\ b.tokens \in Nat /\ b.tokens <= Burst
            /\ b.last \in Nat /\ b.last <= time
BucketInv ==
    /\ MapInv
    /\ Tracked \subseteq Keys
    /\ time \in Nat
    /\ \A k \in Tracked : Sound(bucket[k])

LEMMA CostFacts == ASSUME NEW price \in Costs PROVE Cost(price) \in Nat /\ Cost(price) <= Burst
BY BucketsAssumption DEF Cost, Smaller

LEMMA RefilledFacts ==
  ASSUME BucketInv, NEW k \in Tracked
  PROVE  Refilled(bucket[k]) \in Nat /\ Refilled(bucket[k]) <= Burst
BY BucketsAssumption DEF BucketInv, Sound, Refilled, Smaller

\* What a request leaves of the map it finds.
SpendLeaves(k, tokens, price, rest) ==
    /\ Tracked' = rest \cup {k}
    /\ \A j \in rest : j # k => bucket'[j] = bucket[j]
    /\ bucket'[k].last = time
    /\ bucket'[k].tokens = IF tokens >= Cost(price) THEN tokens - Cost(price) ELSE tokens
    /\ bucket'[k].tokens \in Nat /\ bucket'[k].tokens <= Burst
    /\ verdict' = [key |-> k, ok |-> tokens >= Cost(price)]

LEMMA SpendFacts ==
  ASSUME NEW k, NEW tokens \in Nat, tokens <= Burst, NEW price \in Costs, NEW rest,
         Spend(k, tokens, price, rest)
  PROVE  SpendLeaves(k, tokens, price, rest)
<1> DEFINE new == [tokens |-> IF tokens >= Cost(price) THEN tokens - Cost(price) ELSE tokens,
                   last |-> time]
<1>1. /\ bucket' = [j \in rest \cup {k} |-> IF j = k THEN new ELSE bucket[j]]
      /\ verdict' = [key |-> k, ok |-> tokens >= Cost(price)]
  BY DEF Spend
<1>2. bucket'[k] = new
  BY <1>1
<1>3. new.tokens \in Nat /\ new.tokens <= Burst /\ new.last = time
  BY CostFacts, BucketsAssumption
<1> QED
  BY <1>1, <1>2, <1>3 DEF SpendLeaves, Tracked

\* What AllowNew keeps of the map.
LEMMA NewFacts ==
  ASSUME BucketInv, NEW k \in Keys, NEW price \in Costs, AllowNew(k, price)
  PROVE  /\ k \notin Tracked /\ time' = time
         /\ \E rest \in SUBSET Tracked :
               /\ Spend(k, Burst, price, rest)
               /\ Full(MaxBuckets) \/ \A j \in Tracked \ rest : j \in Idle
<1> USE BucketsAssumption
<1> DEFINE swept == IF SweepDue THEN Tracked \ Idle ELSE Tracked
<1>1. k \notin Tracked /\ time' = time /\ swept \in SUBSET Tracked
  BY DEF AllowNew
<1>2. CASE Cardinality(swept) >= MaxBuckets
  <2>1. PICK kept \in Batches(swept) : Spend(k, Burst, price, kept)
    BY <1>2 DEF AllowNew
  <2>2. kept \in SUBSET Tracked
    BY <1>1, <2>1 DEF Batches
  <2>3. Cardinality(Tracked) >= MaxBuckets
    <3>1. /\ Cardinality(swept) <= Cardinality(Tracked)
          /\ Cardinality(swept) \in Nat /\ Cardinality(Tracked) \in Nat
      BY <1>1, FS_Subset, FS_CardinalityType DEF BucketInv, MapInv
    <3> QED
      BY <1>2, <3>1
  <2> QED
    BY <1>1, <2>1, <2>2, <2>3 DEF Full
<1>3. CASE ~(Cardinality(swept) >= MaxBuckets)
  <2>1. Spend(k, Burst, price, swept)
    BY <1>3 DEF AllowNew
  <2>2. \A j \in Tracked \ swept : j \in Idle
    OBVIOUS
  <2> QED
    BY <1>1, <2>1, <2>2
<1> QED
  BY <1>2, <1>3

LEMMA BucketStep ==
  ASSUME BucketInv, [BucketsNext]_bucketVars
  PROVE  BucketInv'
<1> USE BucketsAssumption
<1>0. MapInv'
  BY MapStep DEF BucketInv
<1>1. CASE Elapse
  BY <1>0, <1>1 DEF Elapse, BucketInv, Sound, Tracked
<1>2. ASSUME NEW k \in Keys, NEW tokens \in Nat, tokens <= Burst, NEW price \in Costs,
             NEW rest \in SUBSET Tracked, Spend(k, tokens, price, rest), time' = time
      PROVE  BucketInv'
  <2>0. SpendLeaves(k, tokens, price, rest)
    BY <1>2, SpendFacts
  <2>1. \A j \in Tracked' : j = k \/ (j \in Tracked /\ bucket'[j] = bucket[j])
    BY <1>2, <2>0 DEF SpendLeaves
  <2>2. bucket'[k].tokens \in Nat /\ bucket'[k].tokens <= Burst /\ bucket'[k].last = time
    BY <2>0 DEF SpendLeaves
  <2>3. time \in Nat
    BY DEF BucketInv
  <2>4. \A j \in Tracked' : Sound(bucket[j])'
    BY <1>2, <2>1, <2>2, <2>3 DEF BucketInv, Sound
  <2> QED
    BY <1>0, <1>2, <2>1, <2>4 DEF BucketInv
<1>3. ASSUME NEW k \in Keys, NEW price \in Costs, AllowKnown(k, price) PROVE BucketInv'
  BY <1>2, <1>3, RefilledFacts DEF AllowKnown
<1>4. ASSUME NEW k \in Keys, NEW price \in Costs, AllowNew(k, price) PROVE BucketInv'
  BY <1>2, <1>4, NewFacts
<1>5. CASE UNCHANGED bucketVars
  BY <1>5, <1>0 DEF bucketVars, BucketInv, Tracked, Sound
<1> QED
  BY <1>1, <1>3, <1>4, <1>5 DEF BucketsNext

LEMMA BucketStart == BucketsInit => BucketInv
<1> SUFFICES ASSUME BucketsInit PROVE BucketInv
  OBVIOUS
<1>1. Tracked = {} /\ time = 0
  BY DEF BucketsInit, Tracked
<1> QED
  BY <1>1, FS_EmptySet, BucketsAssumption DEF BucketInv, MapInv, MapIsBounded

\* A request answers with a verdict and leaves a map of buckets.
LEMMA SpendType ==
  ASSUME BucketsTypeOK, NEW k \in Keys, NEW tokens \in Nat, tokens <= Burst,
         NEW price \in Costs, NEW rest \in SUBSET Tracked, Spend(k, tokens, price, rest),
         time' = time, lastSweep' \in Int
  PROVE  BucketsTypeOK'
<1> DEFINE new == [tokens |-> IF tokens >= Cost(price) THEN tokens - Cost(price) ELSE tokens,
                   last |-> time]
<1>1. /\ bucket' = [j \in rest \cup {k} |-> IF j = k THEN new ELSE bucket[j]]
      /\ verdict' = [key |-> k, ok |-> tokens >= Cost(price)]
  BY DEF Spend
<1>2. new \in Bucket
  <2>1. time \in Nat /\ Burst \in Nat
    BY BucketsAssumption DEF BucketsTypeOK
  <2>2. new.tokens \in 0..Burst /\ new.last \in Nat
    BY <2>1, CostFacts
  <2> QED
    BY <2>2 DEF Bucket
<1>3. Tracked' = rest \cup {k} /\ Tracked' \subseteq Keys
  BY <1>1 DEF Tracked, BucketsTypeOK
<1>4. \A j \in rest : bucket[j] \in Bucket
  BY DEF BucketsTypeOK
<1>5. bucket' \in [Tracked' -> Bucket]
  <2> HIDE DEF new
  <2> QED
    BY <1>1, <1>2, <1>3, <1>4
<1>6. verdict' \in [key : Keys \cup {"none"}, ok : BOOLEAN]
  <2>1. (tokens >= Cost(price)) \in BOOLEAN
    OBVIOUS
  <2> QED
    BY <1>1, <2>1
<1> QED
  BY <1>3, <1>5, <1>6 DEF BucketsTypeOK

(* The map holds buckets of known keys, with no more tokens than Burst: refills   *)
(* are capped and charges never overdraw (RateLimiter.AllowN).                    *)
THEOREM BucketsTypeCorrect == BucketsSpec => []BucketsTypeOK
<1> DEFINE Inv == BucketsTypeOK /\ BucketInv
<1>1. BucketsInit => Inv
  <2> SUFFICES ASSUME BucketsInit PROVE BucketsTypeOK
    BY BucketStart
  <2>1. Tracked = {} /\ bucket \in [{} -> Bucket]
    BY DEF BucketsInit, Tracked
  <2>2. -SweepInterval \in Int /\ 0 \in 0..MaxClock
    BY BucketsAssumption
  <2> QED
    BY <2>1, <2>2 DEF BucketsInit, BucketsTypeOK
<1>2. ASSUME Inv, [BucketsNext]_bucketVars PROVE BucketsTypeOK'
  <2>1. CASE Elapse
    BY <1>2, <2>1, BucketsAssumption DEF Elapse, BucketsTypeOK, Tracked
  <2>2. ASSUME NEW k \in Keys, NEW price \in Costs, AllowKnown(k, price) PROVE BucketsTypeOK'
    <3>1. /\ Refilled(bucket[k]) \in Nat /\ Refilled(bucket[k]) <= Burst
          /\ Spend(k, Refilled(bucket[k]), price, Tracked) /\ time' = time
      BY <1>2, <2>2, RefilledFacts DEF AllowKnown
    <3>2. lastSweep' \in Int
      BY <1>2, <2>2 DEF AllowKnown, BucketsTypeOK
    <3> QED
      BY <1>2, <3>1, <3>2, SpendType
  <2>3. ASSUME NEW k \in Keys, NEW price \in Costs, AllowNew(k, price) PROVE BucketsTypeOK'
    <3>1. PICK rest \in SUBSET Tracked : Spend(k, Burst, price, rest)
      BY <1>2, <2>3, NewFacts
    <3>2. time' = time /\ Burst \in Nat /\ Burst <= Burst
      BY <1>2, <2>3, NewFacts, BucketsAssumption
    <3>3. lastSweep' \in Int
      BY <1>2, <2>3 DEF AllowNew, BucketsTypeOK
    <3> QED
      BY <1>2, <3>1, <3>2, <3>3, SpendType
  <2>4. CASE UNCHANGED bucketVars
    BY <1>2, <2>4 DEF bucketVars, BucketsTypeOK, Tracked
  <2> QED
    BY <1>2, <2>1, <2>2, <2>3, <2>4 DEF BucketsNext
<1>3. Inv /\ [BucketsNext]_bucketVars => Inv'
  BY <1>2, BucketStep
<1> QED
  BY <1>1, <1>3, PTL DEF BucketsSpec

-----------------------------------------------------------------------------
\* A tick refills every allowance.
LEMMA ElapseRefills ==
  ASSUME BucketInv, Elapse
  PROVE  Promise!Refill
<1> USE BucketsAssumption
<1>1. time \in Nat /\ time' = time + 1 /\ bucket' = bucket /\ verdict' = verdict
  BY DEF Elapse, BucketInv
<1>2. ASSUME NEW k \in Keys
      PROVE  Allowance'[k] = Promise!Lesser(Burst, Allowance[k] + 1)
  <2>1. CASE k \in Tracked
    BY <1>1, <2>1 DEF Allowance, Tracked, Refilled, Smaller, Promise!Lesser, BucketInv, Sound
  <2>2. CASE k \notin Tracked
    BY <1>1, <2>2 DEF Allowance, Tracked, Promise!Lesser
  <2> QED
    BY <2>1, <2>2
<1>3. Allowance' = [k \in Keys |-> Promise!Lesser(Burst, Allowance[k] + 1)]
  BY <1>2 DEF Allowance
<1> QED
  BY <1>1, <1>3 DEF Promise!Refill

\* A request that spends from what its key is allowed, and drops only full buckets.
LEMMA SpendAsks ==
  ASSUME BucketInv, NEW k \in Keys, NEW price \in Costs, NEW rest \in SUBSET Tracked,
         Spend(k, Allowance[k], price, rest), time' = time,
         \A j \in Tracked \ rest : j # k => Allowance[j] = Burst
  PROVE  Promise!Ask(k, price)
<1> USE BucketsAssumption
<1>0. Allowance[k] \in Nat /\ Allowance[k] <= Burst /\ Promise!Charge(price) = Cost(price)
  BY RefilledFacts DEF Allowance, Promise!Charge, Promise!Lesser, Cost, Smaller
<1>9. SpendLeaves(k, Allowance[k], price, rest)
  BY <1>0, SpendFacts
<1>1. Allowance'[k] = IF Allowance[k] >= Cost(price) THEN Allowance[k] - Cost(price) ELSE Allowance[k]
  <2>1. /\ k \in Tracked' /\ bucket'[k].last = time' /\ time' \in Nat
        /\ bucket'[k].tokens \in Nat /\ bucket'[k].tokens <= Burst
        /\ bucket'[k].tokens = IF Allowance[k] >= Cost(price) THEN Allowance[k] - Cost(price)
                                                              ELSE Allowance[k]
    BY <1>0, <1>9 DEF SpendLeaves, BucketInv
  <2>2. Allowance'[k] = Smaller(Burst, bucket'[k].tokens + (time' - bucket'[k].last))
    BY <2>1 DEF Allowance, Refilled
  <2> QED
    BY <2>1, <2>2 DEF Smaller
<1>2. ASSUME NEW j \in Keys, j # k PROVE Allowance'[j] = Allowance[j]
  <2>1. j \in Tracked' <=> j \in rest
    BY <1>9, <1>2 DEF SpendLeaves
  <2>2. CASE j \in rest
    <3>1. bucket'[j] = bucket[j]
      BY <1>9, <1>2, <2>2 DEF SpendLeaves
    <3> QED
      BY <2>1, <2>2, <3>1 DEF Allowance, Refilled
  <2>3. CASE j \notin rest
    BY <1>2, <2>1, <2>3 DEF Allowance
  <2> QED
    BY <2>2, <2>3
<1>3. Allowance \in [Keys -> {Allowance[i] : i \in Keys}] /\ Allowance' = [j \in Keys |-> Allowance'[j]]
  BY DEF Allowance
<1>4. Allowance' = IF Allowance[k] >= Cost(price)
                   THEN [Allowance EXCEPT ![k] = @ - Cost(price)] ELSE Allowance
  BY <1>1, <1>2, <1>3
<1>5. verdict' = [key |-> k, ok |-> Allowance[k] >= Cost(price)]
  BY <1>9 DEF SpendLeaves
<1> QED
  BY <1>0, <1>4, <1>5 DEF Promise!Ask

\* At the ceiling, others than the asking key may be given a full allowance.
LEMMA SpendResets ==
  ASSUME BucketInv, NEW k \in Keys, k \notin Tracked, NEW price \in Costs,
         NEW rest \in SUBSET Tracked, Spend(k, Burst, price, rest), time' = time
  PROVE  LimitReset
<1> USE BucketsAssumption
<1>9. SpendLeaves(k, Burst, price, rest)
  BY SpendFacts
<1>1. verdict' = [key |-> k, ok |-> TRUE]
  <2>1. Burst >= Cost(price)
    BY CostFacts
  <2> QED
    BY <1>9, <2>1 DEF SpendLeaves
<1>2. ASSUME NEW j \in Keys, j # k PROVE Allowance'[j] \in {Allowance[j], Burst}
  <2>1. j \in Tracked' <=> j \in rest
    BY <1>2, <1>9 DEF SpendLeaves
  <2>2. CASE j \in rest
    <3>1. bucket'[j] = bucket[j]
      BY <1>2, <2>2, <1>9 DEF SpendLeaves
    <3> QED
      BY <2>1, <2>2, <3>1 DEF Allowance, Refilled
  <2>3. CASE j \notin rest
    BY <1>2, <2>1, <2>3 DEF Allowance
  <2> QED
    BY <2>2, <2>3
<1> QED
  BY <1>1, <1>2 DEF LimitReset

LEMMA IdleIsFull ==
  ASSUME BucketInv, NEW k \in Idle, k \in Tracked
  PROVE  Allowance[k] = Burst
<1>1. /\ bucket[k].tokens \in Nat /\ bucket[k].last \in Nat /\ time \in Nat
      /\ time - bucket[k].last > IdleAfter
  BY DEF BucketInv, Sound, Idle
<1>2. Refilled(bucket[k]) = Burst
  BY <1>1, BucketsAssumption DEF Refilled, Smaller
<1> QED
  BY <1>2 DEF Allowance, BucketInv

(* The map of buckets implements an allowance per key that is refilled at every  *)
(* tick and never forgotten, except that a map at its ceiling may reset limits   *)
(* (RateLimiter.AllowN, evictIdle, evictBatch).                                  *)
THEOREM BucketsImplementLimiter == BucketsSpec => EvictionIsInvisible
<1>1. BucketsInit => BucketInv
  BY BucketStart
<1>2. BucketInv /\ [BucketsNext]_bucketVars => BucketInv'
  BY BucketStep
<1>3. BucketsInit => Promise!Init
  <2> SUFFICES ASSUME BucketsInit PROVE Promise!Init
    OBVIOUS
  <2>1. Tracked = {} /\ verdict = [key |-> "none", ok |-> TRUE]
    BY DEF BucketsInit, Tracked
  <2> QED
    BY <2>1 DEF Promise!Init, Promise!NoVerdict, Allowance
<1>4. ASSUME BucketInv, [BucketsNext]_bucketVars
      PROVE  [Promise!Next \/ (Full(MaxBuckets) /\ LimitReset)]_<<Allowance, verdict>>
  <2>1. CASE Elapse
    BY <1>4, <2>1, ElapseRefills DEF Promise!Next
  <2>2. ASSUME NEW k \in Keys, NEW price \in Costs, AllowKnown(k, price)
        PROVE  Promise!Ask(k, price)
    <3>1. /\ Spend(k, Refilled(bucket[k]), price, Tracked) /\ time' = time
          /\ Allowance[k] = Refilled(bucket[k])
      BY <2>2 DEF AllowKnown, Allowance
    <3> QED
      BY <1>4, <3>1, SpendAsks
  <2>3. ASSUME NEW k \in Keys, NEW price \in Costs, AllowNew(k, price)
        PROVE  Promise!Ask(k, price) \/ (Full(MaxBuckets) /\ LimitReset)
    <3>1. PICK rest \in SUBSET Tracked :
             /\ Spend(k, Burst, price, rest)
             /\ Full(MaxBuckets) \/ \A j \in Tracked \ rest : j \in Idle
      BY <1>4, <2>3, NewFacts
    <3>2. k \notin Tracked /\ time' = time /\ Allowance[k] = Burst
      BY <1>4, <2>3, NewFacts DEF Allowance
    <3>3. CASE Full(MaxBuckets)
      BY <1>4, <3>1, <3>2, <3>3, SpendResets
    <3>4. CASE \A j \in Tracked \ rest : j \in Idle
      <4>1. \A j \in Tracked \ rest : Allowance[j] = Burst
        BY <1>4, <3>4, IdleIsFull
      <4> QED
        BY <1>4, <3>1, <3>2, <4>1, SpendAsks
    <3> QED
      BY <3>1, <3>3, <3>4
  <2>4. CASE UNCHANGED bucketVars
    BY <2>4 DEF bucketVars, Allowance, Tracked, Refilled
  <2> QED
    BY <1>4, <2>1, <2>2, <2>3, <2>4 DEF BucketsNext, Promise!Next
<1> QED
  BY <1>1, <1>2, <1>3, <1>4, PTL DEF BucketsSpec, EvictionIsInvisible
-----------------------------------------------------------------------------
(* Rotation *)

OldKey == {r \in Rows : table[r].key = "old"}
BatchIds == {item.id : item \in batch}

\* The rows of the pages after page n.
Later(n) == {r \in Rows : Rank(r) > n * PageSize}

\* The inductive invariant, while no row is deleted: what is still on the old key is
\* in hand or on a page to come - a row that is created only pushes it further -, and
\* the pass does not end before that page, because it has delivered no more rows than
\* the pages read can hold.
PassInv ==
    ~gone =>
       /\ pass = "listing" => /\ OldKey \subseteq Later(pageNo - 1)
                              /\ delivered <= (pageNo - 1) * PageSize
       /\ pass = "counting" => /\ OldKey \subseteq BatchIds \cup Later(pageNo)
                               /\ batch = {} => OldKey = {}
                               /\ delivered + Cardinality(batch) <= pageNo * PageSize
       /\ pass = "writing" => /\ OldKey \subseteq BatchIds \cup Later(pageNo)
                              /\ OldKey \subseteq BatchIds \/ total > pageNo * PageSize
                              /\ delivered + Cardinality(batch) <= pageNo * PageSize
       /\ pass = "done" => OldKey = {}

RotationInv == RotationTypeOK /\ IsFiniteSet(batch) /\ PassInv

LEMMA RotationNumbers ==
  /\ MaxSealed \in Nat /\ OldRows \in Nat /\ MaxEdits \in Nat /\ PageSize \in Nat
  /\ PageSize >= 1 /\ OldRows <= MaxSealed
BY RotationAssumption

\* Where page n ends.
LEMMA PageEnds ==
  ASSUME NEW n \in Nat \ {0}
  PROVE  /\ n * PageSize \in Nat /\ (n - 1) * PageSize \in Nat
         /\ n * PageSize = (n - 1) * PageSize + PageSize
         /\ (n + 1) - 1 = n
<1>1. n - 1 \in Nat /\ PageSize \in Nat
  BY RotationNumbers
<1>2. \A m \in Nat : m * PageSize \in Nat /\ (m + 1) * PageSize = m * PageSize + PageSize
  BY <1>1, SMT
<1>3. (n - 1) + 1 = n /\ (n + 1) - 1 = n
  OBVIOUS
<1>4. ((n - 1) + 1) * PageSize = (n - 1) * PageSize + PageSize /\ (n - 1) * PageSize \in Nat
  BY <1>1, <1>2
<1>5. n * PageSize = (n - 1) * PageSize + PageSize
  BY <1>3, <1>4
<1> QED
  BY <1>1, <1>3, <1>4, <1>5

\* Ranks count the rows from the newest.
LEMMA RankFacts ==
  ASSUME RotationTypeOK
  PROVE  /\ IsFiniteSet(Rows) /\ Cardinality(Rows) \in Nat
         /\ \A r \in Rows : Rank(r) \in Nat /\ 1 <= Rank(r) /\ Rank(r) <= Cardinality(Rows)
         /\ \A r, s \in Rows : r < s => Rank(s) < Rank(r)
<1>0. Rows \in SUBSET (1..MaxSealed) /\ MaxSealed \in Nat
  BY RotationNumbers DEF RotationTypeOK
<1>1. IsFiniteSet(Rows) /\ Cardinality(Rows) \in Nat
  <2>1. IsFiniteSet(1..MaxSealed)
    BY <1>0, FS_Interval
  <2> QED
    BY <1>0, <2>1, FS_Subset, FS_CardinalityType
<1> DEFINE From(r) == {s \in Rows : s >= r}
<1>2. ASSUME NEW r \in Rows
      PROVE  /\ IsFiniteSet(From(r)) /\ Rank(r) = Cardinality(From(r))
             /\ Rank(r) \in Nat /\ 1 <= Rank(r) /\ Rank(r) <= Cardinality(Rows)
  <2>1. From(r) \in SUBSET Rows /\ Rank(r) = Cardinality(From(r))
    BY DEF Rank
  <2>2. r \in From(r)
    BY <1>0
  <2> HIDE DEF From
  <2>3. IsFiniteSet(From(r)) /\ Cardinality(From(r)) <= Cardinality(Rows)
    BY <1>1, <2>1, FS_Subset
  <2>4. Cardinality(From(r)) \in Nat /\ Cardinality(From(r)) # 0
    BY <2>2, <2>3, FS_CardinalityType, FS_EmptySet
  <2> QED
    BY <2>1, <2>3, <2>4
<1>3. ASSUME NEW r \in Rows, NEW s \in Rows, r < s
      PROVE  Rank(s) < Rank(r)
  <2>1. From(s) \in SUBSET From(r)
    <3>1. ASSUME NEW t \in From(s) PROVE t \in From(r)
      <4>1. t \in Rows /\ t >= s /\ t \in Int /\ s \in Int /\ r \in Int
        BY <1>0
      <4>2. t >= r
        BY <1>3, <4>1
      <4> QED
        BY <4>1, <4>2
    <3> QED
      BY <3>1
  <2>2. r \in From(r) /\ r \notin From(s)
    BY <1>0, <1>3
  <2> HIDE DEF From
  <2>3. Cardinality(From(s)) <= Cardinality(From(r)) /\ Cardinality(From(s)) # Cardinality(From(r))
    BY <1>2, <2>1, <2>2, FS_Subset
  <2> QED
    BY <1>2, <2>3
<1> QED
  BY <1>1, <1>2, <1>3

\* A page is full before the next one begins: if page n is empty, so are those after it.
LEMMA NoGap ==
  ASSUME RotationTypeOK, NEW n \in Nat \ {0}, OnPage(n) = {}
  PROVE  Later(n - 1) = {}
<1> SUFFICES ASSUME NEW r \in Later(n - 1) PROVE FALSE
  OBVIOUS
<1> DEFINE Z == (n - 1) * PageSize
           from == {s \in Rows : s >= r}
           f == [s \in from |-> Rank(s)]
<1>0. /\ Rows \subseteq 1..MaxSealed /\ MaxSealed \in Nat /\ PageSize \in Nat /\ PageSize >= 1
      /\ Z \in Nat /\ n * PageSize = Z + PageSize
  BY RotationNumbers, PageEnds DEF RotationTypeOK
<1>1. r \in Rows /\ Rank(r) > Z /\ Rank(r) \in Nat
  BY RankFacts DEF Later
\* The ranks of r and of the rows newer than it are all the numbers up to its own.
<1>2. f \in Injection(from, 1..Rank(r))
  <2>1. \A s \in from : s \in Rows /\ s \in Int /\ r \in Int /\ Rank(s) \in Nat /\ 1 <= Rank(s)
    BY <1>0, <1>1, RankFacts
  <2>2. \A s \in from : Rank(s) <= Rank(r)
    <3> TAKE s \in from
    <3>1. s = r \/ r < s
      BY <2>1
    <3> QED
      BY <1>1, <2>1, <3>1, RankFacts
  <2>3. f \in [from -> 1..Rank(r)]
    BY <1>1, <2>1, <2>2
  <2>4. \A s, q \in from : Rank(s) = Rank(q) => s = q
    <3> TAKE s, q \in from
    <3>1. Rank(s) = Rank(q) => ~(Rank(s) < Rank(q)) /\ ~(Rank(q) < Rank(s))
      BY <2>1
    <3>2. (s < q => Rank(q) < Rank(s)) /\ (q < s => Rank(s) < Rank(q))
      BY <2>1, RankFacts
    <3> HIDE DEF from
    <3> QED
      BY <2>1, <3>1, <3>2
  <2>5. \A s, q \in from : f[s] = f[q] => s = q
    BY <2>4
  <2>6. DOMAIN f = from
    OBVIOUS
  <2> HIDE DEF f, from
  <2> QED
    BY <2>3, <2>5, <2>6 DEF Injection, IsInjective
<1>3. Cardinality(from) = Rank(r) /\ IsFiniteSet(from)
  BY RankFacts, FS_Subset DEF Rank
<1>4. IsFiniteSet(1..Rank(r)) /\ Cardinality(1..Rank(r)) = Rank(r)
  <2>1. 1 \in Int /\ Rank(r) \in Int /\ ~(1 > Rank(r)) /\ Rank(r) - 1 + 1 = Rank(r)
    BY <1>0, <1>1
  <2> QED
    BY <2>1, FS_Interval
<1>5. f \in Surjection(from, 1..Rank(r))
  <2> HIDE DEF f, from
  <2> QED
    BY <1>2, <1>3, <1>4, FS_Injection
<1>6. Z + 1 \in 1..Rank(r)
  BY <1>0, <1>1
<1>7. PICK s \in from : f[s] = Z + 1
  <2> HIDE DEF f, from
  <2> QED
    BY <1>5, <1>6 DEF Surjection
<1>8. s \in Rows /\ Z < Rank(s) /\ Rank(s) <= n * PageSize
  BY <1>0, <1>7
<1> QED
  BY <1>8 DEF OnPage

\* A page holds no more than PageSize rows.
LEMMA BatchFits ==
  ASSUME RotationTypeOK, NEW n \in Nat \ {0}
  PROVE  LET items == {[id |-> r, text |-> table[r].text] : r \in OnPage(n)} IN
         IsFiniteSet(items) /\ Cardinality(items) \in Nat /\ Cardinality(items) <= PageSize
<1> DEFINE items == {[id |-> r, text |-> table[r].text] : r \in OnPage(n)}
           lo == (n - 1) * PageSize + 1
           hi == n * PageSize
           f == [item \in items |-> Rank(item.id)]
<1>0. Rows \subseteq 1..MaxSealed /\ PageSize \in Nat /\ lo \in Nat /\ hi \in Nat
      /\ hi = lo + PageSize - 1 /\ MaxSealed \in Nat /\ PageSize >= 1
  BY RotationNumbers, PageEnds DEF RotationTypeOK
<1>1. \A item \in items : /\ item.id \in Rows /\ Rank(item.id) \in lo..hi
                          /\ item = [id |-> item.id, text |-> table[item.id].text]
  <2> TAKE item \in items
  <2>1. PICK r \in OnPage(n) : item = [id |-> r, text |-> table[r].text]
    OBVIOUS
  <2>2. r \in Rows /\ (n - 1) * PageSize < Rank(r) /\ Rank(r) <= n * PageSize /\ Rank(r) \in Nat
    BY RankFacts DEF OnPage
  <2>3. Rank(r) \in lo..hi
    BY <1>0, <2>2, PageEnds
  <2> QED
    BY <2>1, <2>2, <2>3
<1>2. f \in Injection(items, lo..hi)
  <2>1. f \in [items -> lo..hi]
    BY <1>1
  <2>2. ASSUME NEW i \in items, NEW j \in items, f[i] = f[j] PROVE i = j
    <3>1. i.id \in Rows /\ j.id \in Rows /\ i.id \in Int /\ j.id \in Int /\ Rank(i.id) = Rank(j.id)
      BY <1>0, <1>1, <2>2
    <3>2. Rank(i.id) \in Nat /\ ~(i.id < j.id) /\ ~(j.id < i.id)
      BY <3>1, RankFacts
    <3>3. i.id = j.id
      BY <3>1, <3>2
    <3> HIDE DEF items
    <3> QED
      BY <1>1, <3>3
  <2>3. DOMAIN f = items
    OBVIOUS
  <2> HIDE DEF f, items
  <2> QED
    BY <2>1, <2>2, <2>3 DEF Injection, IsInjective
<1>3. IsFiniteSet(lo..hi) /\ Cardinality(lo..hi) = PageSize
  <2>1. lo \in Int /\ hi \in Int
    BY <1>0
  <2>2. IsFiniteSet(lo..hi) /\ Cardinality(lo..hi) = IF lo > hi THEN 0 ELSE hi - lo + 1
    BY <2>1, FS_Interval
  <2> HIDE DEF lo, hi
  <2> QED
    BY <1>0, <2>2
<1> HIDE DEF items, f, lo, hi
<1>4. IsFiniteSet(items) /\ Cardinality(items) <= Cardinality(lo..hi)
  BY <1>2, <1>3, FS_Injection
<1>5. Cardinality(items) \in Nat
  BY <1>4, FS_CardinalityType
<1> QED
  BY <1>3, <1>4, <1>5 DEF items

\* A row that is created is the newest, and pushes the others on.
LEMMA RanksGrow ==
  ASSUME RotationTypeOK, RotationTypeOK', Rows \subseteq Rows', NEW r \in Rows
  PROVE  Rank(r) <= Rank(r)' /\ Rank(r) \in Nat /\ Rank(r)' \in Nat
<1> DEFINE before == {s \in Rows : s >= r}
           after  == {s \in Rows' : s >= r}
<1>1. IsFiniteSet(Rows')
  <2>1. Rows' \in SUBSET (1..MaxSealed) /\ MaxSealed \in Nat
    BY RotationNumbers DEF RotationTypeOK
  <2>2. IsFiniteSet(1..MaxSealed)
    BY <2>1, FS_Interval
  <2> QED
    BY <2>1, <2>2, FS_Subset
<1>2. IsFiniteSet(after)
  BY <1>1, FS_Subset
<1>3. before \in SUBSET after
  OBVIOUS
<1>4. Rank(r) = Cardinality(before) /\ Rank(r)' = Cardinality(after)
  BY DEF Rank
<1> HIDE DEF before, after
<1>5. IsFiniteSet(before) /\ Cardinality(before) <= Cardinality(after)
  BY <1>2, <1>3, FS_Subset
<1> QED
  BY <1>2, <1>4, <1>5, FS_CardinalityType

LEMMA BatchType ==
  ASSUME RotationTypeOK, NEW item \in batch
  PROVE  item.id \in Nat /\ item.text \in 0..MaxEdits
BY DEF RotationTypeOK

\* The types, and the finiteness of the batch.
LEMMA RotationType ==
  ASSUME RotationTypeOK, IsFiniteSet(batch), [RotationNext]_rotationVars
  PROVE  RotationTypeOK' /\ IsFiniteSet(batch')
<1> USE RotationNumbers DEF Rows
<1>0. Rows \subseteq 1..MaxSealed /\ table \in [Rows -> SealedRow]
  BY DEF RotationTypeOK
<1>1. CASE ListPage
  <2>1. \A r \in Rows : r \in Nat /\ table[r].text \in 0..MaxEdits
    BY <1>0 DEF SealedRow
  <2>2. batch' \subseteq [id : Nat, text : 0..MaxEdits]
    BY <1>1, <2>1 DEF ListPage, OnPage
  <2>3. pageNo \in Nat \ {0}
    BY DEF RotationTypeOK
  <2>4. IsFiniteSet(batch')
    BY <1>1, <2>3, BatchFits DEF ListPage
  <2> QED
    BY <1>1, <2>2, <2>4 DEF ListPage, RotationTypeOK
<1>2. CASE Count
  BY <1>2, RankFacts DEF Count, RotationTypeOK
<1>3. CASE Interrupt
  BY <1>3, FS_EmptySet DEF Interrupt, RotationTypeOK
<1>4. CASE Rerun
  <2>1. /\ pass' = "listing" /\ pageNo' = 1 /\ delivered' = 0 /\ total' = 0 /\ gone' = FALSE
        /\ UNCHANGED <<table, created, batch>>
    BY <1>4 DEF Rerun
  <2>2. pageNo' \in Nat \ {0} /\ {delivered', total'} \subseteq Nat
    <3>1. pageNo' = 1 /\ delivered' = 0 /\ total' = 0
      BY <2>1
    <3> QED
      BY <3>1
  <2>3. gone' \in BOOLEAN
    BY <2>1, Zenon
  <2> QED
    BY <2>1, <2>2, <2>3 DEF RotationTypeOK
<1>5. CASE InsertRow
  <2>1. created + 1 \in 1..MaxSealed /\ created' = created + 1 /\ created' \in Nat
    BY <1>5 DEF InsertRow, RotationTypeOK
  <2>2. table' = [r \in Rows \cup {created + 1} |->
                    IF r \in Rows THEN table[r] ELSE [key |-> "new", text |-> 0]]
    BY <1>5 DEF InsertRow
  <2>3. [key |-> "new", text |-> 0] \in SealedRow
    BY DEF SealedRow
  <2>4. Rows' = Rows \cup {created + 1} /\ table' \in [Rows' -> SealedRow]
    BY <1>0, <2>2, <2>3
  <2> QED
    BY <1>0, <1>5, <2>1, <2>4 DEF InsertRow, RotationTypeOK
<1>6. ASSUME NEW item \in batch, Rewrite(item) PROVE RotationTypeOK' /\ IsFiniteSet(batch')
  <2>1. CASE item.id \in Rows
    <3>1. table' = [table EXCEPT ![item.id] = [key |-> "new", text |-> item.text]]
      BY <1>6, <2>1 DEF Rewrite
    <3>2. [key |-> "new", text |-> item.text] \in SealedRow
      BY BatchType DEF SealedRow
    <3>3. Rows' = Rows /\ table' \in [Rows' -> SealedRow]
      BY <1>0, <3>1, <3>2
    <3>4. batch' = batch \ {item} /\ delivered' = delivered + 1
          /\ UNCHANGED <<created, gone, total>>
      BY <1>6, <2>1 DEF Rewrite
    <3>5. pass' \in {"done", "listing", "writing"} /\ pageNo' \in {pageNo, pageNo + 1}
      BY <1>6, <2>1 DEF Rewrite
    <3>6. IsFiniteSet(batch')
      BY <3>4, FS_RemoveElement
    <3> QED
      BY <1>0, <3>3, <3>4, <3>5, <3>6 DEF RotationTypeOK
  <2>2. CASE item.id \notin Rows
    BY <1>6, <2>2, FS_EmptySet DEF Rewrite, RotationTypeOK
  <2> QED
    BY <2>1, <2>2
<1>7. ASSUME NEW r \in Rows, EditRow(r) PROVE RotationTypeOK' /\ IsFiniteSet(batch')
  <2>1. table[r] \in SealedRow /\ table[r].text \in 0..MaxEdits /\ table[r].text < MaxEdits
    BY <1>0, <1>7 DEF EditRow, SealedRow
  <2>2. [key |-> "new", text |-> table[r].text + 1] \in SealedRow
    BY <2>1 DEF SealedRow
  <2>3. table' = [table EXCEPT ![r] = [key |-> "new", text |-> table[r].text + 1]]
    BY <1>7 DEF EditRow
  <2>4. Rows' = Rows /\ table' \in [Rows' -> SealedRow]
    BY <1>0, <2>2, <2>3
  <2> QED
    BY <1>0, <1>7, <2>4 DEF EditRow, RotationTypeOK
<1>8. ASSUME NEW r \in Rows, DeleteRow(r) PROVE RotationTypeOK' /\ IsFiniteSet(batch')
  <2>1. Rows' = Rows \ {r} /\ table' \in [Rows' -> SealedRow]
    BY <1>0, <1>8 DEF DeleteRow
  <2> QED
    BY <1>0, <1>8, <2>1 DEF DeleteRow, RotationTypeOK
<1>9. CASE UNCHANGED rotationVars
  BY <1>9 DEF rotationVars, RotationTypeOK
<1> QED
  BY <1>1, <1>2, <1>3, <1>4, <1>5, <1>6, <1>7, <1>8, <1>9 DEF RotationNext

LEMMA PassStep ==
  ASSUME RotationInv, [RotationNext]_rotationVars
  PROVE  RotationInv'
<1> USE DEF Rows
<1>0. /\ RotationTypeOK /\ RotationTypeOK' /\ IsFiniteSet(batch) /\ IsFiniteSet(batch') /\ PassInv
      /\ pageNo \in Nat \ {0} /\ delivered \in Nat /\ total \in Nat
  BY RotationType DEF RotationInv, RotationTypeOK
<1>n. /\ PageSize \in Nat /\ pageNo * PageSize \in Nat /\ (pageNo - 1) * PageSize \in Nat
      /\ pageNo * PageSize = (pageNo - 1) * PageSize + PageSize
      /\ (pageNo + 1) - 1 = pageNo
  BY <1>0, RotationNumbers, PageEnds
<1> SUFFICES PassInv'
  BY <1>0 DEF RotationInv
\* The application's steps move no row to an earlier page, and add none on the old key.
<1>1. ASSUME Rows \subseteq Rows', OldKey' \subseteq OldKey,
             UNCHANGED <<gone, pass, pageNo, batch, delivered, total>>
      PROVE  PassInv'
  <2>1. ASSUME NEW n, n * PageSize \in Nat PROVE Later(n) \subseteq Later(n)'
    <3> SUFFICES ASSUME NEW r \in Later(n) PROVE r \in Later(n)'
      OBVIOUS
    <3>1. r \in Rows /\ Rank(r) > n * PageSize
      BY DEF Later
    <3>2. Rank(r) <= Rank(r)' /\ Rank(r) \in Nat /\ Rank(r)' \in Nat
      BY <1>0, <1>1, <3>1, RanksGrow
    <3>3. r \in Rows' /\ Rank(r)' > n * PageSize
      BY <1>1, <2>1, <3>1, <3>2
    <3> QED
      BY <3>3 DEF Later
  <2>2. Later(pageNo) \subseteq Later(pageNo)' /\ Later(pageNo - 1) \subseteq Later(pageNo - 1)'
    BY <1>n, <1>1, <2>1
  <2>3. BatchIds' = BatchIds
    BY <1>1 DEF BatchIds
  <2> QED
    BY <1>0, <1>1, <2>2, <2>3 DEF PassInv
<1>2. CASE ListPage
  <2>1. /\ pass = "listing" /\ pass' = "counting"
        /\ batch' = {[id |-> r, text |-> table[r].text] : r \in OnPage(pageNo)}
        /\ UNCHANGED <<table, gone, pageNo, delivered>>
    BY <1>2 DEF ListPage
  <2>2. OldKey' = OldKey /\ Later(pageNo)' = Later(pageNo)
    BY <2>1 DEF OldKey, Later, Rank
  <2>3. BatchIds' = OnPage(pageNo)
    <3>1. \A r \in OnPage(pageNo) : r \in BatchIds'
      <4> TAKE r \in OnPage(pageNo)
      <4>1. [id |-> r, text |-> table[r].text] \in batch'
        BY <2>1
      <4>2. [id |-> r, text |-> table[r].text].id = r
        OBVIOUS
      <4> QED
        BY <4>1, <4>2 DEF BatchIds
    <3>2. \A r \in BatchIds' : r \in OnPage(pageNo)
      BY <2>1 DEF BatchIds
    <3> QED
      BY <3>1, <3>2
  <2>4. Cardinality(batch') \in Nat /\ Cardinality(batch') <= PageSize
    BY <1>0, <2>1, BatchFits
  <2>5. ASSUME ~gone
        PROVE  /\ OldKey' \subseteq BatchIds' \cup Later(pageNo)'
               /\ batch' = {} => OldKey' = {}
               /\ delivered' + Cardinality(batch') <= pageNo' * PageSize
    <3>1. OldKey \subseteq Later(pageNo - 1) /\ delivered <= (pageNo - 1) * PageSize
      BY <1>0, <2>1, <2>5 DEF PassInv
    <3>2. Later(pageNo - 1) \subseteq OnPage(pageNo) \cup Later(pageNo)
      <4>1. \A r \in Rows : Rank(r) \in Nat
        BY <1>0, RankFacts
      <4> QED
        BY <1>n, <4>1 DEF Later, OnPage
    <3>3. batch' = {} => OnPage(pageNo) = {}
      BY <2>1
    <3>4. batch' = {} => Later(pageNo - 1) = {}
      BY <1>0, <3>3, NoGap
    <3>5. delivered + Cardinality(batch') <= pageNo * PageSize
      BY <1>0, <1>n, <2>4, <3>1
    <3> QED
      BY <2>1, <2>2, <2>3, <3>1, <3>2, <3>4, <3>5
  <2> QED
    BY <2>1, <2>5 DEF PassInv
<1>3. CASE Count
  <2>1. /\ pass = "counting" /\ pass' = IF batch = {} THEN "done" ELSE "writing"
        /\ total' = Cardinality(Rows) /\ UNCHANGED <<table, gone, pageNo, batch, delivered>>
    BY <1>3 DEF Count
  <2>2. OldKey' = OldKey /\ Later(pageNo)' = Later(pageNo) /\ BatchIds' = BatchIds
    BY <2>1 DEF OldKey, Later, Rank, BatchIds
  <2>3. \A r \in Later(pageNo) : Cardinality(Rows) > pageNo * PageSize
    <3> TAKE r \in Later(pageNo)
    <3>1. Rank(r) > pageNo * PageSize /\ Rank(r) <= Cardinality(Rows)
          /\ Rank(r) \in Nat /\ Cardinality(Rows) \in Nat
      BY <1>0, RankFacts DEF Later
    <3> QED
      BY <1>n, <3>1
  <2>4. ASSUME ~gone PROVE OldKey \subseteq BatchIds \/ total' > pageNo * PageSize
    <3>1. OldKey \subseteq BatchIds \cup Later(pageNo)
      BY <1>0, <2>1, <2>4 DEF PassInv
    <3>2. CASE Later(pageNo) = {}
      BY <3>1, <3>2
    <3>3. CASE Later(pageNo) # {}
      BY <2>1, <2>3, <3>3
    <3> QED
      BY <3>2, <3>3
  <2> QED
    BY <1>0, <2>1, <2>2, <2>4 DEF PassInv
<1>4. CASE Interrupt
  BY <1>4 DEF Interrupt, PassInv
<1>5. CASE Rerun
  <2>1. pass' = "listing" /\ pageNo' = 1 /\ delivered' = 0 /\ table' = table
    BY <1>5 DEF Rerun
  <2>2. \A r \in Rows : Rank(r) \in Nat /\ 1 <= Rank(r)
    BY <1>0, RankFacts
  <2>3. OldKey' = OldKey /\ \A r \in Rows : Rank(r)' = Rank(r)
    BY <2>1 DEF OldKey, Rank
  <2>4. pageNo' - 1 = 0 /\ 0 * PageSize = 0
    BY <1>n, <2>1
  <2>5. OldKey' \subseteq Later(pageNo - 1)'
    <3>1. (pageNo' - 1) * PageSize = 0
      BY <2>4
    <3>2. \A r \in OldKey : r \in Rows /\ Rank(r)' > 0
      BY <2>2, <2>3 DEF OldKey
    <3>3. Rows' = Rows
      BY <2>1
    <3> QED
      BY <2>3, <3>1, <3>2, <3>3 DEF Later
  <2> QED
    BY <2>1, <2>4, <2>5 DEF PassInv
<1>6. CASE InsertRow
  <2>1. table' = [r \in Rows \cup {created + 1} |->
                    IF r \in Rows THEN table[r] ELSE [key |-> "new", text |-> 0]]
    BY <1>6 DEF InsertRow
  <2>2. Rows' = Rows \cup {created + 1}
    BY <2>1
  <2>3. OldKey' \subseteq OldKey
    BY <2>1 DEF OldKey
  <2> QED
    BY <1>1, <1>6, <2>2, <2>3 DEF InsertRow
<1>7. ASSUME NEW item \in batch, Rewrite(item) PROVE PassInv'
  <2>1. CASE item.id \notin Rows
    BY <1>7, <2>1 DEF Rewrite, PassInv
  <2>2. CASE item.id \in Rows
    <3> DEFINE end == batch' = {}
    <3>1. /\ pass = "writing" /\ UNCHANGED <<gone, total>>
          /\ table' = [table EXCEPT ![item.id] = [key |-> "new", text |-> item.text]]
          /\ batch' = batch \ {item} /\ delivered' = delivered + 1
          /\ pass' = IF end THEN IF Finished(delivered + 1) THEN "done" ELSE "listing"
                            ELSE "writing"
          /\ pageNo' = IF end /\ ~Finished(delivered + 1) THEN pageNo + 1 ELSE pageNo
      BY <1>7, <2>2 DEF Rewrite
    <3>2. Rows' = Rows /\ OldKey' = OldKey \ {item.id}
      BY <1>0, <2>2, <3>1 DEF OldKey, RotationTypeOK, SealedRow
    <3>3. BatchIds \ {item.id} \subseteq BatchIds'
      BY <3>1 DEF BatchIds
    <3>4. \A n : Later(n)' = Later(n)
      BY <3>2 DEF Later, Rank
    <3>5. Cardinality(batch') = Cardinality(batch) - 1 /\ Cardinality(batch) \in Nat
          /\ Cardinality(batch') \in Nat
      BY <1>0, <3>1, FS_RemoveElement, FS_CardinalityType
    <3> SUFFICES ASSUME ~gone PROVE PassInv'
      BY <3>1 DEF PassInv
    <3>6. /\ OldKey \subseteq BatchIds \cup Later(pageNo)
          /\ OldKey \subseteq BatchIds \/ total > pageNo * PageSize
          /\ delivered + Cardinality(batch) <= pageNo * PageSize
      BY <1>0, <3>1 DEF PassInv
    <3>7. delivered' + Cardinality(batch') <= pageNo * PageSize
      BY <1>0, <1>n, <3>1, <3>5, <3>6
    <3>8. OldKey' \subseteq BatchIds' \cup Later(pageNo)
          /\ (OldKey' \subseteq BatchIds' \/ total' > pageNo * PageSize)
      BY <3>1, <3>2, <3>3, <3>6
    <3>9. CASE ~end
      <4>1. pass' = "writing" /\ pageNo' = pageNo
        BY <3>1, <3>9
      <4>2. Later(pageNo)' = Later(pageNo)
        BY <3>2, <4>1 DEF Later, Rank
      <4> QED
        BY <3>7, <3>8, <4>1, <4>2 DEF PassInv
    <3>10. CASE end
      <4>1. BatchIds' = {} /\ delivered' <= pageNo * PageSize
        BY <1>0, <1>n, <3>1, <3>5, <3>7, <3>10, FS_EmptySet DEF BatchIds
      <4>2. CASE Finished(delivered + 1)
        <5>1. pass' = "done" /\ ~(total > pageNo * PageSize)
          BY <1>0, <1>n, <3>1, <3>10, <4>1, <4>2 DEF Finished
        <5> QED
          BY <3>1, <3>8, <4>1, <5>1 DEF PassInv
      <4>3. CASE ~Finished(delivered + 1)
        <5>1. pass' = "listing" /\ pageNo' = pageNo + 1 /\ pageNo' - 1 = pageNo
          BY <1>n, <3>1, <3>10, <4>3
        <5>2. Later(pageNo - 1)' = Later(pageNo)
          BY <3>2, <5>1 DEF Later, Rank
        <5> QED
          BY <3>8, <4>1, <5>1, <5>2 DEF PassInv
      <4> QED
        BY <4>2, <4>3
    <3> QED
      BY <3>9, <3>10
  <2> QED
    BY <2>1, <2>2
<1>8. ASSUME NEW r \in Rows, EditRow(r) PROVE PassInv'
  <2>1. table' = [table EXCEPT ![r] = [key |-> "new", text |-> @.text + 1]]
    BY <1>8 DEF EditRow
  <2>2. Rows' = Rows /\ OldKey' \subseteq OldKey
    BY <1>0, <2>1 DEF OldKey, RotationTypeOK, SealedRow
  <2> QED
    BY <1>1, <1>8, <2>2 DEF EditRow
<1>9. ASSUME NEW r \in Rows, DeleteRow(r) PROVE PassInv'
  BY <1>9 DEF DeleteRow, PassInv
<1>10. CASE UNCHANGED rotationVars
  BY <1>1, <1>10 DEF rotationVars, OldKey
<1> QED
  BY <1>2, <1>3, <1>4, <1>5, <1>6, <1>7, <1>8, <1>9, <1>10 DEF RotationNext

(* "A successful run leaves nothing on the old key" (key-rotation.md): with any   *)
(* number of rows, any page size and the application reading, editing and         *)
(* creating rows beside it, unless a row is deleted during the pass (eachPage     *)
(* goes by OFFSET).                                                               *)
THEOREM RotationIsComplete == RotationSpec => [](RotationTypeOK /\ NothingOnTheOldKey)
<1> USE DEF Rows
<1>1. RotationInit => RotationInv
  <2> SUFFICES ASSUME RotationInit PROVE RotationInv
    OBVIOUS
  <2>1. Rows = 1..OldRows /\ 1..OldRows \subseteq 1..MaxSealed
    BY RotationNumbers DEF RotationInit
  <2>2. RotationTypeOK
    <3>1. [key |-> "old", text |-> 0] \in SealedRow
      BY RotationNumbers DEF SealedRow
    <3>2. table \in [Rows -> SealedRow]
      BY <2>1, <3>1 DEF RotationInit
    <3>3. /\ created = OldRows /\ gone = FALSE /\ pass = "listing" /\ pageNo = 1
          /\ batch = {} /\ delivered = 0 /\ total = 0
      BY DEF RotationInit
    <3>4. pageNo \in Nat \ {0} /\ {delivered, total} \subseteq Nat /\ created \in Nat
      BY <3>3, RotationNumbers
    <3> QED
      BY <2>1, <3>2, <3>3, <3>4 DEF RotationTypeOK
  <2>3. \A r \in Rows : Rank(r) \in Nat /\ 1 <= Rank(r)
    BY <2>2, RankFacts
  <2>4. (pageNo - 1) * PageSize = 0 /\ delivered = 0 /\ pass = "listing"
    BY RotationNumbers DEF RotationInit
  <2>5. OldKey \subseteq Later(pageNo - 1)
    BY <2>3, <2>4 DEF OldKey, Later
  <2>6. IsFiniteSet(batch)
    BY FS_EmptySet DEF RotationInit
  <2> QED
    BY <2>2, <2>4, <2>5, <2>6 DEF RotationInv, PassInv
<1>2. RotationInv => RotationTypeOK /\ NothingOnTheOldKey
  <2> SUFFICES ASSUME RotationInv, pass = "done", ~gone, NEW r \in Rows PROVE table[r].key = "new"
    BY DEF RotationInv, NothingOnTheOldKey
  <2>1. OldKey = {}
    BY DEF RotationInv, PassInv
  <2>2. table[r] \in SealedRow
    BY DEF RotationInv, RotationTypeOK
  <2> QED
    BY <2>1, <2>2 DEF OldKey, SealedRow
<1> QED
  BY <1>1, <1>2, PassStep, PTL DEF RotationSpec
=============================================================================

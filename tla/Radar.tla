------------------------------- MODULE Radar -------------------------------
(***************************************************************************)
(* The snapshot cache of the Talent Radar (app/dashboard/cache.go and      *)
(* cached.go), for one of its keys.  A request that misses computes the    *)
(* view from the repositories and stores it; nothing keeps two requests    *)
(* from computing at once, or from storing what is already outdated.  The  *)
(* content of a view is the time at which its repositories were read.      *)
(***************************************************************************)
EXTENDS Naturals

CONSTANTS Viewers,   \* requests that can be under way at a time
          TTL,       \* the cache's time to live, in ticks
          Slow,      \* bound: the ticks a computation may last
          MaxTicks   \* bound: ticks

ASSUME RadarAssumption == TTL \in Nat \ {0} /\ {Slow, MaxTicks} \subseteq Nat

VARIABLES
    snapshot,  \* the cache's item: what it shows and when it expires
    ticks,     \* the clock
    viewer     \* [Viewers -> record]

radarVars == <<snapshot, ticks, viewer>>

-----------------------------------------------------------------------------
Snapshot   == [present : BOOLEAN, asOf : 0..MaxTicks, expiry : Nat]
NoSnapshot == [present |-> FALSE, asOf |-> 0, expiry |-> 0]

Viewer == [pc : {"idle", "missed", "computed", "served"},
           since : 0..MaxTicks,   \* when it missed
           asOf : 0..MaxTicks]    \* what it has read or is shown
NoViewer == [pc |-> "idle", since |-> 0, asOf |-> 0]

RadarTypeOK ==
    /\ snapshot \in Snapshot
    /\ ticks \in 0..MaxTicks
    /\ viewer \in [Viewers -> Viewer]

RadarInit ==
    /\ snapshot = NoSnapshot
    /\ ticks = 0
    /\ viewer = [v \in Viewers |-> NoViewer]

-----------------------------------------------------------------------------
\* "After": an item is good at the very tick of its expiry.
Fresh == snapshot.present /\ ticks <= snapshot.expiry

\* A faulty Hit: the item lives on from its last use.
HitAndProlong(v) ==
    /\ viewer[v].pc = "idle" /\ Fresh
    /\ viewer' = [viewer EXCEPT ![v] = [pc |-> "served", since |-> ticks, asOf |-> snapshot.asOf]]
    /\ snapshot' = [snapshot EXCEPT !.expiry = ticks + TTL]
    /\ UNCHANGED ticks

Hit(v) ==
    /\ viewer[v].pc = "idle" /\ Fresh
    /\ viewer' = [viewer EXCEPT ![v] = [pc |-> "served", since |-> ticks, asOf |-> snapshot.asOf]]
    /\ UNCHANGED <<snapshot, ticks>>

Miss(v) ==
    /\ viewer[v].pc = "idle" /\ ~Fresh
    /\ viewer' = [viewer EXCEPT ![v] = [pc |-> "missed", since |-> ticks, asOf |-> 0]]
    /\ UNCHANGED <<snapshot, ticks>>

\* The repositories are read, the first of them now.
Compute(v) ==
    /\ viewer[v].pc = "missed"
    /\ viewer' = [viewer EXCEPT ![v].pc = "computed", ![v].asOf = ticks]
    /\ UNCHANGED <<snapshot, ticks>>

\* The item lives from when it is stored, whatever it replaces.
StoreSnapshot(v) ==
    /\ viewer[v].pc = "computed"
    /\ snapshot' = [present |-> TRUE, asOf |-> viewer[v].asOf, expiry |-> ticks + TTL]
    /\ viewer' = [viewer EXCEPT ![v].pc = "served"]
    /\ UNCHANGED ticks

\* The answer goes out; or a repository failed, and nothing is stored.
Deliver(v) ==
    /\ viewer[v].pc # "idle"
    /\ viewer' = [viewer EXCEPT ![v] = NoViewer]
    /\ UNCHANGED <<snapshot, ticks>>

RefreshSnapshots ==
    /\ snapshot' = NoSnapshot
    /\ UNCHANGED <<ticks, viewer>>

\* A computation lasts at most Slow ticks; an answer goes out in the tick it is made.
Pass ==
    /\ ticks < MaxTicks
    /\ \A v \in Viewers :
          /\ viewer[v].pc \in {"missed", "computed"} => ticks < viewer[v].since + Slow
          /\ viewer[v].pc # "served"
    /\ ticks' = ticks + 1
    /\ UNCHANGED <<snapshot, viewer>>

RadarNext ==
    \/ Pass \/ RefreshSnapshots
    \/ \E v \in Viewers : Hit(v) \/ Miss(v) \/ Compute(v) \/ StoreSnapshot(v) \/ Deliver(v)

RadarSpec == RadarInit /\ [][RadarNext]_radarVars

-----------------------------------------------------------------------------
(* Updates become visible "within a reasonable refresh window": what a viewer  *)
(* is shown was read no longer ago than the TTL and the longest computation    *)
(* together - however often the view is asked for, even when a slow request    *)
(* replaces a newer view with an older one, and when a refresh comes while it  *)
(* computes (StoreSnapshot does not look at what it replaces).                 *)
ShownIsRecent ==
    \A v \in Viewers : viewer[v].pc = "served" => ticks <= viewer[v].asOf + TTL + Slow

=============================================================================

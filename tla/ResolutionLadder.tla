-------------------------- MODULE ResolutionLadder --------------------------
(***************************************************************************)
(* AdaptiveResolutionController: the longest edge that is encoded moves    *)
(* down a ladder of three rungs when the budgets are exceeded persistently *)
(* and up again after a calm time, never above the rung the session        *)
(* negotiated.  VideoPipeline!Decided is the abstraction of its decisions; *)
(* what it promises is proved in VideoStreamProofs.                        *)
(* Times are in milliseconds; a frame's size is any value.                  *)
(***************************************************************************)
EXTENDS Integers

CONSTANT Sizes      \* sizes a captured frame may have

Window == 10000                         \* kStableUpgradeWindow, in milliseconds
Rungs == {3200, 2560, 1920}             \* kLongestEdgeLadder
PersistentBreachSamples == 3            \* kPersistentBreachSamples
NoTime == 0                             \* SteadyTime{}

VARIABLES
    initial,        \* initial_max_longest_edge_
    rung,           \* current_max_longest_edge_
    native,         \* native_size_, {} before the first frame
    breaches,       \* consecutive_breaches_
    stableSince,    \* stable_since_
    now,            \* the steady clock
    disturbed       \* history: when the budgets were last exceeded or the rung last changed

vars == <<initial, rung, native, breaches, stableSince, now, disturbed>>

Init ==
    /\ initial = 3200 /\ rung = 3200 /\ native = {}
    /\ breaches = 0 /\ stableSince = NoTime
    /\ now = 1 /\ disturbed = 1

ClampRung(requested) == IF requested \in Rungs THEN requested ELSE 3200

\* VideoPipeline::Start and Stop; the policy is restarted with each session.
Start(requested) ==
    /\ initial' = ClampRung(requested) /\ rung' = initial'
    /\ native' = {} /\ breaches' = 0 /\ stableSince' = NoTime
    /\ disturbed' = now
    /\ UNCHANGED now

\* Another size of captured frames: the rung stays, its history goes.
SetNativeSize(size) ==
    /\ native # {size}
    /\ native' = {size} /\ breaches' = 0 /\ stableSince' = NoTime
    /\ UNCHANGED <<initial, rung, now, disturbed>>

Lower == IF rung = 3200 THEN 2560 ELSE 1920
Higher == IF rung = 1920 THEN 2560 ELSE 3200

\* An observation that exceeds a budget, or of a transport that is blocked.
Breach ==
    /\ disturbed' = now /\ stableSince' = now
    /\ IF breaches + 1 >= PersistentBreachSamples /\ rung > 1920
       THEN rung' = Lower /\ breaches' = 0
       ELSE breaches' = breaches + 1 /\ UNCHANGED rung
    /\ UNCHANGED <<initial, native, now>>

\* An observation within the budgets.
Calm ==
    /\ breaches' = 0
    /\ LET since == IF stableSince = NoTime THEN now ELSE stableSince IN
       IF rung < initial /\ now >= since /\ now - since >= Window
       THEN rung' = Higher /\ stableSince' = now /\ disturbed' = now
       ELSE stableSince' = since /\ UNCHANGED <<rung, disturbed>>
    /\ UNCHANGED <<initial, native, now>>

TimePasses ==
    /\ now' \in Nat /\ now' > now
    /\ UNCHANGED <<initial, rung, native, breaches, stableSince, disturbed>>

Observe == Breach \/ Calm

Next ==
    \/ \E requested \in Nat : Start(requested)
    \/ \E size \in Sizes : SetNativeSize(size)
    \/ Observe
    \/ TimePasses

Spec == Init /\ [][Next]_vars
-----------------------------------------------------------------------------
\* The policy stays on the ladder, and never above the rung that the session
\* negotiated with the tablet (EstablishSession).
OnLadder == rung \in Rungs /\ initial \in Rungs /\ rung <= initial

\* An upgrade comes a whole window after the budgets were last exceeded and
\* after the rung last changed, whatever frame sizes came between: the policy
\* never swings up and down within a window.  (resolution_ladder.h:41-42)
UpgradeEarned == [][Observe /\ rung' > rung => now - disturbed >= Window]_vars

\* The stable time begins after the last disturbance, and the clock has passed it.
Clock ==
    /\ breaches \in Nat
    /\ now \in Nat /\ disturbed \in Nat /\ stableSince \in Nat
    /\ now > 0 /\ disturbed <= now /\ stableSince <= now
    /\ stableSince # NoTime => disturbed <= stableSince

LadderInv == OnLadder /\ Clock
=============================================================================

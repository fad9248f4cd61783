---------------------------- MODULE ServedSession ----------------------------
(***************************************************************************)
(* What the desktop server promises to those who draw: one session at a    *)
(* time has the pointer and the picture.  The loops of a session that has  *)
(* ended may reach them a little longer, each until it leaves, but nothing *)
(* of it - loop, contact or frame half sent - is left when the next is     *)
(* served.                                                                 *)
(*                                                                         *)
(* DesktopServer implements this specification (theorem Refinement of      *)
(* DesktopServerProofs).                                                   *)
(***************************************************************************)
CONSTANTS
    Sessions,
    NoSession,
    Channels     \* the loops of a session

VARIABLES
    serving,     \* the session that is served, or NoSession
    reach,       \* per channel, the session that its loop acts for
    pointer,     \* the session whose pen or finger is down
    frame        \* the session whose frame is being sent

sessionVars == <<serving, reach, pointer, frame>>

Nothing == [c \in Channels |-> NoSession]

Init ==
    /\ serving = NoSession
    /\ reach = Nothing
    /\ pointer = NoSession
    /\ frame = NoSession

\* A session is served from the moment in which nothing is left of any other.
Serve ==
    /\ serving = NoSession /\ reach = Nothing
    /\ pointer = NoSession /\ frame = NoSession
    /\ \E s \in Sessions :
        /\ serving' = s
        /\ reach' = [c \in Channels |-> s]
    /\ UNCHANGED <<pointer, frame>>

\* Some of the loops may not have left yet.
Withdraw == \E gone \in SUBSET Channels :
    reach' = [c \in Channels |-> IF c \in gone THEN NoSession ELSE reach[c]]

End ==
    /\ serving # NoSession
    /\ serving' = NoSession
    /\ Withdraw
    /\ UNCHANGED pointer
    /\ frame' \in {frame, NoSession}

\* A loop leaves, the video loop with its frame.
LoopLeaves ==
    /\ serving = NoSession
    /\ Withdraw
    /\ frame' \in {frame, NoSession}
    /\ UNCHANGED <<serving, pointer>>

\* The tablet's input moves the pointer.
Touch ==
    /\ pointer' = reach["input"]
    /\ UNCHANGED <<serving, reach, frame>>

\* Whatever is down is lifted: by the tablet, a rotation, the end of a session or
\* the beginning of the next.
Lift ==
    /\ pointer' = NoSession
    /\ UNCHANGED <<serving, reach, frame>>

\* A frame is taken from the encoder, or the last of it written.
Send ==
    /\ frame' \in {reach["video"], NoSession}
    /\ UNCHANGED <<serving, reach, pointer>>

Next == Serve \/ End \/ LoopLeaves \/ Touch \/ Lift \/ Send

Spec == Init /\ [][Next]_sessionVars
=============================================================================

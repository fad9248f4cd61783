------------------------------- MODULE AdbLink -------------------------------
(***************************************************************************)
(* What an ADB session promises to the transport that authenticates        *)
(* against it.  The link is brought up by launching the Android client     *)
(* with a one-time token; the token authenticates channels from the moment *)
(* it is published, which is before the launch command has returned, until *)
(* the link is lost or shut down.  A lost link is launched again with a    *)
(* token that was never used before.                                       *)
(*                                                                         *)
(* AdbSession implements this specification (theorem Refinement of         *)
(* AdbSessionProofs).                                                      *)
(***************************************************************************)
CONSTANTS
    Tokens,     \* what the random generator can draw
    NoToken

VARIABLES
    link,       \* where the link stands, one of LinkStates
    auth,       \* the token that authenticates channels now, or NoToken
    used        \* every token that was ever published

linkVars == <<link, auth, used>>

LinkStates == {"idle", "launching", "up", "down", "stopped"}

Init ==
    /\ link = "idle"
    /\ auth = NoToken
    /\ used = {}

\* An attempt begins: nothing authenticates until its token is published.
Launch ==
    /\ link \in {"idle", "down"}
    /\ link' = "launching"
    /\ auth' = NoToken
    /\ UNCHANGED used

\* The attempt publishes a fresh token and hands it to the client.
Publish ==
    /\ link = "launching"
    /\ auth = NoToken
    /\ \E t \in Tokens \ used :
        /\ auth' = t
        /\ used' = used \cup {t}
    /\ UNCHANGED link

\* The launch command returned; the token of the attempt stays valid.
Complete ==
    /\ link = "launching"
    /\ auth # NoToken
    /\ link' = "up"
    /\ UNCHANGED <<auth, used>>

\* The attempt failed, or the transport reported a lost channel.
Lose ==
    /\ link \in {"launching", "up", "down"}
    /\ link' = "down"
    /\ auth' = NoToken
    /\ UNCHANGED used

ShutDown ==
    /\ link # "stopped"
    /\ link' = "stopped"
    /\ auth' = NoToken
    /\ UNCHANGED used

\* What the session's own thread does, without an outside event.
Attempt == Launch \/ Publish \/ Complete

Next == Attempt \/ Lose \/ ShutDown

Spec == Init /\ [][Next]_linkVars

-----------------------------------------------------------------------------

TypeOK ==
    /\ link \in LinkStates
    /\ auth \in Tokens \cup {NoToken}
    /\ used \in SUBSET Tokens

\* A link that is up has a token that authenticates, and one that is not
\* being brought up has none.  (session.cpp:127-145, ValidateSessionToken)
AuthFollowsLink ==
    /\ link = "up" => auth # NoToken
    /\ link \in {"idle", "down", "stopped"} => auth = NoToken
    /\ auth # NoToken => auth \in used
=============================================================================

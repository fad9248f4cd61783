--------------------------- MODULE ControlChannel ---------------------------
(***************************************************************************)
(* The control channels of successive sessions: the tablet's clock         *)
(* requests and completions, ControlLoop, which reads and answers them,    *)
(* and EndSession on any thread, which forgets the pending clock exchange, *)
(* says goodbye and closes.  Sessions stand for the generations they get;  *)
(* timestamps are unique, so an exchange is named by its request.          *)
(***************************************************************************)
EXTENDS FramedStream, Incidents

CONSTANTS
    MaxSessions,    \* bound
    MaxFrames,      \* bound on the frames the tablet sends in a session
    Other,          \* a thread that may end the session as well
    Nobody, None    \* no thread; no exchange

ASSUME ChannelAssumption == MaxSessions \in Nat /\ MaxFrames \in Nat

Sessions == 1 .. MaxSessions
Threads == Sessions \cup {Other}    \* a session's ControlLoop has its number
Exchange == [session : Sessions, n : 1 .. MaxFrames]
Garbled == [session |-> 0, n |-> 0]   \* timestamps that nobody took
Message == [session : Sessions, n : 1 .. MaxFrames, completes : Exchange \cup {None, Garbled}]
Goodbye == [session |-> 0, n |-> 1]

ASSUME NamesAssumption == Other \notin Sessions /\ Nobody \notin Threads /\ None \notin Message

VARIABLES
    session, active,    \* generation_, session_active_
    at,                 \* per thread, where it is
    ending,             \* per thread, the session whose socket its EndSession took
    reader, message,    \* per session, locals of ControlLoop
    lock, written,      \* control_write_mutex_; pieces its owner has written
    open, hung,         \* per session, its socket is open here; the tablet has closed its end
    toHost, toTablet,   \* per session, pieces on their way
    pending,            \* pending_clock_sync_
    conn, sent, half,   \* the tablet's connection, frames sent on it, the frame that is half sent
    answering,          \* response the tablet's reader is about to answer
    handled, samples,   \* history: pieces handed on, completions written to the telemetry
    stalled, torn, misread  \* history: a read, a write timed out within a frame; what the tablet read was none

hostVars == <<session, active, at, ending, reader, message, lock, written, open, pending>>
tabletVars == <<hung, conn, sent, half, answering>>
streams == <<toHost, toTablet>>
history == <<handled, samples, stalled, torn, misread>>
vars == <<hostVars, tabletVars, streams, history, incidents>>

Init ==
    /\ session = 0 /\ active = FALSE
    /\ at = [t \in Threads |-> IF t = Other THEN "over" ELSE "unborn"]
    /\ ending = [t \in Threads |-> 0]
    /\ reader = [s \in Sessions |-> Fresh] /\ message = [s \in Sessions |-> None]
    /\ lock = Nobody /\ written = 0
    /\ open = [s \in Sessions |-> FALSE] /\ hung = [s \in Sessions |-> FALSE]
    /\ toHost = [s \in Sessions |-> <<>>] /\ toTablet = [s \in Sessions |-> <<>>]
    /\ pending = None
    /\ conn = 0 /\ sent = 0 /\ half = None /\ answering = None
    /\ handled = [s \in Sessions |-> <<>>] /\ samples = <<>>
    /\ stalled = [s \in Sessions |-> FALSE] /\ torn = [s \in Sessions |-> FALSE]
    /\ misread = FALSE /\ incidents = 0

IsGenerationActive(s) == active /\ session = s

Goto(t, place) == at' = [at EXCEPT ![t] = place]

\* The end of EstablishSession: the loop that went before is joined.
Establish ==
    /\ ~active /\ conn = 0 /\ session < MaxSessions
    /\ session' = session + 1 /\ active' = TRUE /\ open' = [open EXCEPT ![session'] = TRUE]
    /\ Goto(session', "join")
    /\ conn' = session'
    /\ UNCHANGED <<ending, reader, message, lock, written, pending, hung, sent, half, answering, streams, history, incidents>>

Join(s) ==
    /\ at[s] = "join" /\ (s > 1 => at[s - 1] = "over")
    /\ Goto(s, "top")
    /\ UNCHANGED <<session, active, ending, reader, message, lock, written, open, pending, tabletVars, streams, history, incidents>>
-----------------------------------------------------------------------------
\* Mutant: nothing keeps two writers apart.
FreeAlways == TRUE

\* control_write_mutex_ can be taken.
Free == lock = Nobody

\* Mutant: the mutex stays locked.
StillLocked(t) == t

\* The mutex when a write fails.
Unlocked(t) == Nobody

\* WriteFrame of a frame to session s by thread t under the mutex; then it is
\* at place done, or at place failed if the socket refuses a piece.
WriteFrame(t, s, frame, done, failed) ==
    /\ IF lock = t THEN written = 1 ELSE Free
    /\ LET offset == IF lock = t THEN written ELSE 0 IN
       \/ /\ open[s] /\ Smooth
          /\ toTablet' = [toTablet EXCEPT ![s] = Append(@, Pieces(frame)[offset + 1])]
          /\ written' = offset + 1
          /\ IF offset = 1 THEN Goto(t, done) /\ lock' = (IF done = "record" THEN t ELSE Nobody)
             ELSE UNCHANGED at /\ lock' = t
          /\ UNCHANGED torn
       \/ /\ IF open[s] /\ ~hung[s] THEN Incident ELSE Smooth
          /\ torn' = [torn EXCEPT ![s] = @ \/ offset = 1]
          /\ Goto(t, failed) /\ lock' = Unlocked(t) /\ written' = 0
          /\ UNCHANGED toTablet
    /\ UNCHANGED <<session, active, ending, reader, message, open, pending, tabletVars, toHost, handled, samples, stalled, misread>>
-----------------------------------------------------------------------------
\* ControlLoop: the generation is looked at before each frame.
Top(s) ==
    /\ at[s] = "top"
    /\ Goto(s, IF IsGenerationActive(s) THEN "read" ELSE "over")
    /\ UNCHANGED <<session, active, ending, reader, message, lock, written, open, pending, tabletVars, streams, history, incidents>>

\* A piece arrives; a complete frame is handed on, or ends the session.
Receive(s) ==
    /\ at[s] = "read" /\ open[s] /\ toHost[s] # <<>>
    /\ toHost' = [toHost EXCEPT ![s] = Tail(@)]
    /\ \E r \in Taken(reader[s], Head(toHost[s])) :
          IF ~Complete(r) THEN
             /\ reader' = [reader EXCEPT ![s] = r]
             /\ UNCHANGED <<at, message, handled>>
          ELSE
             /\ reader' = [reader EXCEPT ![s] = Fresh]
             /\ IF Decodes(r.got)
                THEN /\ message' = [message EXCEPT ![s] = r.got[1].frame]
                     /\ handled' = [handled EXCEPT ![s] = Append(@, r.got)]
                     /\ Goto(s, IF r.got[1].frame.completes = None THEN "respond" ELSE "consume")
                ELSE Goto(s, "end") /\ UNCHANGED <<message, handled>>
    /\ UNCHANGED <<session, active, ending, lock, written, open, pending, tabletVars, toTablet, samples, stalled, torn, misread, incidents>>

\* Nothing arrives for a second.
ReceiveTimesOut(s) ==
    /\ at[s] = "read" /\ open[s] /\ ~hung[s] /\ toHost[s] = <<>>
    /\ reader' = [reader EXCEPT ![s] = TimedOut(@)]
    /\ stalled' = [stalled EXCEPT ![s] = @ \/ MidFrame(reader[s])]
    /\ IF MidFrame(reader[s]) THEN Incident ELSE Smooth
    /\ Goto(s, "top")
    /\ UNCHANGED <<session, active, ending, message, lock, written, open, pending, tabletVars, streams, handled, samples, torn, misread>>

\* Mutant: an end that is closed is taken for a timeout.
OnceClosedAgain == "top"

\* Either end has been closed.
OnceClosed == "end"

ReceiveClosed(s) ==
    /\ at[s] = "read" /\ (~open[s] \/ (hung[s] /\ toHost[s] = <<>>))
    /\ reader' = [reader EXCEPT ![s] = Fresh]
    /\ Goto(s, OnceClosed)
    /\ UNCHANGED <<session, active, ending, message, lock, written, open, pending, tabletVars, streams, history, incidents>>

\* ClockSyncRequest is answered, and remembered only then.
Respond(s) ==
    /\ at[s] = "respond"
    /\ WriteFrame(s, s, [session |-> s, n |-> message[s].n], "record", "end")

RecordPendingClockSync(s) ==
    /\ at[s] = "record"
    /\ pending' = [exchange |-> [session |-> s, n |-> message[s].n], generation |-> s, late |-> FALSE, consumed |-> FALSE]
    /\ lock' = Nobody /\ written' = 0
    /\ Goto(s, "top")
    /\ UNCHANGED <<session, active, ending, reader, message, open, tabletVars, streams, history, incidents>>

\* Mutant: whose exchange is pending is not asked.
AnyOnes(s) == pending # None

Ours(s) == pending # None /\ pending.generation = s

\* ClockSyncComplete.  The order of the four timestamps is not modelled: it
\* holds for what two clocks that never run backwards give.
ConsumeClockSyncComplete(s) ==
    /\ at[s] = "consume"
    /\ LET accepted == /\ Ours(s) /\ ~pending.late
                       /\ pending.exchange = message[s].completes /\ ~pending.consumed
       IN  /\ pending' = IF Ours(s) /\ pending.late THEN None
                         ELSE IF accepted THEN [pending EXCEPT !.consumed = TRUE] ELSE pending
           /\ samples' = IF accepted THEN Append(samples, [loop |-> s, exchange |-> message[s].completes]) ELSE samples
    /\ Goto(s, "top")
    /\ UNCHANGED <<session, active, ending, reader, message, lock, written, open, tabletVars, streams, handled, stalled, torn, misread, incidents>>

ControlLoop(s) ==
    \/ Join(s) \/ Top(s) \/ Receive(s) \/ ReceiveTimesOut(s) \/ ReceiveClosed(s)
    \/ Respond(s) \/ RecordPendingClockSync(s) \/ ConsumeClockSyncComplete(s)
-----------------------------------------------------------------------------
\* EndSession by thread t; DesktopServer has the steps that are one here.
ClearPendingClockSync(t) ==
    /\ at[t] = "end"
    /\ pending' = None
    /\ Goto(t, "claim")
    /\ UNCHANGED <<session, active, ending, reader, message, lock, written, open, tabletVars, streams, history, incidents>>

EndClaim(t) ==
    /\ at[t] = "claim"
    /\ Goto(t, IF active THEN "goodbye" ELSE "over")
    /\ ending' = [ending EXCEPT ![t] = session]
    /\ active' = FALSE
    /\ UNCHANGED <<session, reader, message, lock, written, open, pending, tabletVars, streams, history, incidents>>

WriteDisconnect(t) ==
    /\ at[t] = "goodbye"
    /\ WriteFrame(t, ending[t], Goodbye, "close", "close")

EndClose(t) ==
    /\ at[t] = "close"
    /\ open' = [open EXCEPT ![ending[t]] = FALSE]
    /\ toHost' = [toHost EXCEPT ![ending[t]] = <<>>]
    /\ Goto(t, "over")
    /\ UNCHANGED <<session, active, ending, reader, message, lock, written, pending, tabletVars, toTablet, history, incidents>>

EndSession(t) == ClearPendingClockSync(t) \/ EndClaim(t) \/ WriteDisconnect(t) \/ EndClose(t)

\* The watchdog, or another of the session's loops, ends it.
OtherEnds ==
    /\ at[Other] = "over" /\ Incident
    /\ Goto(Other, "end")
    /\ UNCHANGED <<session, active, ending, reader, message, lock, written, open, pending, tabletVars, streams, history>>

\* Ten seconds pass since the exchange that is pending.
Age ==
    /\ pending # None /\ ~pending.late /\ Incident
    /\ pending' = [pending EXCEPT !.late = TRUE]
    /\ UNCHANGED <<session, active, at, ending, reader, message, lock, written, open, tabletVars, streams, history>>
-----------------------------------------------------------------------------
\* The tablet's control writer: a clock request, or the completion that the
\* reader wants, on the connection there is by then.
TabletSends ==
    /\ conn # 0 /\ half = None /\ sent < MaxFrames
    /\ \E completes \in {None, answering} :
          /\ half' = [session |-> conn, n |-> sent + 1, completes |-> completes]
          /\ answering' = IF completes = None THEN answering ELSE None
    /\ sent' = sent + 1
    /\ toHost' = [toHost EXCEPT ![conn] = Append(@, Pieces(half')[1])]
    /\ UNCHANGED <<hostVars, hung, conn, toTablet, history, incidents>>

RestArrives ==
    /\ half # None /\ half' = None
    /\ toHost' = [toHost EXCEPT ![conn] = Append(@, Pieces(half)[2])]
    /\ UNCHANGED <<hostVars, hung, conn, sent, answering, toTablet, history, incidents>>

\* A completion without a connection is dropped.
TabletDiscards ==
    /\ answering # None /\ conn = 0 /\ answering' = None
    /\ UNCHANGED <<hostVars, hung, conn, sent, half, streams, history, incidents>>

\* The tablet's reader reads a frame.  The rest of a torn one is filled up with
\* what follows: timestamps that nobody took.
TabletReads ==
    /\ conn # 0 /\ answering = None /\ Len(toTablet[conn]) > 1
    /\ LET two == SubSeq(toTablet[conn], 1, 2)
           whole == Decodes(two)
       IN  /\ misread' = (misread \/ (~whole /\ ~torn[conn]))
           /\ answering' = IF ~whole THEN Garbled ELSE IF two[1].frame = Goodbye THEN None ELSE two[1].frame
    /\ toTablet' = [toTablet EXCEPT ![conn] = SubSeq(@, 3, Len(@))]
    /\ UNCHANGED <<hostVars, hung, conn, sent, half, toHost, handled, samples, stalled, torn, incidents>>

\* The connection fails, or the tablet finds it closed.
TabletDrops ==
    /\ conn # 0
    /\ IF open[conn] THEN Incident ELSE Smooth
    /\ hung' = [hung EXCEPT ![conn] = TRUE]
    /\ conn' = 0 /\ half' = None /\ sent' = 0
    /\ toTablet' = [toTablet EXCEPT ![conn] = <<>>]
    /\ UNCHANGED <<hostVars, answering, toHost, history>>

Tablet == TabletSends \/ RestArrives \/ TabletDiscards \/ TabletReads \/ TabletDrops

Next ==
    \/ Establish \/ OtherEnds \/ Age \/ Tablet
    \/ \E s \in Sessions : ControlLoop(s)
    \/ \E t \in Threads : EndSession(t)

Fairness ==
    /\ \A s \in Sessions : WF_vars(ControlLoop(s))
    /\ \A t \in Threads : WF_vars(EndSession(t))

Spec == Init /\ [][Next]_vars /\ Fairness
-----------------------------------------------------------------------------
\* The variables keep their ranges; the mutex is held by a thread that writes.
TypeOK ==
    /\ session \in 0 .. MaxSessions /\ active \in BOOLEAN
    /\ at \in [Threads -> {"unborn", "join", "top", "read", "respond", "record", "consume", "end", "claim", "goodbye", "close", "over"}]
    /\ ending \in [Threads -> 0 .. MaxSessions]
    /\ message \in [Sessions -> Message \cup {None}]
    /\ \A s \in Sessions : ~Complete(reader[s])
    /\ lock \in Threads \cup {Nobody} /\ written \in 0 .. 2
    /\ lock # Nobody => at[lock] \in {"respond", "record", "goodbye"}
    /\ pending = None \/ pending.exchange \in Exchange
    /\ conn \in 0 .. MaxSessions /\ sent \in 0 .. MaxFrames
    /\ half \in Message \cup {None} /\ answering \in Exchange \cup {None, Garbled}

\* Whatever a receive timeout makes of the stream, ControlLoop is handed nothing
\* but whole frames, each as it was sent and at most once, in order; and none is
\* missing unless a timeout struck within a frame.
FramesHandledInOrder ==
    \A s \in Sessions : LET all == handled[s] IN
        /\ \A i \in DOMAIN all : all[i] = Pieces(all[i][1].frame) /\ all[i][1].frame.session = s
        /\ \A i, j \in DOMAIN all : i < j => all[i][1].frame.n < all[j][1].frame.n
        /\ stalled[s] \/ \A i \in DOMAIN all : all[i][1].frame.n = i

\* The tablet reads nothing that is no frame, although the loop's answer and
\* another thread's goodbye may be written at once, unless a write timed out
\* within a frame: then the goodbye that follows completes it with foreign bytes.
TabletReadsFrames == ~misread

StreamsIntact == FramesHandledInOrder /\ TabletReadsFrames

\* A clock sample in the telemetry belongs to a request that the same session
\* answered, and there is at most one per request, whatever an earlier session's
\* loop left pending and whenever a completion arrives.
SamplesGenuine ==
    /\ \A i \in DOMAIN samples : samples[i].loop = samples[i].exchange.session
    /\ \A i, j \in DOMAIN samples : samples[i].exchange = samples[j].exchange => i = j

\* A channel that the tablet closed ends its session, also when the loop has
\* lost its place in the stream.
LossNoticed == \A s \in Sessions : hung[s] ~> ~IsGenerationActive(s)
=============================================================================

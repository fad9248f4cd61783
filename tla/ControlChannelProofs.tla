------------------------ MODULE ControlChannelProofs ------------------------
(***************************************************************************)
(* Proofs about the control channel, for any number of sessions, frames    *)
(* and incidents and any length that a lost reader may find: ControlLoop   *)
(* is handed whole frames in order, the tablet reads nothing that is no    *)
(* frame, and every clock sample belongs to a request that was answered.   *)
(***************************************************************************)
EXTENDS ControlChannel, SequenceTheorems, TLAPS

Places == {"unborn", "join", "top", "read", "respond", "record", "consume",
           "end", "claim", "goodbye", "close", "over"}

\* ControlLoop has not been left.
Looping == {"join", "top", "read", "respond", "record", "consume"}

\* What travels to the host, in session s and in any, and to the tablet.
Piece == [frame : Message, part : {1, 2}]
PieceOf(s) == [frame : {m \in Message : m.session = s}, part : {1, 2}]
AnswerPiece == [frame : Exchange \cup {Goodbye}, part : {1, 2}]

Pending == [exchange : Exchange, generation : Sessions, late : BOOLEAN, consumed : BOOLEAN]

\* The loops, and the session whose socket an EndSession took.
LoopsRight ==
    /\ session \in 0 .. MaxSessions /\ active \in BOOLEAN /\ (active => session # 0)
    /\ at \in [Threads -> Places] /\ ending \in [Threads -> 0 .. MaxSessions]
    /\ \A t \in Threads : at[t] \in {"goodbye", "close"} => ending[t] \in 1 .. session
    /\ message \in [Sessions -> Message \cup {None}]
    /\ \A s \in Sessions : at[s] \in {"respond", "record", "consume"} => message[s] \in Message
    /\ at[Other] \in {"over", "end", "claim", "goodbye", "close"}

\* The mutex is held by the thread that has written half of its frame, or that
\* has yet to record the exchange it has answered.
LockRight ==
    /\ lock \in Threads \cup {Nobody} /\ written \in 0 .. 2
    /\ lock # Nobody =>
          \/ at[lock] \in {"respond", "goodbye"} /\ written = 1
          \/ at[lock] = "record"
    /\ \A t \in Threads : at[t] = "record" => lock = t

\* The tablet has a connection for the last session, or none.
ConnectionRight ==
    /\ conn \in {0, session} /\ sent \in 0 .. MaxFrames
    /\ half \in Message \cup {None} /\ answering \in Exchange \cup {None, Garbled}
    /\ conn = 0 => sent = 0 /\ half = None
    /\ half # None => half.session = conn /\ half.n = sent

SocketsTyped ==
    /\ open \in [Sessions -> BOOLEAN]
    /\ hung \in [Sessions -> BOOLEAN]
    /\ stalled \in [Sessions -> BOOLEAN] /\ torn \in [Sessions -> BOOLEAN]

HostTyped ==
    /\ toHost \in [Sessions -> Seq(Piece)]
    /\ reader \in [Sessions -> [got : Seq(Piece), wanted : Nat]]
    /\ handled \in [Sessions -> Seq(Seq(Piece))]
    /\ \A s \in Sessions : toHost[s] \in Seq(PieceOf(s)) /\ reader[s].got \in Seq(PieceOf(s))
    /\ \A s \in Sessions : ~Complete(reader[s])

TabletTyped == toTablet \in [Sessions -> Seq(AnswerPiece)]

\* Nothing has happened to a session that is still to come.
Blank ==
    \A s \in Sessions : s > session =>
        /\ at[s] = "unborn" /\ ~open[s]
        /\ reader[s] = Fresh /\ toHost[s] = <<>> /\ handled[s] = <<>> /\ toTablet[s] = <<>>

\* Pieces are numbered in the order in which they are sent.
Key(piece) == 2 * piece.frame.n + piece.part

\* The number of the piece that the tablet sends next.
NextKey == IF half = None THEN 2 * sent + 3 ELSE 2 * sent + 2

\* Up to number b the pieces of session s are dealt with: those the reader has
\* follow, then those on their way, then those to be sent.  Without a timeout
\* within a frame, all that was dealt with was handed on.
DealtWith(s, b) ==
    /\ \A i \in DOMAIN reader[s].got : Key(reader[s].got[i]) = b + i
    /\ \A i \in DOMAIN toHost[s] : Key(toHost[s][i]) = b + Len(reader[s].got) + i
    /\ conn = s => b + Len(reader[s].got) + Len(toHost[s]) + 1 = NextKey
    /\ \A i \in DOMAIN handled[s] : 2 * handled[s][i][1].frame.n + 2 <= b
    /\ ~stalled[s] /\ at[s] \in Looping => b = 2 * Len(handled[s]) + 2

HostStream == \A s \in Sessions : open[s] => \E b \in Nat : DealtWith(s, b)

\* The thread that has the mutex has written the first piece of its frame to s.
HalfWritten(s) ==
    /\ lock # Nobody
    /\ \/ at[lock] = "respond" /\ s = lock
       \/ at[lock] = "goodbye" /\ s = ending[lock]

Underway == IF at[lock] = "respond" THEN [session |-> lock, n |-> message[lock].n] ELSE Goodbye

\* Whole frames.
Paired(q) ==
    \A k \in Nat : 2 * k + 2 <= Len(q) =>
        q[2 * k + 1].part = 1 /\ q[2 * k + 2] = [frame |-> q[2 * k + 1].frame, part |-> 2]

\* On its way to the tablet are whole frames, and last the half of one that is
\* being written.
Written(s) ==
    /\ Paired(toTablet[s])
    /\ \E k \in Nat :
          IF HalfWritten(s)
          THEN Len(toTablet[s]) = 2 * k + 1 /\ toTablet[s][2 * k + 1] = [frame |-> Underway, part |-> 1]
          ELSE Len(toTablet[s]) = 2 * k

TabletStream == \A s \in Sessions : conn = s /\ ~torn[s] => Written(s)

\* The loop of the exchange's session was handed its request.
WasHandled(exchange) ==
    \E i \in DOMAIN handled[exchange.session] : handled[exchange.session][i][1].frame.n = exchange.n

Sampled(exchange) == \E i \in DOMAIN samples : samples[i].exchange = exchange

\* An exchange is sampled at most once, because it is forgotten, marked or was
\* never recorded before.
ExchangesRight ==
    /\ samples \in Seq([loop : Sessions, exchange : Exchange])
    /\ \A i \in DOMAIN samples : WasHandled(samples[i].exchange)
    /\ pending \in Pending \cup {None}
    /\ pending # None =>
          /\ pending.exchange.session = pending.generation /\ WasHandled(pending.exchange)
          /\ ~pending.consumed => ~Sampled(pending.exchange)
    /\ \A s \in Sessions : at[s] \in {"respond", "record"} =>
          WasHandled([session |-> s, n |-> message[s].n]) /\ ~Sampled([session |-> s, n |-> message[s].n])

ChannelInv ==
    /\ LoopsRight /\ LockRight /\ ConnectionRight /\ SocketsTyped /\ HostTyped /\ TabletTyped /\ Blank
    /\ HostStream /\ FramesHandledInOrder
    /\ TabletStream /\ TabletReadsFrames
    /\ ExchangesRight /\ SamplesGenuine
-----------------------------------------------------------------------------
(***************************************************************************)
(* The operators of the stream.                                            *)
(***************************************************************************)

Reader == [got : Seq(Piece), wanted : Nat]

\* Reading on means appending, whatever length a lost reader finds.
LEMMA TakenAppends ==
    ASSUME NEW local \in Reader, NEW piece \in Piece, NEW r \in Taken(local, piece)
    PROVE  r \in Reader /\ r.got = Append(local.got, piece)
<1>1. Append(local.got, piece) \in Seq(Piece)
    BY AppendProperties DEF Reader
<1>2. CASE MidFrame(local)
    BY <1>1, <1>2 DEF Taken, Reader
<1>3. CASE ~MidFrame(local)
    <2>1. Append(local.got, piece) = <<piece>>
        <3>1. <<piece>> \in Seq(Piece) /\ Len(<<piece>>) = 1 /\ <<piece>>[1] = piece
            OBVIOUS
        <3>2. local.got = <<>> /\ <<>> \in Seq(Piece)
            BY <1>3, EmptySeq DEF MidFrame
        <3>3. Len(Append(<<>>, piece)) = 1 /\ Append(<<>>, piece)[1] = piece /\ Append(<<>>, piece) \in Seq(Piece)
            BY <3>2, AppendProperties
        <3> QED
            BY <3>1, <3>2, <3>3, SeqEqual
    <2>2. PICK n \in Nat : r = [got |-> <<piece>>, wanted |-> n]
        BY <1>3, FramedStreamAssumption DEF Taken, Piece
    <2> QED
        BY <1>1, <2>1, <2>2 DEF Reader
<1> QED
    BY <1>2, <1>3

\* A frame that decodes is made of the two pieces that were sent.
LEMMA DecodedPieces ==
    ASSUME NEW q \in Seq(Piece), Decodes(q)
    PROVE  /\ Len(q) = 2 /\ q = Pieces(q[1].frame)
           /\ q[1].part = 1 /\ q[2].part = 2 /\ q[2].frame = q[1].frame
           /\ q[1].frame \in Message
<1>1. Len(q) = 2 /\ q = Pieces(q[1].frame)
    BY DEF Decodes
<1>2. q[1] \in Piece
    BY SMTT(30), <1>1, ElementOfSeq
<1>3. q[1] = [frame |-> q[1].frame, part |-> 1] /\ q[2] = [frame |-> q[1].frame, part |-> 2]
    BY <1>1 DEF Pieces
<1> QED
    BY <1>1, <1>2, <1>3 DEF Piece

\* The three outcomes of a piece that arrives.
LEMMA ReceiveSteps ==
    ASSUME HostTyped, NEW s \in Sessions, Receive(s)
    PROVE  \E r \in Reader :
              /\ r.got = Append(reader[s].got, Head(toHost[s]))
              /\ \/ /\ ~Complete(r) /\ reader' = [reader EXCEPT ![s] = r]
                    /\ UNCHANGED <<at, message, handled>>
                 \/ /\ Decodes(r.got) /\ reader' = [reader EXCEPT ![s] = Fresh]
                    /\ message' = [message EXCEPT ![s] = r.got[1].frame]
                    /\ handled' = [handled EXCEPT ![s] = Append(@, r.got)]
                    /\ \E place \in {"respond", "consume"} : Goto(s, place)
                 \/ /\ reader' = [reader EXCEPT ![s] = Fresh]
                    /\ Goto(s, "end") /\ UNCHANGED <<message, handled>>
<1>1. reader[s] \in Reader /\ Head(toHost[s]) \in Piece
    BY HeadTailProperties DEF HostTyped, Reader, Receive
<1>2. PICK r \in Taken(reader[s], Head(toHost[s])) :
          IF ~Complete(r) THEN
             /\ reader' = [reader EXCEPT ![s] = r]
             /\ UNCHANGED <<at, message, handled>>
          ELSE
             /\ reader' = [reader EXCEPT ![s] = Fresh]
             /\ IF Decodes(r.got)
                THEN /\ message' = [message EXCEPT ![s] = r.got[1].frame]
                     /\ handled' = [handled EXCEPT ![s] = Append(@, r.got)]
                     /\ Goto(s, IF r.got[1].frame.completes = None THEN "respond" ELSE "consume")
                ELSE Goto(s, "end") /\ UNCHANGED <<message, handled>>
    BY DEF Receive
<1>3. r \in Reader /\ r.got = Append(reader[s].got, Head(toHost[s]))
    BY <1>1, TakenAppends
<1> QED
    BY <1>2, <1>3

Put(q, frame, part) == Append(q, [frame |-> frame, part |-> part])

\* The three outcomes of a call that writes: the first piece, with which the mutex
\* is taken, the second, or a failure at either.
LEMMA WriteSteps ==
    ASSUME NEW t \in Threads, NEW s, NEW frame, NEW done, NEW failed,
           WriteFrame(t, s, frame, done, failed)
    PROVE  \/ /\ lock = Nobody /\ lock' = t /\ written' = 1
              /\ toTablet' = [toTablet EXCEPT ![s] = Put(@, frame, 1)]
              /\ UNCHANGED <<at, torn>>
           \/ /\ lock = t /\ written = 1 /\ written' = 2
              /\ Goto(t, done) /\ lock' = (IF done = "record" THEN t ELSE Nobody)
              /\ toTablet' = [toTablet EXCEPT ![s] = Put(@, frame, 2)]
              /\ UNCHANGED torn
           \/ /\ lock \in {t, Nobody} /\ lock' = Nobody /\ written' = 0
              /\ torn' = [torn EXCEPT ![s] = @ \/ lock = t]
              /\ Goto(t, failed)
              /\ UNCHANGED toTablet
<1>1. t # Nobody
    BY NamesAssumption
<1>2. CASE lock = t
    <2>1. written = 1
        BY <1>2 DEF WriteFrame
    <2> QED
        BY <1>1, <1>2, <2>1 DEF WriteFrame, Put, Pieces, Unlocked
<1>3. CASE lock # t
    <2>1. lock = Nobody
        BY <1>3 DEF WriteFrame, Free
    <2> QED
        BY <1>1, <1>3, <2>1 DEF WriteFrame, Put, Pieces, Unlocked
<1> QED
    BY <1>2, <1>3
-----------------------------------------------------------------------------
(***************************************************************************)
(* Init, and the threads, the mutex and the tablet's connection.           *)
(***************************************************************************)

LEMMA ChannelStarts == Init => ChannelInv
<1> SUFFICES ASSUME Init PROVE ChannelInv
    OBVIOUS
<1> USE ChannelAssumption, NamesAssumption DEF Init
<1>1. LoopsRight /\ LockRight /\ ConnectionRight /\ SocketsTyped
    <2>1. LoopsRight
        <3>1. at \in [Threads -> Places] /\ \A t \in Threads : at[t] \in {"over", "unborn"}
            BY DEF Places
        <3>2. at[Other] = "over"
            BY DEF Threads
        <3>3. /\ ending \in [Threads -> 0 .. MaxSessions]
              /\ message \in [Sessions -> Message \cup {None}]
            OBVIOUS
        <3>4. Sessions \subseteq Threads
            BY DEF Threads
        <3>5. \A t \in Threads : at[t] \notin {"goodbye", "close", "respond", "record", "consume"}
            BY <3>1
        <3>6. session \in 0 .. MaxSessions /\ active = FALSE
            <4>1. session = 0 /\ active = FALSE
                BY DEF Init
            <4> HIDE DEF Init
            <4> QED
                BY <4>1
        <3> HIDE DEF Init
        <3> QED
            BY <3>1, <3>2, <3>3, <3>4, <3>5, <3>6 DEF LoopsRight
    <2>2. LockRight
        BY DEF LockRight, Threads
    <2>3. ConnectionRight /\ SocketsTyped
        BY DEF ConnectionRight, SocketsTyped
    <2> QED
        BY <2>1, <2>2, <2>3
<1>2. ~Complete(Fresh) /\ Fresh \in Reader
    BY DEF Complete, Fresh, Reader
<1>3. HostTyped /\ TabletTyped /\ Blank
    <2>1. \A S : <<>> \in Seq(S)
        BY EmptySeq
    <2>2. HostTyped
        BY <1>2, <2>1 DEF HostTyped, Reader, Fresh
    <2>3. TabletTyped
        BY <2>1 DEF TabletTyped
    <2>4. Blank
        BY DEF Blank, Threads, Sessions
    <2> QED
        BY <2>2, <2>3, <2>4
<1>4. HostStream /\ FramesHandledInOrder
    BY DEF HostStream, FramesHandledInOrder
<1>5. TabletStream /\ TabletReadsFrames
    BY DEF TabletStream, TabletReadsFrames, Sessions
<1>6. ExchangesRight /\ SamplesGenuine
    BY DEF ExchangesRight, SamplesGenuine, Threads, Sessions
<1> QED
    BY <1>1, <1>3, <1>4, <1>5, <1>6 DEF ChannelInv

\* The thread that a loop is.
LEMMA LoopsAreThreads ==
    /\ Sessions \subseteq Threads /\ Sessions \subseteq Nat /\ Other \in Threads
    /\ \A s \in Sessions : s # Other
    /\ \A t \in Threads : t # Nobody
BY ChannelAssumption, NamesAssumption DEF Threads, Sessions

LEMMA LoopsKept ==
    ASSUME LoopsRight, HostTyped, [Next]_vars
    PROVE  LoopsRight'
<1> USE ChannelAssumption, LoopsAreThreads DEF LoopsRight, Places, Goto
<1> USE DEF hostVars, tabletVars, streams, history
<1>1. CASE Establish
    <2>1. session + 1 \in Sessions
        BY <1>1 DEF Establish, Sessions
    <2> QED
        BY <1>1, <2>1 DEF Establish
<1>2. CASE OtherEnds \/ Age
    BY <1>2 DEF OtherEnds, Age
<1>3. CASE Tablet
    BY <1>3 DEF Tablet, TabletSends, RestArrives, TabletDiscards, TabletReads, TabletDrops
<1>4. ASSUME NEW s \in Sessions, ControlLoop(s) PROVE LoopsRight'
    <2>1. CASE Join(s) \/ Top(s) \/ ReceiveTimesOut(s)
        BY <2>1 DEF Join, Top, ReceiveTimesOut
    <2>2. CASE ReceiveClosed(s) \/ RecordPendingClockSync(s) \/ ConsumeClockSyncComplete(s)
        <3>1. UNCHANGED <<session, active, ending, message>> /\ (Goto(s, "end") \/ Goto(s, "top"))
            BY <2>2 DEF ReceiveClosed, OnceClosed, RecordPendingClockSync, ConsumeClockSyncComplete
        <3> QED
            BY <3>1
    <2>3. CASE Receive(s)
        <3>1. UNCHANGED <<session, active, ending>>
            BY <2>3 DEF Receive
        <3>2. \A r \in Reader : Decodes(r.got) => r.got[1].frame \in Message
            BY DecodedPieces DEF Reader
        <3>3. PICK r \in Reader :
                 \/ /\ Decodes(r.got) /\ message' = [message EXCEPT ![s] = r.got[1].frame]
                    /\ \E place \in {"respond", "consume"} : Goto(s, place)
                 \/ UNCHANGED <<at, message>>
                 \/ Goto(s, "end") /\ UNCHANGED message
            BY <2>3, ReceiveSteps
        <3>4. CASE Decodes(r.got) /\ message' = [message EXCEPT ![s] = r.got[1].frame]
                   /\ \E place \in {"respond", "consume"} : Goto(s, place)
            <4>1. PICK place \in {"respond", "consume"} : Goto(s, place)
                BY <3>4
            <4>2. r.got[1].frame \in Message
                BY <3>2, <3>4
            <4> QED
                BY <3>1, <3>4, <4>1, <4>2
        <3>5. CASE UNCHANGED <<at, message>>
            BY <3>1, <3>5
        <3>6. CASE Goto(s, "end") /\ UNCHANGED message
            BY <3>1, <3>6
        <3> QED
            BY <3>3, <3>4, <3>5, <3>6
    <2>4. CASE Respond(s)
        <3>1. UNCHANGED <<session, active, ending, message>>
            BY <2>4 DEF Respond, WriteFrame
        <3>2. UNCHANGED at \/ Goto(s, "record") \/ Goto(s, "end")
            BY <2>4, WriteSteps DEF Respond
        <3> QED
            BY <2>4, <3>1, <3>2 DEF Respond
    <2> QED
        BY <1>4, <2>1, <2>2, <2>3, <2>4 DEF ControlLoop
<1>5. ASSUME NEW t \in Threads, EndSession(t) PROVE LoopsRight'
    <2>1. CASE ClearPendingClockSync(t) \/ EndClose(t)
        BY <2>1 DEF ClearPendingClockSync, EndClose
    <2>2. CASE EndClaim(t)
        <3>1. /\ at' = [at EXCEPT ![t] = IF active THEN "goodbye" ELSE "over"]
              /\ ending' = [ending EXCEPT ![t] = session] /\ active' = FALSE
              /\ UNCHANGED <<session, message>>
            BY <2>2 DEF EndClaim
        <3>2. active => session \in 1 .. session
            OBVIOUS
        <3>3. \A u \in Threads : at'[u] \in {"goodbye", "close"} => ending'[u] \in 1 .. session
            BY <3>1, <3>2
        <3> QED
            BY <3>1, <3>3
    <2>3. CASE WriteDisconnect(t)
        <3>1. UNCHANGED <<session, active, ending, message>>
            BY <2>3 DEF WriteDisconnect, WriteFrame
        <3>2. UNCHANGED at \/ Goto(t, "close")
            BY <2>3, WriteSteps DEF WriteDisconnect
        <3> QED
            BY <2>3, <3>1, <3>2 DEF WriteDisconnect
    <2> QED
        BY <1>5, <2>1, <2>2, <2>3 DEF EndSession
<1>6. CASE UNCHANGED vars
    BY <1>6 DEF vars
<1> QED
    BY <1>1, <1>2, <1>3, <1>4, <1>5, <1>6 DEF Next

LEMMA LockKept ==
    ASSUME LoopsRight, LockRight, Blank, [Next]_vars
    PROVE  LockRight'
<1> USE ChannelAssumption, LoopsAreThreads DEF LoopsRight, LockRight, Places, Goto
<1> USE DEF hostVars, tabletVars, streams, history
<1>1. CASE Establish
    <2>1. session + 1 \in Sessions
        BY <1>1 DEF Establish, Sessions
    <2>2. at[session + 1] = "unborn"
        BY <2>1 DEF Blank
    <2> QED
        BY <1>1, <2>1, <2>2 DEF Establish
<1>2. CASE OtherEnds \/ Age \/ Tablet \/ UNCHANGED vars
    BY <1>2 DEF OtherEnds, Age, Tablet, TabletSends, RestArrives, TabletDiscards, TabletReads, TabletDrops, vars
<1>3. ASSUME NEW s \in Sessions, ControlLoop(s) PROVE LockRight'
    <2>1. CASE Join(s) \/ Top(s) \/ ReceiveTimesOut(s) \/ ReceiveClosed(s) \/ ConsumeClockSyncComplete(s)
        BY <2>1 DEF Join, Top, ReceiveTimesOut, ReceiveClosed, OnceClosed, ConsumeClockSyncComplete
    <2>2. CASE Receive(s)
        BY <2>2 DEF Receive
    <2>3. CASE Respond(s)
        BY <2>3, WriteSteps DEF Respond
    <2>4. CASE RecordPendingClockSync(s)
        BY <2>4 DEF RecordPendingClockSync
    <2> QED
        BY <1>3, <2>1, <2>2, <2>3, <2>4 DEF ControlLoop
<1>4. ASSUME NEW t \in Threads, EndSession(t) PROVE LockRight'
    <2>1. CASE ClearPendingClockSync(t) \/ EndClose(t) \/ EndClaim(t)
        BY <2>1 DEF ClearPendingClockSync, EndClose, EndClaim
    <2>2. CASE WriteDisconnect(t)
        BY <2>2, WriteSteps DEF WriteDisconnect
    <2> QED
        BY <1>4, <2>1, <2>2 DEF EndSession
<1> QED
    BY <1>1, <1>2, <1>3, <1>4 DEF Next

LEMMA ConnectionKept ==
    ASSUME LoopsRight, ConnectionRight, TabletTyped, [Next]_vars
    PROVE  ConnectionRight'
<1> USE ChannelAssumption DEF LoopsRight, ConnectionRight, Goto
<1> USE DEF hostVars, tabletVars, streams, history
<1>1. CASE Establish
    BY <1>1 DEF Establish
<1>2. CASE TabletSends
    <2>1. PICK completes \in {None, answering} :
             half' = [session |-> conn, n |-> sent + 1, completes |-> completes]
        BY <1>2 DEF TabletSends
    <2>2. conn \in Sessions /\ sent + 1 \in 1 .. MaxFrames
        BY <1>2 DEF TabletSends, Sessions
    <2>3. half' \in Message
        BY <2>1, <2>2 DEF Message
    <2>4. half'.session = conn /\ half'.n = sent + 1
        BY <2>1
    <2> QED
        BY <1>2, <2>3, <2>4, <2>2 DEF TabletSends
<1>3. CASE TabletReads
    <2>1. answering' \in Exchange \cup {None, Garbled}
        <3> DEFINE two == SubSeq(toTablet[conn], 1, 2)
        <3>1. conn \in Sessions
            BY <1>3 DEF TabletReads, Sessions
        <3>2. toTablet[conn] \in Seq(AnswerPiece) /\ Len(toTablet[conn]) > 1
            BY <1>3, <3>1 DEF TabletReads, TabletTyped
        <3>3. two[1] \in AnswerPiece
            BY <3>2, SubSeqProperties, ElementOfSeq, LenProperties
        <3>4. two[1].frame \in Exchange \cup {Goodbye}
            BY <3>3 DEF AnswerPiece
        <3> QED
            BY <1>3, <3>4 DEF TabletReads
    <2> QED
        BY <1>3, <2>1 DEF TabletReads
<1>4. CASE RestArrives \/ TabletDiscards \/ TabletDrops
    BY <1>4 DEF RestArrives, TabletDiscards, TabletDrops
<1>5. CASE OtherEnds \/ Age \/ UNCHANGED vars
    BY <1>5 DEF OtherEnds, Age, vars
<1>6. ASSUME NEW s \in Sessions, ControlLoop(s) PROVE ConnectionRight'
    BY <1>6 DEF ControlLoop, Join, Top, Receive, ReceiveTimesOut, ReceiveClosed, Respond, WriteFrame,
                RecordPendingClockSync, ConsumeClockSyncComplete
<1>7. ASSUME NEW t \in Threads, EndSession(t) PROVE ConnectionRight'
    BY <1>7 DEF EndSession, ClearPendingClockSync, EndClaim, WriteDisconnect, WriteFrame, EndClose
<1> QED
    BY <1>1, <1>2, <1>3, <1>4, <1>5, <1>6, <1>7 DEF Next, Tablet
-----------------------------------------------------------------------------
(***************************************************************************)
(* The ranges of the streams, and the sessions that are still to come.     *)
(***************************************************************************)

LEMMA SocketsKept ==
    ASSUME SocketsTyped, [Next]_vars
    PROVE  SocketsTyped'
<1> USE DEF SocketsTyped, hostVars, tabletVars, streams, history
<1>1. CASE Establish \/ OtherEnds \/ Age \/ UNCHANGED vars
    BY <1>1 DEF Establish, OtherEnds, Age, vars
<1>2. CASE Tablet
    BY <1>2 DEF Tablet, TabletSends, RestArrives, TabletDiscards, TabletReads, TabletDrops
<1>3. ASSUME NEW t, NEW s, NEW frame, NEW done, NEW failed, WriteFrame(t, s, frame, done, failed)
      PROVE  SocketsTyped'
    <2>1. UNCHANGED <<open, hung, stalled>>
        BY <1>3 DEF WriteFrame
    <2>2. torn' = torn \/ \E late \in BOOLEAN : torn' = [torn EXCEPT ![s] = @ \/ late]
        BY <1>3 DEF WriteFrame
    <2> QED
        BY <2>1, <2>2
<1>4. ASSUME NEW s \in Sessions, ControlLoop(s) PROVE SocketsTyped'
    <2>1. CASE ReceiveTimesOut(s)
        <3>1. PICK late \in BOOLEAN : stalled' = [stalled EXCEPT ![s] = @ \/ late]
            BY <2>1 DEF ReceiveTimesOut, MidFrame
        <3> QED
            BY <2>1, <3>1 DEF ReceiveTimesOut
    <2>2. CASE Respond(s)
        BY <2>2, <1>3 DEF Respond
    <2> QED
        BY <1>4, <2>1, <2>2 DEF ControlLoop, Join, Top, Receive, ReceiveClosed, RecordPendingClockSync, ConsumeClockSyncComplete
<1>5. ASSUME NEW t \in Threads, EndSession(t) PROVE SocketsTyped'
    <2>1. CASE WriteDisconnect(t)
        BY <2>1, <1>3 DEF WriteDisconnect
    <2> QED
        BY <1>5, <2>1 DEF EndSession, ClearPendingClockSync, EndClaim, EndClose
<1> QED
    BY <1>1, <1>2, <1>4, <1>5 DEF Next

\* Steps that leave the host's end of the streams alone.
LEMMA HostUntouched ==
    ASSUME HostTyped, UNCHANGED <<toHost, reader, handled>>
    PROVE  HostTyped'
BY DEF HostTyped, Complete

\* A piece that the tablet sends.
LEMMA SentTyped ==
    ASSUME HostTyped, ConnectionRight, LoopsRight, NEW frame \in Message, frame.session = conn,
           NEW part \in {1, 2}, UNCHANGED <<reader, handled>>,
           toHost' = [toHost EXCEPT ![conn] = Append(@, [frame |-> frame, part |-> part])]
    PROVE  HostTyped' /\ conn \in Sessions
<1>1. conn \in Sessions
    BY DEF Message
<1> DEFINE piece == [frame |-> frame, part |-> part]
<1>2. piece \in PieceOf(conn) /\ piece \in Piece
    BY DEF PieceOf, Piece
<1> HIDE DEF piece
<1>3. Append(toHost[conn], piece) \in Seq(PieceOf(conn)) /\ Append(toHost[conn], piece) \in Seq(Piece)
    BY <1>1, <1>2, AppendProperties DEF HostTyped
<1>4. toHost' = [toHost EXCEPT ![conn] = Append(toHost[conn], piece)]
    BY DEF piece
<1> QED
    BY <1>1, <1>3, <1>4 DEF HostTyped, Complete

LEMMA FreshIsTyped == Fresh \in Reader /\ ~Complete(Fresh) /\ \A S : Fresh.got \in Seq(S) /\ Len(Fresh.got) = 0
BY EmptySeq DEF Fresh, Reader, Complete

\* A piece that the host reads.
LEMMA ReceivedTyped ==
    ASSUME HostTyped, NEW s \in Sessions, Receive(s)
    PROVE  HostTyped'
<1>1. PICK r \in Reader :
         /\ r.got = Append(reader[s].got, Head(toHost[s]))
         /\ \/ /\ ~Complete(r) /\ reader' = [reader EXCEPT ![s] = r]
               /\ UNCHANGED handled
            \/ /\ reader' = [reader EXCEPT ![s] = Fresh]
               /\ handled' = [handled EXCEPT ![s] = Append(@, r.got)]
            \/ /\ reader' = [reader EXCEPT ![s] = Fresh]
               /\ UNCHANGED handled
    BY ReceiveSteps
<1>2. toHost[s] # <<>> /\ toHost' = [toHost EXCEPT ![s] = Tail(@)]
    BY DEF Receive
<1>3. /\ Tail(toHost[s]) \in Seq(PieceOf(s)) /\ Tail(toHost[s]) \in Seq(Piece)
      /\ Head(toHost[s]) \in PieceOf(s)
    BY <1>2, HeadTailProperties DEF HostTyped
<1>4. r.got \in Seq(PieceOf(s)) /\ r.got \in Seq(Piece)
    BY <1>1, <1>3, AppendProperties DEF HostTyped, Reader
<1>5. /\ toHost' \in [Sessions -> Seq(Piece)]
      /\ \A u \in Sessions : toHost'[u] \in Seq(PieceOf(u))
    BY <1>2, <1>3 DEF HostTyped
<1>6. /\ reader' \in [Sessions -> Reader]
      /\ \A u \in Sessions : reader'[u].got \in Seq(PieceOf(u)) /\ ~Complete(reader'[u])
    <2>1. CASE ~Complete(r) /\ reader' = [reader EXCEPT ![s] = r]
        BY <2>1, <1>4 DEF HostTyped, Reader
    <2>2. CASE reader' = [reader EXCEPT ![s] = Fresh]
        BY <2>2, FreshIsTyped DEF HostTyped, Reader
    <2> QED
        BY <1>1, <2>1, <2>2
<1>7. handled' \in [Sessions -> Seq(Seq(Piece))]
    <2>1. Append(handled[s], r.got) \in Seq(Seq(Piece))
        BY <1>4, AppendProperties DEF HostTyped
    <2> QED
        BY <1>1, <2>1 DEF HostTyped
<1> QED
    BY <1>5, <1>6, <1>7 DEF HostTyped, Complete, Reader

LEMMA HostKept ==
    ASSUME LoopsRight, ConnectionRight, HostTyped, [Next]_vars
    PROVE  HostTyped'
<1> USE DEF hostVars, tabletVars, streams, history
<1>1. CASE Establish \/ OtherEnds \/ Age \/ TabletDiscards \/ TabletReads \/ TabletDrops \/ UNCHANGED vars
    BY <1>1, HostUntouched DEF Establish, OtherEnds, Age, TabletDiscards, TabletReads, TabletDrops, vars
<1>2. CASE TabletSends
    <2>2. PICK completes \in {None, answering} :
             half' = [session |-> conn, n |-> sent + 1, completes |-> completes]
        BY <1>2 DEF TabletSends
    <2>3. conn \in Sessions /\ sent + 1 \in 1 .. MaxFrames
        BY <1>2, ChannelAssumption DEF TabletSends, Sessions, ConnectionRight, LoopsRight
    <2>4. half' \in Message /\ half'.session = conn
        BY <2>2, <2>3 DEF Message, ConnectionRight
    <2>5. toHost' = [toHost EXCEPT ![conn] = Append(@, [frame |-> half', part |-> 1])]
        BY <1>2 DEF TabletSends, Pieces
    <2> QED
        BY <1>2, <2>4, <2>5, SentTyped DEF TabletSends
<1>3. CASE RestArrives
    <2>1. half \in Message /\ half.session = conn
        BY <1>3 DEF RestArrives, ConnectionRight
    <2>2. toHost' = [toHost EXCEPT ![conn] = Append(@, [frame |-> half, part |-> 2])]
        BY <1>3 DEF RestArrives, Pieces
    <2> QED
        BY <1>3, <2>1, <2>2, SentTyped DEF RestArrives
<1>4. ASSUME NEW s \in Sessions, ControlLoop(s) PROVE HostTyped'
    <2>1. CASE Receive(s)
        BY <2>1, ReceivedTyped
    <2>2. CASE ReceiveTimesOut(s) \/ ReceiveClosed(s)
        <3>1. reader' = [reader EXCEPT ![s] = Fresh] /\ UNCHANGED <<toHost, handled>>
            BY <2>2 DEF ReceiveTimesOut, ReceiveClosed, TimedOut
        <3> QED
            BY <3>1, FreshIsTyped DEF HostTyped, Reader, Complete
    <2>3. CASE Join(s) \/ Top(s) \/ Respond(s) \/ RecordPendingClockSync(s) \/ ConsumeClockSyncComplete(s)
        BY <2>3, HostUntouched DEF Join, Top, Respond, WriteFrame, RecordPendingClockSync, ConsumeClockSyncComplete
    <2> QED
        BY <1>4, <2>1, <2>2, <2>3 DEF ControlLoop
<1>5. ASSUME NEW t \in Threads, EndSession(t) PROVE HostTyped'
    <2>1. CASE EndClose(t)
        <3>1. toHost' = [toHost EXCEPT ![ending[t]] = <<>>] /\ UNCHANGED <<reader, handled>>
            BY <2>1 DEF EndClose
        <3>2. \A S : <<>> \in Seq(S)
            BY EmptySeq
        <3> QED
            BY <3>1, <3>2 DEF HostTyped, Complete
    <2>2. CASE ClearPendingClockSync(t) \/ EndClaim(t) \/ WriteDisconnect(t)
        BY <2>2, HostUntouched DEF ClearPendingClockSync, EndClaim, WriteDisconnect, WriteFrame
    <2> QED
        BY <1>5, <2>1, <2>2 DEF EndSession
<1> QED
    BY <1>1, <1>2, <1>3, <1>4, <1>5 DEF Next, Tablet

\* The target of a thread that writes, and its frame.
LEMMA TargetsRight ==
    ASSUME LoopsRight
    PROVE  /\ \A s \in Sessions : at[s] = "respond" => [session |-> s, n |-> message[s].n] \in Exchange
           /\ \A t \in Threads : at[t] \in {"goodbye", "close"} => ending[t] \in Sessions
BY ChannelAssumption DEF LoopsRight, Sessions, Message, Exchange

LEMMA PutTyped ==
    ASSUME TabletTyped, NEW t \in Threads, NEW s \in Sessions, NEW frame \in Exchange \cup {Goodbye},
           NEW done, NEW failed, WriteFrame(t, s, frame, done, failed)
    PROVE  TabletTyped'
<1>1. ASSUME NEW part \in {1, 2} PROVE Put(toTablet[s], frame, part) \in Seq(AnswerPiece)
    <2>1. [frame |-> frame, part |-> part] \in AnswerPiece
        BY DEF AnswerPiece
    <2> QED
        BY <2>1, AppendProperties DEF Put, TabletTyped
<1>2. \/ UNCHANGED toTablet
      \/ \E part \in {1, 2} : toTablet' = [toTablet EXCEPT ![s] = Put(toTablet[s], frame, part)]
    BY WriteSteps
<1> QED
    BY <1>1, <1>2 DEF TabletTyped

LEMMA TabletKept ==
    ASSUME LoopsRight, ConnectionRight, TabletTyped, [Next]_vars
    PROVE  TabletTyped'
<1> USE DEF hostVars, tabletVars, streams, history
<1>1. CASE Establish \/ OtherEnds \/ Age \/ TabletSends \/ RestArrives \/ TabletDiscards \/ UNCHANGED vars
    BY <1>1 DEF Establish, OtherEnds, Age, TabletSends, RestArrives, TabletDiscards, vars, TabletTyped
<1>2. CASE TabletReads
    <2>1. conn \in Sessions
        BY <1>2, ChannelAssumption DEF TabletReads, ConnectionRight, LoopsRight, Sessions
    <2>2. toTablet[conn] \in Seq(AnswerPiece)
        BY <2>1 DEF TabletTyped
    <2>3. SubSeq(toTablet[conn], 3, Len(toTablet[conn])) \in Seq(AnswerPiece)
        BY <2>2, SubSeqProperties, ElementOfSeq, LenProperties
    <2> QED
        BY <1>2, <2>3 DEF TabletReads, TabletTyped
<1>3. CASE TabletDrops
    <2>1. toTablet' = [toTablet EXCEPT ![conn] = <<>>] /\ <<>> \in Seq(AnswerPiece)
        BY <1>3, EmptySeq DEF TabletDrops
    <2> QED
        BY <2>1 DEF TabletTyped
<1>4. ASSUME NEW s \in Sessions, ControlLoop(s) PROVE TabletTyped'
    <2>1. CASE Respond(s)
        BY <2>1, TargetsRight, PutTyped, LoopsAreThreads DEF Respond
    <2> QED
        BY <1>4, <2>1 DEF ControlLoop, Join, Top, Receive, ReceiveTimesOut, ReceiveClosed,
                          RecordPendingClockSync, ConsumeClockSyncComplete, TabletTyped
<1>5. ASSUME NEW t \in Threads, EndSession(t) PROVE TabletTyped'
    <2>1. CASE WriteDisconnect(t)
        BY <2>1, TargetsRight, PutTyped DEF WriteDisconnect
    <2> QED
        BY <1>5, <2>1 DEF EndSession, ClearPendingClockSync, EndClaim, EndClose, TabletTyped
<1> QED
    BY <1>1, <1>2, <1>3, <1>4, <1>5 DEF Next, Tablet

\* What a session that is still to come may not lose.
Untouched(s) ==
    /\ at'[s] = at[s] /\ open'[s] = open[s] /\ reader'[s] = reader[s]
    /\ toHost'[s] = toHost[s] /\ handled'[s] = handled[s] /\ toTablet'[s] = toTablet[s]

LEMMA SessionsBegin == [Next]_vars => Establish \/ UNCHANGED session
<1> SUFFICES ASSUME [Next]_vars PROVE Establish \/ UNCHANGED session
    OBVIOUS
<1> USE DEF hostVars
<1>1. CASE OtherEnds \/ Age \/ UNCHANGED vars
    BY <1>1 DEF OtherEnds, Age, vars
<1>2. CASE Tablet
    BY <1>2 DEF Tablet, TabletSends, RestArrives, TabletDiscards, TabletReads, TabletDrops
<1>3. ASSUME NEW s \in Sessions, ControlLoop(s) PROVE UNCHANGED session
    BY <1>3 DEF ControlLoop, Join, Top, Receive, ReceiveTimesOut, ReceiveClosed, Respond, WriteFrame,
                RecordPendingClockSync, ConsumeClockSyncComplete
<1>4. ASSUME NEW t \in Threads, EndSession(t) PROVE UNCHANGED session
    BY <1>4 DEF EndSession, ClearPendingClockSync, EndClaim, WriteDisconnect, WriteFrame, EndClose
<1> QED
    BY <1>1, <1>2, <1>3, <1>4 DEF Next

LEMMA BlankKept ==
    ASSUME LoopsRight, ConnectionRight, SocketsTyped, HostTyped, TabletTyped, Blank, [Next]_vars
    PROVE  Blank'
<1> SUFFICES ASSUME NEW s \in Sessions, s > session' PROVE s > session /\ Untouched(s)
    BY DEF Blank, Untouched
<1>1. s \in Threads /\ s # Other /\ s \in Nat /\ session \in Nat /\ conn \in {0, session} /\ session' \in Nat
    BY LoopsAreThreads, LoopsKept, ChannelAssumption DEF ConnectionRight, LoopsRight
<1>2. session' >= session
    <2>1. CASE Establish
        BY <1>1, <2>1 DEF Establish
    <2>2. CASE ~Establish
        BY <1>1, <2>2, SessionsBegin
    <2> QED
        BY <2>1, <2>2
<1>3. s > session /\ at[s] = "unborn" /\ s # conn
    BY <1>1, <1>2 DEF Blank, Sessions
<1> USE <1>1, <1>3 DEF hostVars, tabletVars, streams, history, Goto, Untouched
<1>4. CASE Establish
    BY <1>4 DEF Establish, LoopsRight, SocketsTyped
<1>5. CASE OtherEnds \/ Age \/ UNCHANGED vars
    BY <1>5 DEF OtherEnds, Age, vars, LoopsRight
<1>6. CASE Tablet
    BY <1>6 DEF Tablet, TabletSends, RestArrives, TabletDiscards, TabletReads, TabletDrops, HostTyped, TabletTyped
<1>7. ASSUME NEW t \in Threads, NEW u \in Sessions, u # s, t # s, NEW frame, NEW done, NEW failed,
             WriteFrame(t, u, frame, done, failed)
      PROVE  Untouched(s)
    <2>1. UNCHANGED <<open, reader, toHost, handled>>
        BY <1>7 DEF WriteFrame
    <2>2. at'[s] = at[s] /\ toTablet'[s] = toTablet[s]
        BY <1>7, WriteSteps DEF LoopsRight, TabletTyped
    <2> QED
        BY <2>1, <2>2
<1>8. ASSUME NEW u \in Sessions, ControlLoop(u) PROVE Untouched(s)
    <2>1. u # s /\ u \in Threads
        BY <1>8, LoopsAreThreads DEF ControlLoop, Join, Top, Receive, ReceiveTimesOut, ReceiveClosed, Respond,
                RecordPendingClockSync, ConsumeClockSyncComplete
    <2>2. CASE Join(u) \/ Top(u) \/ RecordPendingClockSync(u) \/ ConsumeClockSyncComplete(u)
        BY <2>1, <2>2 DEF Join, Top, RecordPendingClockSync, ConsumeClockSyncComplete, LoopsRight
    <2>3. CASE ReceiveTimesOut(u) \/ ReceiveClosed(u)
        BY <2>1, <2>3 DEF ReceiveTimesOut, ReceiveClosed, LoopsRight, HostTyped
    <2>4. CASE Receive(u)
        <3>1. UNCHANGED <<open, toTablet>> /\ toHost'[s] = toHost[s]
            BY <2>1, <2>4 DEF Receive, HostTyped
        <3>2. PICK r \in Reader :
                  /\ at' = at \/ \E place \in Places : Goto(u, place)
                  /\ \E q \in Reader : reader' = [reader EXCEPT ![u] = q]
                  /\ handled' = handled \/ handled' = [handled EXCEPT ![u] = Append(@, r.got)]
            BY <2>1, <2>4, ReceiveSteps, FreshIsTyped DEF Places
        <3>3. at'[s] = at[s]
            BY <2>1, <3>2 DEF LoopsRight
        <3>4. reader'[s] = reader[s] /\ handled'[s] = handled[s]
            BY <2>1, <3>2 DEF HostTyped
        <3> QED
            BY <3>1, <3>3, <3>4
    <2>5. CASE Respond(u)
        BY <2>1, <2>5, <1>7 DEF Respond
    <2> QED
        BY <1>8, <2>2, <2>3, <2>4, <2>5 DEF ControlLoop
<1>9. ASSUME NEW t \in Threads, EndSession(t) PROVE Untouched(s)
    <2>1. t # s
        BY <1>9 DEF EndSession, ClearPendingClockSync, EndClaim, WriteDisconnect, EndClose
    <2>2. at[t] \in {"goodbye", "close"} => ending[t] \in Sessions /\ ending[t] # s
        BY TargetsRight DEF LoopsRight
    <2>3. CASE ClearPendingClockSync(t) \/ EndClaim(t)
        BY <2>1, <2>3 DEF ClearPendingClockSync, EndClaim, LoopsRight
    <2>4. CASE WriteDisconnect(t)
        BY <2>1, <2>2, <2>4, <1>7 DEF WriteDisconnect
    <2>5. CASE EndClose(t)
        BY <2>1, <2>2, <2>5 DEF EndClose, LoopsRight, SocketsTyped, HostTyped
    <2> QED
        BY <1>9, <2>3, <2>4, <2>5 DEF EndSession
<1> QED
    BY <1>4, <1>5, <1>6, <1>8, <1>9 DEF Next
-----------------------------------------------------------------------------
(***************************************************************************)
(* The stream to the host.                                                 *)
(***************************************************************************)

LEMMA HostLengths ==
    ASSUME HostTyped, NEW s \in Sessions
    PROVE  /\ Len(toHost[s]) \in Nat /\ DOMAIN toHost[s] = 1 .. Len(toHost[s])
           /\ Len(reader[s].got) \in Nat /\ DOMAIN reader[s].got = 1 .. Len(reader[s].got)
           /\ Len(handled[s]) \in Nat /\ DOMAIN handled[s] = 1 .. Len(handled[s])
BY LenProperties DEF HostTyped

LEMMA KeysAreNumbers == \A piece \in Piece : Key(piece) \in Nat
BY ChannelAssumption DEF Piece, Message, Key

\* What was handed on is frames.
LEMMA HandledNumbers ==
    ASSUME HostTyped, FramesHandledInOrder, NEW s \in Sessions, NEW i \in DOMAIN handled[s]
    PROVE  handled[s][i][1].frame.n \in Nat
<1>1. handled[s][i] \in Seq(Piece)
    BY ElementOfSeq, LenProperties DEF HostTyped
<1>2. handled[s][i] = Pieces(handled[s][i][1].frame)
    BY DEF FramesHandledInOrder
<1>3. Len(handled[s][i]) = 2
    BY <1>2 DEF Pieces
<1>4. handled[s][i][1] \in Piece
    BY <1>1, <1>3, ElementOfSeq
<1> QED
    BY <1>4, ChannelAssumption DEF Piece, Message

\* A session that a step leaves as it is.
LEMMA StaysDealtWith ==
    ASSUME NEW s, NEW b, DealtWith(s, b),
           reader'[s].got = reader[s].got, toHost'[s] = toHost[s], handled'[s] = handled[s],
           stalled'[s] = stalled[s], at'[s] \in Looping => at[s] \in Looping,
           conn' = s => conn = s /\ NextKey' = NextKey
    PROVE  DealtWith(s, b)'
BY DEF DealtWith

LEMMA QuietSteps ==
    ASSUME HostStream, UNCHANGED <<open, reader, toHost, handled, conn, sent, half, stalled>>,
           \A s \in Sessions : at'[s] \in Looping => at[s] \in Looping
    PROVE  HostStream'
<1>1. NextKey' = NextKey
    BY DEF NextKey
<1> QED
    BY <1>1, StaysDealtWith DEF HostStream

\* The tablet sends the piece that is next.
LEMMA SentInOrder ==
    ASSUME HostStream, HostTyped, conn \in Sessions, NEW piece \in Piece,
           Key(piece) = NextKey, NextKey' = NextKey + 1,
           toHost' = [toHost EXCEPT ![conn] = Append(@, piece)],
           UNCHANGED <<at, open, reader, handled, conn, stalled>>
    PROVE  HostStream'
<1> SUFFICES ASSUME NEW s \in Sessions, open'[s] PROVE \E b \in Nat : DealtWith(s, b)'
    BY DEF HostStream
<1>1. PICK b \in Nat : DealtWith(s, b)
    BY DEF HostStream
<1>2. CASE s # conn
    BY <1>1, <1>2, StaysDealtWith DEF HostTyped
<1>3. CASE s = conn
    <2> DEFINE g == Len(reader[s].got)
               h == Len(toHost[s])
    <2>1. h \in Nat /\ DOMAIN toHost[s] = 1 .. h /\ g \in Nat
        BY HostLengths
    <2>2. toHost'[s] = Append(toHost[s], piece)
        BY <1>3 DEF HostTyped
    <2>3. /\ DOMAIN toHost'[s] = 1 .. h + 1 /\ Len(toHost'[s]) = h + 1
          /\ \A i \in 1 .. h : toHost'[s][i] = toHost[s][i]
          /\ toHost'[s][h + 1] = piece
        BY <2>2, AppendProperties, LenProperties DEF HostTyped
    <2>4. /\ b + g + h + 1 = Key(piece)
          /\ \A i \in 1 .. h : Key(toHost[s][i]) = b + g + i
        BY <1>1, <1>3, <2>1 DEF DealtWith
    <2> HIDE DEF g, h
    <2>5. \A i \in 1 .. h + 1 : Key(toHost'[s][i]) = b + g + i
        <3> TAKE i \in 1 .. h + 1
        <3>1. CASE i \in 1 .. h
            BY <3>1, <2>3, <2>4
        <3>2. CASE i = h + 1
            <4>1. b + g + i = b + g + h + 1
                BY <3>2, <2>1
            <4> QED
                BY <4>1, <3>2, <2>3, <2>4
        <3> QED
            BY <3>1, <3>2, <2>1
    <2>6. b + g + (h + 1) + 1 = NextKey'
        BY <2>1, <2>4
    <2>7. DealtWith(s, b)'
        BY <1>1, <2>3, <2>5, <2>6 DEF DealtWith, g, h
    <2> QED
        BY <2>7
<1> QED
    BY <1>2, <1>3

\* The reader loses what it has read: that much is dealt with, but not handed on.
LEMMA LostInOrder ==
    ASSUME HostStream, HostTyped, FramesHandledInOrder, NEW s \in Sessions, NEW place,
           reader' = [reader EXCEPT ![s] = Fresh], Goto(s, place), at \in [Threads -> Places],
           SocketsTyped, UNCHANGED <<open, toHost, handled, conn, sent, half>>,
           \A u \in Sessions \ {s} : stalled'[u] = stalled[u],
           ~stalled'[s] /\ place \in Looping => ~stalled[s] /\ at[s] \in Looping /\ reader[s].got = <<>>
    PROVE  HostStream'
<1> SUFFICES ASSUME NEW u \in Sessions, open'[u] PROVE \E b \in Nat : DealtWith(u, b)'
    BY DEF HostStream
<1>1. PICK b \in Nat : DealtWith(u, b)
    BY DEF HostStream
<1>2. NextKey' = NextKey
    BY DEF NextKey
<1>3. CASE u # s
    <2>1. reader'[u] = reader[u] /\ at'[u] = at[u]
        BY <1>3, LoopsAreThreads DEF HostTyped, Goto
    <2> QED
        BY <1>1, <1>2, <1>3, <2>1, StaysDealtWith
<1>4. CASE u = s
    <2> DEFINE n == Len(reader[u].got)
    <2>1. /\ n \in Nat /\ Len(toHost[u]) \in Nat /\ DOMAIN toHost[u] = 1 .. Len(toHost[u])
          /\ Len(handled[u]) \in Nat
        BY HostLengths
    <2>2. PICK c \in Nat : c = b + n
        BY <2>1
    <2>3. reader'[u].got = <<>> /\ Len(reader'[u].got) = 0 /\ DOMAIN reader'[u].got = {}
        BY <1>4 DEF HostTyped, Fresh
    <2>4. at'[u] = place /\ (reader[u].got = <<>> => n = 0)
        BY <1>4, LoopsAreThreads, EmptySeq DEF Goto
    <2> HIDE DEF n
    <2>5. /\ \A i \in DOMAIN toHost[u] : Key(toHost[u][i]) = c + i
          /\ conn = u => c + Len(toHost[u]) + 1 = NextKey
          /\ ~stalled[u] /\ at[u] \in Looping => b = 2 * Len(handled[u]) + 2
        BY <1>1, <2>2 DEF DealtWith, n
    <2>6. \A i \in DOMAIN handled[u] : 2 * handled[u][i][1].frame.n + 2 <= c
        <3> TAKE i \in DOMAIN handled[u]
        <3> DEFINE k == 2 * handled[u][i][1].frame.n + 2
        <3>1. k <= b
            BY <1>1 DEF DealtWith
        <3>2. k \in Int
            BY HandledNumbers
        <3> HIDE DEF k
        <3>3. k <= c
            BY <3>1, <3>2, <2>1, <2>2
        <3> QED
            BY <3>3 DEF k
    <2>7. ~stalled'[u] /\ at'[u] \in Looping => c = 2 * Len(handled[u]) + 2
        BY <1>4, <2>1, <2>2, <2>4, <2>5
    <2>8. \A i \in DOMAIN toHost[u] : Key(toHost[u][i]) = c + 0 + i
        BY <2>1, <2>5
    <2>9. conn = u => c + 0 + Len(toHost[u]) + 1 = NextKey
        BY <2>1, <2>5
    <2>10. DealtWith(u, c)'
        BY <1>2, <2>3, <2>6, <2>7, <2>8, <2>9 DEF DealtWith
    <2> QED
        BY <2>10
<1> QED
    BY <1>3, <1>4

\* What a piece does to the reader's place in the stream.
LEMMA TakenInOrder ==
    ASSUME HostTyped, NEW s \in Sessions, toHost[s] # <<>>, NEW b \in Nat, DealtWith(s, b),
           NEW r \in Reader, r.got = Append(reader[s].got, Head(toHost[s]))
    PROVE  /\ Len(r.got) \in Nat /\ DOMAIN r.got = 1 .. Len(r.got)
           /\ \A i \in DOMAIN r.got : Key(r.got[i]) = b + i
           /\ \A i \in DOMAIN Tail(toHost[s]) : Key(Tail(toHost[s])[i]) = b + Len(r.got) + i
           /\ conn = s => b + Len(r.got) + Len(Tail(toHost[s])) + 1 = NextKey
<1> DEFINE g == Len(reader[s].got)
           h == Len(toHost[s])
<1>1. g \in Nat /\ h \in Nat /\ DOMAIN toHost[s] = 1 .. h /\ DOMAIN reader[s].got = 1 .. g
    BY HostLengths
<1>2. /\ toHost[s][1] = Head(toHost[s]) /\ Head(toHost[s]) \in Piece /\ h >= 1
      /\ Len(Tail(toHost[s])) = h - 1 /\ DOMAIN Tail(toHost[s]) = 1 .. h - 1
      /\ \A i \in 1 .. h - 1 : Tail(toHost[s])[i] = toHost[s][i + 1]
    BY HeadTailProperties, LenProperties, EmptySeq DEF HostTyped
<1>3. /\ Len(r.got) = g + 1 /\ DOMAIN r.got = 1 .. g + 1
      /\ \A i \in 1 .. g : r.got[i] = reader[s].got[i]
      /\ r.got[g + 1] = toHost[s][1]
    BY <1>2, AppendProperties, LenProperties DEF HostTyped
<1>4. /\ \A i \in 1 .. g : Key(reader[s].got[i]) = b + i
      /\ \A i \in 1 .. h : Key(toHost[s][i]) = b + g + i
      /\ conn = s => b + g + h + 1 = NextKey
    BY <1>1 DEF DealtWith
<1> HIDE DEF g, h
<1>5. \A i \in 1 .. g + 1 : Key(r.got[i]) = b + i
    <2> TAKE i \in 1 .. g + 1
    <2>1. CASE i \in 1 .. g
        BY <2>1, <1>3, <1>4
    <2>2. CASE i = g + 1
        <3>1. b + i = b + g + 1 /\ 1 \in 1 .. h
            BY <2>2, <1>1, <1>2
        <3> QED
            BY <3>1, <2>2, <1>3, <1>4
    <2> QED
        BY <2>1, <2>2, <1>1
<1>6. \A i \in 1 .. h - 1 : Key(Tail(toHost[s])[i]) = b + (g + 1) + i
    <2> TAKE i \in 1 .. h - 1
    <2>1. i + 1 \in 1 .. h /\ b + g + (i + 1) = b + (g + 1) + i
        BY <1>1
    <2> QED
        BY <2>1, <1>2, <1>4
<1>7. conn = s => b + (g + 1) + (h - 1) + 1 = NextKey
    BY <1>1, <1>4
<1>8. Len(r.got) \in Nat /\ Len(r.got) = g + 1 /\ Len(Tail(toHost[s])) = h - 1
    BY <1>1, <1>2, <1>3
<1>9. \A i \in DOMAIN Tail(toHost[s]) : Key(Tail(toHost[s])[i]) = b + Len(r.got) + i
    BY <1>2, <1>6, <1>8
<1>10. conn = s => b + Len(r.got) + Len(Tail(toHost[s])) + 1 = NextKey
    BY <1>7, <1>8
<1> QED
    BY <1>3, <1>5, <1>8, <1>9, <1>10

\* A frame that is handed on begins where the dealt with ends.
LEMMA OddKeys == \A b, n \in Nat : b + 1 = 2 * n + 1 => b = 2 * n
OBVIOUS

LEMMA HandedOn ==
    ASSUME HostTyped, NEW s \in Sessions, toHost[s] # <<>>, NEW b \in Nat, DealtWith(s, b),
           NEW r \in Reader, r.got = Append(reader[s].got, Head(toHost[s])), Decodes(r.got)
    PROVE  r.got[1].frame.n \in Nat /\ b = 2 * r.got[1].frame.n /\ Len(r.got) = 2
<1>1. /\ Len(r.got) = 2 /\ r.got[1].part = 1 /\ r.got[1].frame \in Message
    BY DecodedPieces DEF Reader
<1>2. r.got[1].frame.n \in Nat
    BY <1>1, ChannelAssumption DEF Message
<1>3. Key(r.got[1]) = b + 1
    <2>1. DOMAIN r.got = 1 .. Len(r.got) /\ \A i \in DOMAIN r.got : Key(r.got[i]) = b + i
        BY TakenInOrder
    <2>2. 1 \in DOMAIN r.got
        BY <1>1, <2>1
    <2> QED
        BY <2>1, <2>2
<1>4. Key(r.got[1]) = 2 * r.got[1].frame.n + 1
    BY <1>1 DEF Key
<1>5. b + 1 = 2 * r.got[1].frame.n + 1
    BY <1>3, <1>4
<1>6. b = 2 * r.got[1].frame.n
    BY <1>2, <1>5, OddKeys
<1> QED
    BY <1>1, <1>2, <1>6

LEMMA ReceivedInOrder ==
    ASSUME HostStream, HostTyped, FramesHandledInOrder, NEW s \in Sessions, Receive(s), at \in [Threads -> Places]
    PROVE  HostStream'
<1> SUFFICES ASSUME NEW u \in Sessions, open'[u] PROVE \E b \in Nat : DealtWith(u, b)'
    BY DEF HostStream
<1>1. PICK r \in Reader :
         /\ r.got = Append(reader[s].got, Head(toHost[s]))
         /\ \/ /\ ~Complete(r) /\ reader' = [reader EXCEPT ![s] = r]
               /\ UNCHANGED <<at, message, handled>>
            \/ /\ Decodes(r.got) /\ reader' = [reader EXCEPT ![s] = Fresh]
               /\ message' = [message EXCEPT ![s] = r.got[1].frame]
               /\ handled' = [handled EXCEPT ![s] = Append(@, r.got)]
               /\ \E place \in {"respond", "consume"} : Goto(s, place)
            \/ /\ reader' = [reader EXCEPT ![s] = Fresh]
               /\ Goto(s, "end") /\ UNCHANGED <<message, handled>>
    BY ReceiveSteps
<1>2. /\ at[s] = "read" /\ open[s] /\ toHost[s] # <<>> /\ toHost' = [toHost EXCEPT ![s] = Tail(@)]
      /\ UNCHANGED <<open, conn, sent, half, stalled>>
    BY DEF Receive, tabletVars
<1>3. NextKey' = NextKey /\ s \in Threads
    BY <1>2, LoopsAreThreads DEF NextKey
<1>4. PICK b \in Nat : DealtWith(u, b)
    BY <1>2 DEF HostStream
<1>5. CASE u # s
    <2>1. toHost'[u] = toHost[u] /\ reader'[u] = reader[u] /\ handled'[u] = handled[u] /\ at'[u] = at[u]
        <3>1. u \in Threads /\ toHost'[u] = toHost[u]
            BY <1>2, <1>5, LoopsAreThreads DEF HostTyped
        <3>2. reader'[u] = reader[u] /\ handled'[u] = handled[u]
            BY <1>1, <1>5 DEF HostTyped
        <3>3. at'[u] = at[u]
            BY <1>1, <1>5, <3>1 DEF Goto
        <3> QED
            BY <3>1, <3>2, <3>3
    <2> QED
        BY <1>2, <1>3, <1>4, <2>1, StaysDealtWith
<1>6. CASE u = s
    <2> DEFINE n == Len(r.got)
               l == Len(handled[u])
    <2>1. /\ n \in Nat /\ DOMAIN r.got = 1 .. n
          /\ \A i \in DOMAIN r.got : Key(r.got[i]) = b + i
          /\ \A i \in DOMAIN Tail(toHost[u]) : Key(Tail(toHost[u])[i]) = b + n + i
          /\ conn = u => b + n + Len(Tail(toHost[u])) + 1 = NextKey
        <3>1. toHost[u] # <<>> /\ r.got = Append(reader[u].got, Head(toHost[u]))
            BY <1>1, <1>2, <1>6
        <3> HIDE DEF n
        <3> QED
            BY <1>4, <3>1, TakenInOrder DEF n
    <2>2. toHost'[u] = Tail(toHost[u]) /\ stalled'[u] = stalled[u] /\ open'[u] = open[u]
        BY <1>2, <1>6 DEF HostTyped
    <2>3. /\ l \in Nat /\ DOMAIN handled[u] = 1 .. l
          /\ \A i \in DOMAIN handled[u] : 2 * handled[u][i][1].frame.n + 2 <= b
          /\ ~stalled[u] => b = 2 * l + 2
        BY <1>2, <1>4, <1>6, HostLengths DEF DealtWith, Looping
    <2>4. Len(Tail(toHost[u])) \in Nat /\ DOMAIN Tail(toHost[u]) = 1 .. Len(Tail(toHost[u]))
        BY <1>2, <1>6, HeadTailProperties, LenProperties DEF HostTyped
    <2>5. Fresh.got = <<>> /\ Len(Fresh.got) = 0 /\ DOMAIN Fresh.got = {}
        BY DEF Fresh
    <2> HIDE DEF n, l
    <2>6. CASE reader' = [reader EXCEPT ![s] = r] /\ UNCHANGED <<at, message, handled>>
        <3>1. reader'[u] = r
            BY <1>6, <2>6 DEF HostTyped
        <3>2. DealtWith(u, b)'
            BY <1>2, <1>3, <1>4, <2>1, <2>2, <2>6, <3>1 DEF DealtWith, n
        <3> QED
            BY <3>2
    <2>7. ASSUME NEW c \in Nat, c = b + n, reader'[u].got = <<>>
          PROVE  /\ \A i \in DOMAIN reader'[u].got : Key(reader'[u].got[i]) = c + i
                 /\ \A i \in DOMAIN toHost'[u] : Key(toHost'[u][i]) = c + Len(reader'[u].got) + i
                 /\ conn = u => c + Len(reader'[u].got) + Len(toHost'[u]) + 1 = NextKey'
        <3>1. Len(reader'[u].got) = 0 /\ DOMAIN reader'[u].got = {}
            BY <2>5, <2>7
        <3>2. \A i \in DOMAIN toHost'[u] : Key(toHost'[u][i]) = c + 0 + i
            BY <2>1, <2>2, <2>4, <2>7
        <3>3. conn = u => c + 0 + Len(toHost'[u]) + 1 = NextKey'
            <4> DEFINE m == Len(Tail(toHost[u]))
            <4>1. conn = u => b + n + m + 1 = NextKey
                BY <2>1
            <4>2. m \in Nat /\ Len(toHost'[u]) = m
                BY <2>2, <2>4
            <4> HIDE DEF m
            <4>3. c + 0 + m + 1 = b + n + m + 1
                BY <2>1, <2>7, <4>2
            <4> QED
                BY <1>3, <4>1, <4>2, <4>3
        <3>4. c + Len(reader'[u].got) = c + 0
            BY <3>1
        <3> QED
            BY <3>1, <3>2, <3>3, <3>4
    <2>8. PICK c \in Nat : c = b + n
        BY <2>1
    <2>9. \A i \in DOMAIN handled[u] : 2 * handled[u][i][1].frame.n + 2 <= c
        <3> TAKE i \in DOMAIN handled[u]
        <3> DEFINE k == 2 * handled[u][i][1].frame.n + 2
        <3>1. k <= b /\ k \in Int
            BY <2>3, HandledNumbers
        <3> HIDE DEF k
        <3>2. k <= c
            BY <3>1, <2>1, <2>8
        <3> QED
            BY <3>2 DEF k
    <2>10. CASE reader' = [reader EXCEPT ![s] = Fresh] /\ Goto(s, "end") /\ UNCHANGED <<message, handled>>
        <3>1. reader'[u].got = <<>> /\ at'[u] = "end"
            BY <1>3, <1>6, <2>5, <2>10 DEF HostTyped, Goto
        <3>2. DealtWith(u, c)'
            BY <1>2, <2>7, <2>8, <2>9, <2>10, <3>1 DEF DealtWith, Looping
        <3> QED
            BY <3>2
    <2>11. CASE /\ Decodes(r.got) /\ reader' = [reader EXCEPT ![s] = Fresh]
                /\ handled' = [handled EXCEPT ![s] = Append(@, r.got)]
        <3>1. reader'[u].got = <<>> /\ handled'[u] = Append(handled[u], r.got)
            BY <1>6, <2>5, <2>11 DEF HostTyped
        <3> DEFINE f == r.got[1].frame.n
        <3>2. f \in Nat /\ b = 2 * f /\ n = 2
            BY <1>1, <1>2, <1>4, <1>6, <2>11, HandedOn DEF n
        <3>3. /\ DOMAIN handled'[u] = 1 .. l + 1 /\ Len(handled'[u]) = l + 1
              /\ \A i \in 1 .. l : handled'[u][i] = handled[u][i]
              /\ handled'[u][l + 1] = r.got
            <4>1. r.got \in Seq(Piece)
                BY DEF Reader
            <4> QED
                BY <3>1, <4>1, <2>3, AppendProperties, LenProperties DEF HostTyped, l
        <3>4. \A i \in 1 .. l + 1 : 2 * handled'[u][i][1].frame.n + 2 <= c
            <4> TAKE i \in 1 .. l + 1
            <4>1. CASE i \in 1 .. l
                BY <4>1, <2>3, <2>9, <3>3
            <4>2. CASE i = l + 1
                <5>1. handled'[u][i][1].frame.n = f
                    BY <4>2, <3>3
                <5> HIDE DEF f
                <5> QED
                    BY <5>1, <3>2, <2>8
            <4> QED
                BY <4>1, <4>2, <2>3
        <3> HIDE DEF f
        <3>5. ~stalled[u] => c = 2 * (l + 1) + 2
            BY <2>3, <2>8, <3>2
        <3>6. DealtWith(u, c)'
            BY <1>2, <2>2, <2>7, <2>8, <3>1, <3>3, <3>4, <3>5 DEF DealtWith
        <3> QED
            BY <3>6
    <2> QED
        BY <1>1, <2>6, <2>10, <2>11
<1> QED
    BY <1>5, <1>6

\* A new session begins with nothing dealt with, next to those that ended.
LEMMA EstablishedInOrder ==
    ASSUME LoopsRight, ConnectionRight, SocketsTyped, HostTyped, Blank, HostStream, Establish
    PROVE  HostStream'
<1> SUFFICES ASSUME NEW u \in Sessions, open'[u] PROVE \E b \in Nat : DealtWith(u, b)'
    BY DEF HostStream
<1> DEFINE n == session + 1
<1>1. n \in Sessions /\ n > session /\ n \in Threads /\ session \in Nat
    BY ChannelAssumption, LoopsAreThreads DEF Establish, Sessions, LoopsRight
<1>2. /\ open' = [open EXCEPT ![n] = TRUE] /\ at' = [at EXCEPT ![n] = "join"] /\ conn' = n
      /\ conn = 0 /\ UNCHANGED <<reader, toHost, handled, stalled, sent, half>>
    BY DEF Establish, Goto, streams, history
<1>3. reader[n] = Fresh /\ toHost[n] = <<>> /\ handled[n] = <<>>
    BY <1>1 DEF Blank
<1>4. sent' = 0 /\ half' = None
    BY <1>2 DEF ConnectionRight
<1> HIDE DEF n
<1>5. CASE u # n
    <2>1. PICK b \in Nat : DealtWith(u, b)
        BY <1>2, <1>5 DEF HostStream, SocketsTyped
    <2>2. at'[u] = at[u]
        BY <1>2, <1>5, LoopsAreThreads DEF LoopsRight
    <2> QED
        BY <1>2, <1>5, <2>1, <2>2, StaysDealtWith
<1>6. CASE u = n
    <2>1. Fresh.got = <<>> /\ Len(<<>>) = 0 /\ DOMAIN <<>> = {}
        BY DEF Fresh
    <2>2. reader'[u] = Fresh /\ toHost'[u] = <<>> /\ handled'[u] = <<>>
        BY <1>2, <1>3, <1>6
    <2>3. NextKey' = 3
        BY <1>4 DEF NextKey
    <2>4. DealtWith(u, 2)'
        BY <2>1, <2>2, <2>3 DEF DealtWith
    <2> QED
        BY <2>4
<1> QED
    BY <1>5, <1>6

LEMMA ClosedInOrder ==
    ASSUME LoopsRight, SocketsTyped, HostTyped, HostStream, NEW t \in Threads, EndClose(t)
    PROVE  HostStream'
<1> SUFFICES ASSUME NEW u \in Sessions, open'[u] PROVE \E b \in Nat : DealtWith(u, b)'
    BY DEF HostStream
<1>1. ending[t] \in Sessions
    BY TargetsRight DEF EndClose
<1>2. open[u] /\ u # ending[t]
    BY <1>1 DEF EndClose, SocketsTyped
<1>3. UNCHANGED <<reader, handled, stalled, conn, sent, half>> /\ toHost'[u] = toHost[u]
    BY <1>2 DEF EndClose, HostTyped, tabletVars, history
<1>4. at'[u] \in Looping => at[u] \in Looping
    BY LoopsAreThreads DEF EndClose, Goto, LoopsRight, Looping
<1>5. PICK b \in Nat : DealtWith(u, b)
    BY <1>2 DEF HostStream
<1> QED
    BY <1>3, <1>4, <1>5, StaysDealtWith DEF NextKey

LEMMA HostStreamKept ==
    ASSUME LoopsRight, ConnectionRight, SocketsTyped, HostTyped, Blank, HostStream, FramesHandledInOrder,
           [Next]_vars
    PROVE  HostStream'
<1> USE DEF hostVars, tabletVars, streams, history
<1>1. CASE Establish
    BY <1>1, EstablishedInOrder
<1>2. CASE OtherEnds \/ Age \/ TabletDiscards \/ TabletReads \/ UNCHANGED vars
    <2>1. UNCHANGED <<open, reader, toHost, handled, conn, sent, half, stalled>>
        BY <1>2 DEF OtherEnds, Age, TabletDiscards, TabletReads, vars
    <2>2. \A s \in Sessions : at'[s] = at[s]
        BY <1>2, LoopsAreThreads DEF OtherEnds, Goto, LoopsRight, Age, TabletDiscards, TabletReads, vars
    <2> QED
        BY <2>1, <2>2, QuietSteps
<1>3. CASE TabletDrops
    <2>1. /\ UNCHANGED <<open, reader, toHost, handled, at, stalled>> /\ conn' = 0
          /\ \A s \in Sessions : s # 0
        BY <1>3, ChannelAssumption DEF TabletDrops, Sessions
    <2> QED
        BY <2>1, StaysDealtWith DEF HostStream
<1>4. CASE TabletSends
    <2>1. PICK completes \in {None, answering} :
             half' = [session |-> conn, n |-> sent + 1, completes |-> completes]
        BY <1>4 DEF TabletSends
    <2>2. conn \in Sessions /\ sent + 1 \in 1 .. MaxFrames /\ sent \in Nat
        BY <1>4, ChannelAssumption DEF TabletSends, Sessions, ConnectionRight, LoopsRight
    <2>3. half' \in Message /\ half'.n = sent + 1
        BY <2>1, <2>2 DEF Message, ConnectionRight
    <2> DEFINE piece == [frame |-> half', part |-> 1]
    <2>4. piece \in Piece /\ Key(piece) = 2 * (sent + 1) + 1
        BY <2>3 DEF Piece, Key
    <2>5. NextKey = 2 * sent + 3 /\ NextKey' = 2 * (sent + 1) + 2
        BY <1>4, <2>3, NamesAssumption DEF NextKey, TabletSends
    <2>6. /\ toHost' = [toHost EXCEPT ![conn] = Append(@, piece)]
          /\ UNCHANGED <<at, open, reader, handled, conn, stalled>>
        BY <1>4 DEF TabletSends, Pieces
    <2> HIDE DEF piece
    <2>7. Key(piece) = NextKey /\ NextKey' = NextKey + 1
        BY <2>2, <2>4, <2>5
    <2> QED
        BY <2>2, <2>4, <2>6, <2>7, SentInOrder
<1>5. CASE RestArrives
    <2>1. half \in Message /\ half.n = sent /\ conn \in Sessions /\ sent \in Nat /\ half # None
        BY <1>5, ChannelAssumption DEF RestArrives, ConnectionRight, Message, LoopsRight
    <2> DEFINE piece == [frame |-> half, part |-> 2]
    <2>2. piece \in Piece /\ Key(piece) = 2 * sent + 2
        BY <2>1 DEF Piece, Key
    <2>3. NextKey = 2 * sent + 2 /\ NextKey' = 2 * sent + 3
        BY <1>5, <2>1 DEF NextKey, RestArrives
    <2>4. /\ toHost' = [toHost EXCEPT ![conn] = Append(@, piece)]
          /\ UNCHANGED <<at, open, reader, handled, conn, stalled>>
        BY <1>5 DEF RestArrives, Pieces
    <2> HIDE DEF piece
    <2>5. Key(piece) = NextKey /\ NextKey' = NextKey + 1
        BY <2>1, <2>2, <2>3
    <2> QED
        BY <2>1, <2>2, <2>4, <2>5, SentInOrder
<1>6. ASSUME NEW s \in Sessions, ControlLoop(s) PROVE HostStream'
    <2>0. s \in Threads /\ at \in [Threads -> Places]
        BY LoopsAreThreads DEF LoopsRight
    <2>1. CASE Receive(s)
        BY <2>0, <2>1, ReceivedInOrder
    <2>2. CASE ReceiveTimesOut(s)
        <3>1. /\ reader' = [reader EXCEPT ![s] = Fresh] /\ Goto(s, "top") /\ at[s] = "read"
              /\ stalled' = [stalled EXCEPT ![s] = @ \/ MidFrame(reader[s])]
              /\ UNCHANGED <<open, toHost, handled, conn, sent, half>>
            BY <2>2 DEF ReceiveTimesOut, TimedOut
        <3>2. \A u \in Sessions \ {s} : stalled'[u] = stalled[u]
            BY <3>1 DEF SocketsTyped
        <3>3. stalled'[s] = (stalled[s] \/ reader[s].got # <<>>)
            BY <3>1 DEF SocketsTyped, MidFrame
        <3> QED
            BY <2>0, <3>1, <3>2, <3>3, LostInOrder DEF Looping
    <2>3. CASE ReceiveClosed(s)
        <3>1. /\ reader' = [reader EXCEPT ![s] = Fresh] /\ Goto(s, "end") /\ "end" \notin Looping
              /\ UNCHANGED <<open, toHost, handled, conn, sent, half, stalled>>
            BY <2>3 DEF ReceiveClosed, OnceClosed, Looping
        <3> QED
            BY <2>0, <3>1, LostInOrder
    <2>4. CASE Join(s) \/ Top(s) \/ RecordPendingClockSync(s) \/ ConsumeClockSyncComplete(s)
        <3>1. UNCHANGED <<open, reader, toHost, handled, conn, sent, half, stalled>>
            BY <2>4 DEF Join, Top, RecordPendingClockSync, ConsumeClockSyncComplete
        <3>2. at[s] \in Looping /\ \E place : Goto(s, place)
            BY <2>4 DEF Join, Top, RecordPendingClockSync, ConsumeClockSyncComplete, Looping
        <3>3. \A u \in Sessions : at'[u] \in Looping => at[u] \in Looping
            BY <2>0, <3>2, LoopsAreThreads DEF Goto
        <3> QED
            BY <3>1, <3>3, QuietSteps
    <2>5. CASE Respond(s)
        <3>1. UNCHANGED <<open, reader, toHost, handled, conn, sent, half, stalled>>
            BY <2>5 DEF Respond, WriteFrame
        <3>2. at[s] \in Looping /\ (UNCHANGED at \/ \E place : Goto(s, place))
            BY <2>0, <2>5, WriteSteps DEF Respond, Looping
        <3>3. \A u \in Sessions : at'[u] \in Looping => at[u] \in Looping
            BY <2>0, <3>2, LoopsAreThreads DEF Goto
        <3> QED
            BY <3>1, <3>3, QuietSteps
    <2> QED
        BY <1>6, <2>1, <2>2, <2>3, <2>4, <2>5 DEF ControlLoop
<1>7. ASSUME NEW t \in Threads, EndSession(t) PROVE HostStream'
    <2>1. CASE EndClose(t)
        BY <2>1, ClosedInOrder
    <2>2. CASE ClearPendingClockSync(t) \/ EndClaim(t) \/ WriteDisconnect(t)
        <3>1. UNCHANGED <<open, reader, toHost, handled, conn, sent, half, stalled>>
            BY <2>2 DEF ClearPendingClockSync, EndClaim, WriteDisconnect, WriteFrame
        <3>2. UNCHANGED at \/ \E place \in {"claim", "goodbye", "over", "close"} : Goto(t, place)
            BY <2>2, WriteSteps DEF ClearPendingClockSync, EndClaim, WriteDisconnect
        <3>3. \A u \in Sessions : at'[u] \in Looping => at[u] \in Looping
            BY <3>2, LoopsAreThreads DEF Goto, LoopsRight, Looping
        <3> QED
            BY <3>1, <3>3, QuietSteps
    <2> QED
        BY <1>7, <2>1, <2>2 DEF EndSession
<1> QED
    BY <1>1, <1>2, <1>3, <1>4, <1>5, <1>6, <1>7 DEF Next, Tablet

\* What is handed on, and what is known to have stalled, in a step.
LEMMA HandedInSteps ==
    ASSUME SocketsTyped, [Next]_vars
    PROVE  \/ \E s \in Sessions : Receive(s)
           \/ UNCHANGED handled /\ \A s \in Sessions : stalled[s] => stalled'[s]
<1> USE DEF hostVars, tabletVars, streams, history
<1>1. CASE Establish \/ OtherEnds \/ Age \/ UNCHANGED vars
    BY <1>1 DEF Establish, OtherEnds, Age, vars
<1>2. CASE Tablet
    BY <1>2 DEF Tablet, TabletSends, RestArrives, TabletDiscards, TabletReads, TabletDrops
<1>3. ASSUME NEW s \in Sessions, ControlLoop(s), ~Receive(s)
      PROVE  UNCHANGED handled /\ \A u \in Sessions : stalled[u] => stalled'[u]
    <2>1. CASE ReceiveTimesOut(s)
        BY <2>1 DEF ReceiveTimesOut, SocketsTyped
    <2> QED
        BY <1>3, <2>1 DEF ControlLoop, Join, Top, ReceiveClosed, Respond, WriteFrame, RecordPendingClockSync,
                          ConsumeClockSyncComplete
<1>4. ASSUME NEW t \in Threads, EndSession(t) PROVE UNCHANGED <<handled, stalled>>
    BY <1>4 DEF EndSession, ClearPendingClockSync, EndClaim, WriteDisconnect, WriteFrame, EndClose
<1> QED
    BY <1>1, <1>2, <1>3, <1>4 DEF Next

LEMMA FramesKept ==
    ASSUME LoopsRight, SocketsTyped, HostTyped, HostStream, FramesHandledInOrder, [Next]_vars
    PROVE  FramesHandledInOrder'
<1>1. CASE UNCHANGED handled /\ \A s \in Sessions : stalled[s] => stalled'[s]
    BY <1>1 DEF FramesHandledInOrder
<1>2. ASSUME NEW s \in Sessions, Receive(s) PROVE FramesHandledInOrder'
    <2>1. /\ at[s] = "read" /\ open[s] /\ toHost[s] # <<>> /\ UNCHANGED stalled
        BY <1>2 DEF Receive
    <2>2. PICK r \in Reader :
             /\ r.got = Append(reader[s].got, Head(toHost[s]))
             /\ \/ UNCHANGED handled
                \/ Decodes(r.got) /\ handled' = [handled EXCEPT ![s] = Append(@, r.got)]
        BY <1>2, ReceiveSteps
    <2>3. CASE UNCHANGED handled
        BY <2>1, <2>3 DEF FramesHandledInOrder
    <2>4. CASE Decodes(r.got) /\ handled' = [handled EXCEPT ![s] = Append(@, r.got)]
        <3> DEFINE l == Len(handled[s])
                   f == r.got[1].frame
        <3>1. PICK b \in Nat : DealtWith(s, b)
            BY <2>1 DEF HostStream
        <3>2. f.n \in Nat /\ b = 2 * f.n
            BY <2>1, <2>2, <2>4, <3>1, HandedOn
        <3>3. r.got = Pieces(f) /\ f.session = s
            <4>1. Head(toHost[s]) \in PieceOf(s) /\ reader[s].got \in Seq(PieceOf(s))
                BY <2>1, HeadTailProperties DEF HostTyped
            <4>2. r.got \in Seq(PieceOf(s))
                BY <2>2, <4>1, AppendProperties
            <4>3. Len(r.got) = 2 /\ r.got = Pieces(f)
                BY <2>4 DEF Decodes
            <4>4. r.got[1] \in PieceOf(s)
                BY <4>2, <4>3, ElementOfSeq
            <4> QED
                BY <4>3, <4>4 DEF PieceOf
        <3>4. l \in Nat /\ DOMAIN handled[s] = 1 .. l
            BY HostLengths
        <3>5. /\ \A i \in 1 .. l : handled[s][i][1].frame.n \in Nat /\ 2 * handled[s][i][1].frame.n + 2 <= b
              /\ ~stalled[s] => b = 2 * l + 2
            BY <2>1, <3>1, <3>4, HandledNumbers DEF DealtWith, Looping
        <3>6. /\ DOMAIN handled'[s] = 1 .. l + 1
              /\ \A i \in 1 .. l : handled'[s][i] = handled[s][i]
              /\ handled'[s][l + 1] = r.got
            <4>1. r.got \in Seq(Piece) /\ handled'[s] = Append(handled[s], r.got)
                BY <2>4 DEF Reader, HostTyped
            <4> QED
                BY <4>1, <3>4, AppendProperties, LenProperties DEF HostTyped
        <3>7. \A u \in Sessions \ {s} : handled'[u] = handled[u]
            BY <2>4 DEF HostTyped
        <3>8. handled'[s][l + 1][1].frame = f
            BY <3>6
        <3> HIDE DEF l, f
        <3>9. /\ \A i \in 1 .. l : handled[s][i][1].frame.n < f.n
              /\ ~stalled[s] => f.n = l + 1
            <4>1. ASSUME NEW i \in 1 .. l PROVE handled[s][i][1].frame.n < f.n
                <5> DEFINE m == handled[s][i][1].frame.n
                <5>1. m \in Nat /\ 2 * m + 2 <= b
                    BY <3>5
                <5> HIDE DEF m
                <5>2. m < f.n
                    BY <3>2, <5>1
                <5> QED
                    BY <5>2 DEF m
            <4>2. ~stalled[s] => f.n = l + 1
                BY <3>2, <3>4, <3>5
            <4> QED
                BY <4>1, <4>2
        <3>10. \A i \in 1 .. l + 1 : i \in 1 .. l \/ i = l + 1
            BY <3>4
        <3>11. \A i \in 1 .. l + 1 : handled'[s][i] = Pieces(handled'[s][i][1].frame) /\ handled'[s][i][1].frame.session = s
            BY <3>3, <3>4, <3>6, <3>8, <3>10 DEF FramesHandledInOrder
        <3>12. \A i, j \in 1 .. l + 1 : i < j => handled'[s][i][1].frame.n < handled'[s][j][1].frame.n
            <4> SUFFICES ASSUME NEW i \in 1 .. l + 1, NEW j \in 1 .. l + 1, i < j
                         PROVE  handled'[s][i][1].frame.n < handled'[s][j][1].frame.n
                OBVIOUS
            <4>1. i \in 1 .. l
                BY <3>4
            <4>2. CASE j \in 1 .. l
                BY <4>1, <4>2, <3>4, <3>6 DEF FramesHandledInOrder
            <4>3. CASE j = l + 1
                BY <4>1, <4>3, <3>6, <3>8, <3>9
            <4> QED
                BY <4>2, <4>3, <3>10
        <3>13. stalled[s] \/ \A i \in 1 .. l + 1 : handled'[s][i][1].frame.n = i
            BY <3>4, <3>6, <3>8, <3>9, <3>10 DEF FramesHandledInOrder
        <3> SUFFICES ASSUME NEW u \in Sessions
                     PROVE  LET all == handled'[u] IN
                            /\ \A i \in DOMAIN all : all[i] = Pieces(all[i][1].frame) /\ all[i][1].frame.session = u
                            /\ \A i, j \in DOMAIN all : i < j => all[i][1].frame.n < all[j][1].frame.n
                            /\ stalled'[u] \/ \A i \in DOMAIN all : all[i][1].frame.n = i
            BY DEF FramesHandledInOrder
        <3>14. CASE u = s
            BY <2>1, <3>14, <3>6, <3>11, <3>12, <3>13
        <3>15. CASE u # s
            <4>1. handled'[u] = handled[u] /\ stalled'[u] = stalled[u]
                BY <2>1, <3>7, <3>15
            <4> QED
                BY <4>1 DEF FramesHandledInOrder
        <3> QED
            BY <3>14, <3>15
    <2> QED
        BY <2>2, <2>3, <2>4
<1> QED
    BY <1>1, <1>2, HandedInSteps
-----------------------------------------------------------------------------
(***************************************************************************)
(* The stream to the tablet.                                               *)
(***************************************************************************)

LEMMA FirstPut ==
    ASSUME NEW S, NEW q \in Seq(S), Paired(q), NEW k \in Nat, Len(q) = 2 * k, NEW x \in S
    PROVE  Paired(Append(q, x)) /\ Len(Append(q, x)) = 2 * k + 1 /\ Append(q, x)[2 * k + 1] = x
<1>1. /\ Len(Append(q, x)) = 2 * k + 1 /\ Append(q, x)[2 * k + 1] = x
      /\ \A i \in 1 .. 2 * k : Append(q, x)[i] = q[i]
    BY AppendProperties
<1>2. ASSUME NEW j \in Nat, 2 * j + 2 <= 2 * k + 1
      PROVE  2 * j + 1 \in 1 .. 2 * k /\ 2 * j + 2 \in 1 .. 2 * k /\ 2 * j + 2 <= 2 * k
    BY <1>2
<1> QED
    BY <1>1, <1>2 DEF Paired

LEMMA SecondPut ==
    ASSUME NEW S, NEW q \in Seq(S), Paired(q), NEW k \in Nat, Len(q) = 2 * k + 1, NEW frame,
           q[2 * k + 1] = [frame |-> frame, part |-> 1], [frame |-> frame, part |-> 2] \in S
    PROVE  LET all == Append(q, [frame |-> frame, part |-> 2]) IN Paired(all) /\ Len(all) = 2 * (k + 1)
<1> DEFINE x == [frame |-> frame, part |-> 2]
           all == Append(q, x)
<1>1. /\ Len(all) = 2 * k + 2 /\ all[2 * k + 2] = x
      /\ \A i \in 1 .. 2 * k + 1 : all[i] = q[i]
    BY AppendProperties
<1> HIDE DEF all
<1>2. ASSUME NEW j \in Nat, 2 * j + 2 <= 2 * k + 2
      PROVE  all[2 * j + 1].part = 1 /\ all[2 * j + 2] = [frame |-> all[2 * j + 1].frame, part |-> 2]
    <2>1. CASE j = k
        <3>1. all[2 * j + 1] = [frame |-> frame, part |-> 1] /\ all[2 * j + 2] = x
            BY <2>1, <1>1
        <3> QED
            BY <3>1
    <2>2. CASE j # k
        <3>1. 2 * j + 1 \in 1 .. 2 * k + 1 /\ 2 * j + 2 \in 1 .. 2 * k + 1 /\ 2 * j + 2 <= 2 * k + 1
            BY <1>2, <2>2
        <3> QED
            BY <3>1, <1>1 DEF Paired
    <2> QED
        BY <2>1, <2>2
<1>3. Len(all) = 2 * (k + 1)
    BY <1>1
<1> QED
    BY <1>1, <1>2, <1>3 DEF Paired, all

\* The tablet takes a whole frame off the stream.
LEMMA PairTaken ==
    ASSUME NEW q \in Seq(AnswerPiece), Paired(q), Len(q) > 1
    PROVE  /\ Decodes(SubSeq(q, 1, 2))
           /\ Paired(SubSeq(q, 3, Len(q))) /\ Len(SubSeq(q, 3, Len(q))) = Len(q) - 2
           /\ \A i \in 1 .. Len(q) - 2 : SubSeq(q, 3, Len(q))[i] = q[i + 2]
<1> DEFINE n == Len(q)
           two == SubSeq(q, 1, 2)
           rest == SubSeq(q, 3, n)
<1>1. n \in Nat /\ n >= 2 /\ \A i \in 1 .. n : q[i] \in AnswerPiece
    BY LenProperties, ElementOfSeq
<1>2. two \in Seq(AnswerPiece) /\ Len(two) = 2 /\ two[1] = q[1] /\ two[2] = q[2]
    <2>1. \A i \in 1 .. 2 : q[i] \in AnswerPiece
        BY <1>1
    <2>2. two \in Seq(AnswerPiece) /\ Len(two) = 2 /\ \A i \in 1 .. 2 - 1 + 1 : two[i] = q[1 + i - 1]
        BY <2>1, SubSeqProperties
    <2> QED
        BY <2>2
<1>3. Len(rest) = n - 2 /\ \A i \in 1 .. n - 2 : rest[i] = q[i + 2]
    <2>1. Len(rest) = (IF 3 <= n THEN n - 3 + 1 ELSE 0) /\ \A i \in 1 .. n - 3 + 1 : rest[i] = q[3 + i - 1]
        <3> HIDE DEF n
        <3>1. \A i \in 3 .. n : q[i] \in AnswerPiece
            BY <1>1
        <3> QED
            BY <3>1, <1>1, SubSeqProperties
    <2> HIDE DEF rest, n
    <2>2. Len(rest) = n - 2
        BY <2>1, <1>1
    <2>3. \A i \in 1 .. n - 2 : i \in 1 .. n - 3 + 1 /\ 3 + i - 1 = i + 2
        BY <1>1
    <2> QED
        BY <2>1, <2>2, <2>3
<1>4. q[1].part = 1 /\ q[2] = [frame |-> q[1].frame, part |-> 2]
    <2>1. 0 \in Nat /\ 2 * 0 + 2 <= n /\ 2 * 0 + 1 = 1 /\ 2 * 0 + 2 = 2
        BY <1>1
    <2> QED
        BY <2>1 DEF Paired
<1>5. Decodes(two)
    <2>1. two[1] = [frame |-> two[1].frame, part |-> 1] /\ two[2] = [frame |-> two[1].frame, part |-> 2]
        BY <1>1, <1>2, <1>4 DEF AnswerPiece
    <2>2. Pieces(two[1].frame) = <<two[1], two[2]>>
        BY <2>1 DEF Pieces
    <2>3. <<two[1], two[2]>> \in Seq(AnswerPiece) /\ Len(<<two[1], two[2]>>) = 2
        BY <1>1, <1>2
    <2> HIDE DEF two
    <2>4. two = <<two[1], two[2]>>
        BY <1>2, <2>3, SeqEqual
    <2> QED
        BY <1>2, <2>2, <2>4 DEF Decodes
<1> HIDE DEF n, rest
<1>6. Paired(rest)
    <2> SUFFICES ASSUME NEW k \in Nat, 2 * k + 2 <= Len(rest)
                 PROVE  rest[2 * k + 1].part = 1 /\ rest[2 * k + 2] = [frame |-> rest[2 * k + 1].frame, part |-> 2]
        BY DEF Paired
    <2>1. /\ 2 * k + 1 \in 1 .. n - 2 /\ 2 * k + 2 \in 1 .. n - 2
          /\ k + 1 \in Nat /\ 2 * (k + 1) + 2 <= n
          /\ 2 * k + 1 + 2 = 2 * (k + 1) + 1 /\ 2 * k + 2 + 2 = 2 * (k + 1) + 2
        BY <1>1, <1>3
    <2>2. q[2 * (k + 1) + 1].part = 1 /\ q[2 * (k + 1) + 2] = [frame |-> q[2 * (k + 1) + 1].frame, part |-> 2]
        BY <2>1 DEF Paired, n
    <2>3. rest[2 * k + 1] = q[2 * (k + 1) + 1] /\ rest[2 * k + 2] = q[2 * (k + 1) + 2]
        BY SMTT(30), <1>3, <2>1
    <2> DEFINE x == q[2 * (k + 1) + 1]
               y == q[2 * (k + 1) + 2]
    <2>4. rest[2 * k + 1] = x /\ rest[2 * k + 2] = y
        BY <2>3, Zenon
    <2>5. x.part = 1 /\ y = [frame |-> x.frame, part |-> 2]
        BY <2>2, Zenon
    <2> HIDE DEF x, y
    <2> QED
        BY <2>4, <2>5, Zenon
<1> QED
    BY <1>3, <1>5, <1>6 DEF n, rest

\* A session whose stream and half-written frame a step leaves as they are.
LEMMA StaysWritten ==
    ASSUME NEW s, Written(s), toTablet'[s] = toTablet[s], HalfWritten(s)' = HalfWritten(s),
           HalfWritten(s) => Underway' = Underway
    PROVE  Written(s)'
BY DEF Written

\* A step that leaves the stream and the writer alone.
LEMMA QuietWriter ==
    ASSUME TabletStream, LoopsRight, LockRight, UNCHANGED <<lock, toTablet, torn>>,
           conn' \in {0, conn},
           lock # Nobody => at'[lock] = at[lock] /\ ending'[lock] = ending[lock],
           lock \in Sessions => message'[lock] = message[lock]
    PROVE  TabletStream'
<1> SUFFICES ASSUME NEW s \in Sessions, conn' = s, ~torn'[s] PROVE Written(s)'
    BY DEF TabletStream
<1>1. conn = s /\ Written(s)
    BY ChannelAssumption DEF TabletStream, Sessions
<1>2. HalfWritten(s)' = HalfWritten(s)
    BY DEF HalfWritten
<1>3. HalfWritten(s) => Underway' = Underway
    <2>1. lock # Nobody /\ at[lock] = "respond" => lock \in Sessions
        BY DEF LoopsRight, LockRight, Threads
    <2> QED
        BY <2>1 DEF HalfWritten, Underway
<1> QED
    BY <1>1, <1>2, <1>3, StaysWritten

LEMMA WriteInOrder ==
    ASSUME LoopsRight, LockRight, SocketsTyped, TabletTyped, TabletStream,
           NEW t \in Threads, NEW u \in Sessions, NEW frame \in Exchange \cup {Goodbye},
           NEW done \in {"record", "close"}, NEW failed \in {"end", "close"},
           WriteFrame(t, u, frame, done, failed),
           \/ at[t] = "respond" /\ u = t /\ frame = [session |-> t, n |-> message[t].n]
           \/ at[t] = "goodbye" /\ u = ending[t] /\ frame = Goodbye
    PROVE  TabletStream'
<1> SUFFICES ASSUME NEW s \in Sessions, conn' = s, ~torn'[s] PROVE Written(s)'
    BY DEF TabletStream
<1>1. UNCHANGED <<conn, ending, message>> /\ t # Nobody
    BY LoopsAreThreads DEF WriteFrame, tabletVars
<1>2. torn[s] => torn'[s]
    BY WriteSteps DEF SocketsTyped
<1>3. Written(s)
    BY <1>1, <1>2 DEF TabletStream
<1>4. ASSUME NEW part \in {1, 2} PROVE [frame |-> frame, part |-> part] \in AnswerPiece
    BY DEF AnswerPiece
<1>5. CASE /\ lock = Nobody /\ lock' = t /\ written' = 1
           /\ toTablet' = [toTablet EXCEPT ![u] = Put(@, frame, 1)]
           /\ UNCHANGED <<at, torn>>
    <2>1. ~HalfWritten(s) /\ (HalfWritten(s)' <=> s = u) /\ Underway' = frame
        BY <1>1, <1>5 DEF HalfWritten, Underway
    <2>2. PICK k \in Nat : Len(toTablet[s]) = 2 * k /\ Paired(toTablet[s])
        BY <1>3, <2>1 DEF Written
    <2>3. CASE s = u
        <3>1. toTablet'[s] = Append(toTablet[s], [frame |-> frame, part |-> 1])
            BY <1>5, <2>3 DEF Put, TabletTyped
        <3>2. /\ Paired(toTablet'[s]) /\ Len(toTablet'[s]) = 2 * k + 1
              /\ toTablet'[s][2 * k + 1] = [frame |-> frame, part |-> 1]
            BY <1>4, <2>2, <3>1, FirstPut DEF TabletTyped
        <3> QED
            BY <2>1, <2>3, <3>2 DEF Written
    <2>4. CASE s # u
        BY <1>3, <1>5, <2>1, <2>4 DEF Written, TabletTyped
    <2> QED
        BY <2>3, <2>4
<1>6. CASE /\ lock = t /\ written = 1 /\ written' = 2
           /\ Goto(t, done) /\ lock' = (IF done = "record" THEN t ELSE Nobody)
           /\ toTablet' = [toTablet EXCEPT ![u] = Put(@, frame, 2)]
           /\ UNCHANGED torn
    <2>1. (HalfWritten(s) <=> s = u) /\ Underway = frame
        BY <1>1, <1>6 DEF HalfWritten, Underway
    <2>2. ~HalfWritten(s)'
        BY <1>1, <1>6 DEF HalfWritten, Goto, LoopsRight
    <2>3. CASE s = u
        <3>1. PICK k \in Nat : /\ Len(toTablet[s]) = 2 * k + 1 /\ Paired(toTablet[s])
                               /\ toTablet[s][2 * k + 1] = [frame |-> frame, part |-> 1]
            BY <1>3, <2>1, <2>3 DEF Written
        <3>2. toTablet'[s] = Append(toTablet[s], [frame |-> frame, part |-> 2])
            BY <1>6, <2>3 DEF Put, TabletTyped
        <3>2a. toTablet[s] \in Seq(AnswerPiece)
            BY DEF TabletTyped
        <3>3. Paired(toTablet'[s]) /\ Len(toTablet'[s]) = 2 * (k + 1)
            BY <1>4, <3>1, <3>2, <3>2a, SecondPut
        <3>4. k + 1 \in Nat
            OBVIOUS
        <3> QED
            BY <2>2, <3>3, <3>4 DEF Written
    <2>4. CASE s # u
        BY <1>3, <1>6, <2>1, <2>2, <2>4 DEF Written, TabletTyped
    <2> QED
        BY <2>3, <2>4
<1>7. CASE /\ lock \in {t, Nobody} /\ lock' = Nobody
           /\ torn' = [torn EXCEPT ![u] = @ \/ lock = t]
           /\ UNCHANGED toTablet
    <2>1. ~HalfWritten(s)'
        BY <1>7 DEF HalfWritten
    <2>2. ~HalfWritten(s)
        <3>1. CASE lock = Nobody
            BY <3>1 DEF HalfWritten
        <3>2. CASE lock = t
            <4>1. torn'[u]
                BY <1>7, <3>2 DEF SocketsTyped
            <4> QED
                BY <4>1, <3>2 DEF HalfWritten
        <3> QED
            BY <1>7, <3>1, <3>2
    <2> QED
        BY <1>3, <1>7, <2>1, <2>2 DEF Written
<1> QED
    BY <1>5, <1>6, <1>7, WriteSteps

LEMMA TabletStreamKept ==
    ASSUME LoopsRight, LockRight, ConnectionRight, SocketsTyped, TabletTyped, Blank, TabletStream, [Next]_vars
    PROVE  TabletStream'
<1> USE DEF hostVars, tabletVars, streams, history
<1>1. CASE Establish
    <2> SUFFICES ASSUME NEW s \in Sessions, conn' = s, ~torn'[s] PROVE Written(s)'
        BY DEF TabletStream
    <2>1. s = session + 1 /\ s > session /\ s \in Threads /\ s # Nobody /\ session \in Nat
        BY <1>1, ChannelAssumption, LoopsAreThreads DEF Establish, LoopsRight
    <2>2. toTablet'[s] = <<>>
        BY <1>1, <2>1 DEF Establish, Blank
    <2>3. ~HalfWritten(s)'
        BY <1>1, <2>1 DEF Establish, Goto, HalfWritten, LoopsRight, LockRight, Blank
    <2>4. Len(<<>>) = 2 * 0 /\ Paired(<<>>)
        BY DEF Paired
    <2> QED
        BY <2>2, <2>3, <2>4 DEF Written
<1>2. CASE OtherEnds \/ Age \/ UNCHANGED vars
    <2>1. /\ UNCHANGED <<lock, toTablet, torn, conn, ending, message>>
          /\ UNCHANGED at \/ (at[Other] = "over" /\ Goto(Other, "end"))
        BY <1>2 DEF OtherEnds, Age, vars
    <2>2. lock # Nobody => at'[lock] = at[lock]
        BY <2>1 DEF Goto, LoopsRight, LockRight
    <2> QED
        BY <2>1, <2>2, QuietWriter
<1>3. CASE TabletSends \/ RestArrives \/ TabletDiscards
    BY <1>3, QuietWriter DEF TabletSends, RestArrives, TabletDiscards
<1>4. CASE TabletDrops
    BY <1>4, ChannelAssumption DEF TabletDrops, TabletStream, Sessions
<1>5. CASE TabletReads
    <2> SUFFICES ASSUME NEW s \in Sessions, conn' = s, ~torn'[s] PROVE Written(s)'
        BY DEF TabletStream
    <2> DEFINE q == toTablet[s]
    <2>1. /\ conn = s /\ ~torn[s] /\ Len(q) > 1 /\ q \in Seq(AnswerPiece)
          /\ toTablet'[s] = SubSeq(q, 3, Len(q))
          /\ UNCHANGED <<at, lock, ending, message>>
        BY <1>5 DEF TabletReads, TabletTyped
    <2>2. Written(s)
        BY <2>1 DEF TabletStream
    <2>3. HalfWritten(s)' = HalfWritten(s) /\ Underway' = Underway
        BY <2>1 DEF HalfWritten, Underway
    <2>4. /\ Paired(toTablet'[s]) /\ Len(toTablet'[s]) = Len(q) - 2
          /\ \A i \in 1 .. Len(q) - 2 : toTablet'[s][i] = q[i + 2]
        BY <2>1, <2>2, PairTaken DEF Written
    <2>5. PICK k \in Nat :
             IF HalfWritten(s) THEN Len(q) = 2 * k + 1 /\ q[2 * k + 1] = [frame |-> Underway, part |-> 1]
             ELSE Len(q) = 2 * k
        BY <2>2 DEF Written
    <2> DEFINE l == Len(q)
    <2> HIDE DEF l
    <2>6. PICK j \in Nat : k = j + 1
        <3>1. l = 2 * k \/ l = 2 * k + 1
            BY <2>5 DEF l
        <3>2. l > 1
            BY <2>1 DEF l
        <3>3. k - 1 \in Nat /\ k = (k - 1) + 1
            BY <3>1, <3>2
        <3> QED
            BY <3>3
    <2>7. CASE HalfWritten(s)
        <3>1. l = 2 * k + 1 /\ q[2 * k + 1] = [frame |-> Underway, part |-> 1]
            BY <2>5, <2>7 DEF l
        <3>2. l - 2 = 2 * j + 1 /\ 2 * j + 1 \in 1 .. l - 2 /\ 2 * j + 1 + 2 = 2 * k + 1
            BY <2>6, <3>1
        <3>3. toTablet'[s][2 * j + 1] = [frame |-> Underway, part |-> 1] /\ Len(toTablet'[s]) = 2 * j + 1
            BY <2>4, <3>1, <3>2 DEF l
        <3> QED
            BY <2>3, <2>4, <2>7, <3>3 DEF Written
    <2>8. CASE ~HalfWritten(s)
        <3>1. l - 2 = 2 * j
            BY <2>5, <2>6, <2>8 DEF l
        <3> QED
            BY <2>3, <2>4, <2>8, <3>1 DEF Written, l
    <2> QED
        BY <2>7, <2>8
<1>6. ASSUME NEW s \in Sessions, ControlLoop(s) PROVE TabletStream'
    <2>0. s \in Threads
        BY LoopsAreThreads
    <2>1. CASE Join(s) \/ Top(s) \/ Receive(s) \/ ReceiveTimesOut(s) \/ ReceiveClosed(s) \/ ConsumeClockSyncComplete(s)
        <3>1. at[s] \in {"join", "top", "read", "consume"} /\ UNCHANGED <<lock, toTablet, torn, conn, ending>>
            BY <2>1 DEF Join, Top, Receive, ReceiveTimesOut, ReceiveClosed, ConsumeClockSyncComplete
        <3>2. UNCHANGED at \/ \E place : Goto(s, place)
            BY <2>1 DEF Join, Top, Receive, ReceiveTimesOut, ReceiveClosed, ConsumeClockSyncComplete
        <3>3. UNCHANGED message \/ \E m : message' = [message EXCEPT ![s] = m]
            BY <2>1 DEF Join, Top, Receive, ReceiveTimesOut, ReceiveClosed, ConsumeClockSyncComplete
        <3>4. lock # s
            BY <2>0, <3>1, LoopsAreThreads DEF LockRight
        <3>5. lock # Nobody => at'[lock] = at[lock]
            BY <2>0, <3>2, <3>4 DEF Goto, LoopsRight, LockRight
        <3>6. lock \in Sessions => message'[lock] = message[lock]
            BY <3>3, <3>4 DEF LoopsRight
        <3> QED
            BY <3>1, <3>5, <3>6, QuietWriter
    <2>2. CASE Respond(s)
        BY <2>0, <2>2, TargetsRight, WriteInOrder DEF Respond
    <2>3. CASE RecordPendingClockSync(s)
        <3>1. lock = s /\ at[s] = "record" /\ lock' = Nobody /\ UNCHANGED <<toTablet, torn, conn>>
            BY <2>0, <2>3 DEF RecordPendingClockSync, LockRight
        <3>2. ASSUME NEW u \in Sessions PROVE ~HalfWritten(u) /\ ~HalfWritten(u)'
            BY <3>1 DEF HalfWritten
        <3> SUFFICES ASSUME NEW u \in Sessions, conn' = u, ~torn'[u] PROVE Written(u)'
            BY DEF TabletStream
        <3> QED
            BY <3>1, <3>2 DEF TabletStream, Written
    <2> QED
        BY <1>6, <2>1, <2>2, <2>3 DEF ControlLoop
<1>7. ASSUME NEW t \in Threads, EndSession(t) PROVE TabletStream'
    <2>1. CASE ClearPendingClockSync(t) \/ EndClaim(t) \/ EndClose(t)
        <3>1. at[t] \in {"end", "claim", "close"} /\ UNCHANGED <<lock, toTablet, torn, conn, message>>
            BY <2>1 DEF ClearPendingClockSync, EndClaim, EndClose
        <3>2. \E place : Goto(t, place)
            BY <2>1 DEF ClearPendingClockSync, EndClaim, EndClose
        <3>3. UNCHANGED ending \/ ending' = [ending EXCEPT ![t] = session]
            BY <2>1 DEF ClearPendingClockSync, EndClaim, EndClose
        <3>4. lock # t
            BY <3>1, LoopsAreThreads DEF LockRight
        <3>5. lock # Nobody => at'[lock] = at[lock] /\ ending'[lock] = ending[lock]
            BY <3>2, <3>3, <3>4 DEF Goto, LoopsRight, LockRight
        <3> QED
            BY <3>1, <3>5, QuietWriter
    <2>2. CASE WriteDisconnect(t)
        BY <2>2, TargetsRight, WriteInOrder DEF WriteDisconnect
    <2> QED
        BY <1>7, <2>1, <2>2 DEF EndSession
<1> QED
    BY <1>1, <1>2, <1>3, <1>4, <1>5, <1>6, <1>7 DEF Next, Tablet

LEMMA ReadsFramesKept ==
    ASSUME LoopsRight, ConnectionRight, SocketsTyped, TabletTyped, TabletStream, TabletReadsFrames, [Next]_vars
    PROVE  TabletReadsFrames'
<1> USE DEF hostVars, tabletVars, streams, history, TabletReadsFrames
<1>1. CASE TabletReads
    <2>1. conn \in Sessions
        BY <1>1, ChannelAssumption DEF TabletReads, ConnectionRight, LoopsRight, Sessions
    <2>2. toTablet[conn] \in Seq(AnswerPiece) /\ Len(toTablet[conn]) > 1
        BY <1>1, <2>1 DEF TabletReads, TabletTyped
    <2>3. ~torn[conn] => Decodes(SubSeq(toTablet[conn], 1, 2))
        BY <2>1, <2>2, PairTaken DEF TabletStream, Written
    <2> QED
        BY <1>1, <2>3 DEF TabletReads
<1>2. CASE Establish \/ OtherEnds \/ Age \/ UNCHANGED vars
    BY <1>2 DEF Establish, OtherEnds, Age, vars
<1>3. CASE TabletSends \/ RestArrives \/ TabletDiscards \/ TabletDrops
    BY <1>3 DEF TabletSends, RestArrives, TabletDiscards, TabletDrops
<1>4. ASSUME NEW s \in Sessions, ControlLoop(s) PROVE TabletReadsFrames'
    BY <1>4 DEF ControlLoop, Join, Top, Receive, ReceiveTimesOut, ReceiveClosed, Respond, WriteFrame,
                RecordPendingClockSync, ConsumeClockSyncComplete
<1>5. ASSUME NEW t \in Threads, EndSession(t) PROVE TabletReadsFrames'
    BY <1>5 DEF EndSession, ClearPendingClockSync, EndClaim, WriteDisconnect, WriteFrame, EndClose
<1> QED
    BY <1>1, <1>2, <1>3, <1>4, <1>5 DEF Next, Tablet
-----------------------------------------------------------------------------
(***************************************************************************)
(* The clock exchanges.                                                    *)
(***************************************************************************)

\* What a sequence has stays in its place when something is appended.
LEMMA AppendKeeps ==
    ASSUME NEW S, NEW q \in Seq(S), NEW e \in S, NEW i \in DOMAIN q
    PROVE  i \in DOMAIN Append(q, e) /\ Append(q, e)[i] = q[i]
<1>1. DOMAIN q = 1 .. Len(q) /\ Len(q) \in Nat
    BY LenProperties
<1>2. Append(q, e) \in Seq(S) /\ Len(Append(q, e)) = Len(q) + 1 /\ Append(q, e)[i] = q[i]
    BY <1>1, AppendProperties
<1>3. DOMAIN Append(q, e) = 1 .. Len(q) + 1
    BY <1>2, LenProperties
<1> QED
    BY <1>1, <1>2, <1>3

\* Nothing that was handed on is forgotten.
LEMMA HandledGrows ==
    ASSUME HostTyped, SocketsTyped, [Next]_vars
    PROVE  \A x \in Exchange :
              (\E i \in DOMAIN handled[x.session] : handled[x.session][i][1].frame.n = x.n)
              => \E i \in DOMAIN handled'[x.session] : handled'[x.session][i][1].frame.n = x.n
<1>1. CASE UNCHANGED handled
    BY <1>1
<1>2. ASSUME NEW s \in Sessions, Receive(s),
             NEW x \in Exchange, NEW i \in DOMAIN handled[x.session], handled[x.session][i][1].frame.n = x.n
      PROVE  \E j \in DOMAIN handled'[x.session] : handled'[x.session][j][1].frame.n = x.n
    <2>1. PICK r \in Reader : UNCHANGED handled \/ handled' = [handled EXCEPT ![s] = Append(@, r.got)]
        BY <1>2, ReceiveSteps
    <2>2. x.session \in Sessions /\ r.got \in Seq(Piece)
        BY DEF Exchange, Reader
    <2>3. \/ handled'[x.session] = handled[x.session]
          \/ handled'[x.session] = Append(handled[x.session], r.got)
        BY <2>1, <2>2 DEF HostTyped
    <2>4. handled[x.session] \in Seq(Seq(Piece))
        BY <2>2 DEF HostTyped
    <2>5. /\ i \in DOMAIN Append(handled[x.session], r.got)
          /\ Append(handled[x.session], r.got)[i] = handled[x.session][i]
        BY <1>2, <2>2, <2>4, AppendKeeps
    <2>6. i \in DOMAIN handled'[x.session] /\ handled'[x.session][i] = handled[x.session][i]
        BY <1>2, <2>3, <2>5
    <2> QED
        BY <1>2, <2>6
<1> QED
    BY <1>1, <1>2, HandedInSteps

LEMMA SamplesAreExchanges ==
    ASSUME ExchangesRight
    PROVE  \A i \in DOMAIN samples : samples[i].exchange \in Exchange
<1> SUFFICES ASSUME NEW i \in DOMAIN samples PROVE samples[i].exchange \in Exchange
    OBVIOUS
<1>1. samples[i] \in [loop : Sessions, exchange : Exchange]
    BY ElementOfSeq, LenProperties DEF ExchangesRight
<1> QED
    BY <1>1

\* Steps that take no part in an exchange.
LEMMA QuietExchange ==
    ASSUME ExchangesRight, HostTyped, SocketsTyped, [Next]_vars, UNCHANGED <<samples, message>>,
           \/ pending' \in {pending, None}
           \/ pending # None /\ pending' = [pending EXCEPT !.late = TRUE],
           \A s \in Sessions : at'[s] \in {"respond", "record"} => at[s] \in {"respond", "record"},
           LoopsRight
    PROVE  ExchangesRight'
<1>1. \A i \in DOMAIN samples : samples[i].exchange \in Exchange
    BY SamplesAreExchanges
<1>2. (\A i \in DOMAIN samples : WasHandled(samples[i].exchange))'
    BY <1>1, HandledGrows DEF ExchangesRight, WasHandled
<1>3. pending' \in Pending \cup {None}
    BY DEF ExchangesRight, Pending
<1>4. pending' # None => /\ pending # None /\ pending'.exchange = pending.exchange
                         /\ pending'.generation = pending.generation
                         /\ pending'.consumed = pending.consumed /\ pending.exchange \in Exchange
    BY DEF ExchangesRight, Pending
<1>5. pending' # None => /\ pending'.exchange.session = pending'.generation /\ WasHandled(pending.exchange)
                         /\ (~pending'.consumed => ~Sampled(pending.exchange))
    BY <1>4 DEF ExchangesRight
<1>6. (pending # None => /\ pending.exchange.session = pending.generation /\ WasHandled(pending.exchange)
                         /\ (~pending.consumed => ~Sampled(pending.exchange)))'
    <2> SUFFICES ASSUME pending' # None
                 PROVE  /\ pending'.exchange.session = pending'.generation
                        /\ \E i \in DOMAIN handled'[pending'.exchange.session] :
                              handled'[pending'.exchange.session][i][1].frame.n = pending'.exchange.n
                        /\ ~pending'.consumed => ~\E i \in DOMAIN samples : samples[i].exchange = pending'.exchange
        BY DEF WasHandled, Sampled
    <2>1. PICK x \in Exchange : x = pending.exchange /\ x = pending'.exchange
        BY <1>4
    <2>2. WasHandled(x) /\ (~pending'.consumed => ~Sampled(x)) /\ x.session = pending'.generation
        BY <1>5, <2>1
    <2>3. \E i \in DOMAIN handled'[x.session] : handled'[x.session][i][1].frame.n = x.n
        BY <2>2, HandledGrows DEF WasHandled
    <2> QED
        BY <2>1, <2>2, <2>3 DEF Sampled
<1>7. ASSUME NEW s \in Sessions, at'[s] \in {"respond", "record"}
      PROVE  (WasHandled([session |-> s, n |-> message[s].n]) /\ ~Sampled([session |-> s, n |-> message[s].n]))'
    <2> DEFINE x == [session |-> s, n |-> message[s].n]
    <2>1. x \in Exchange
        BY <1>7 DEF LoopsRight, Message, Exchange
    <2>2. WasHandled(x) /\ ~Sampled(x)
        BY <1>7 DEF ExchangesRight
    <2>3. x.session = s /\ x.n = message[s].n
        OBVIOUS
    <2>4. \E i \in DOMAIN handled'[s] : handled'[s][i][1].frame.n = message[s].n
        BY <2>1, <2>2, <2>3, HandledGrows DEF WasHandled
    <2> QED
        BY <2>2, <2>4 DEF WasHandled, Sampled
<1> QED
    BY <1>2, <1>3, <1>6, <1>7 DEF ExchangesRight

\* A request that arrives was never handed on before, so it was never sampled.
LEMMA ReceivedExchange ==
    ASSUME LoopsRight, HostTyped, SocketsTyped, HostStream, ExchangesRight, [Next]_vars,
           NEW s \in Sessions, Receive(s)
    PROVE  ExchangesRight'
<1>1. PICK r \in Reader :
         /\ r.got = Append(reader[s].got, Head(toHost[s]))
         /\ \/ UNCHANGED <<at, message, handled>>
            \/ /\ Decodes(r.got)
               /\ message' = [message EXCEPT ![s] = r.got[1].frame]
               /\ handled' = [handled EXCEPT ![s] = Append(@, r.got)]
               /\ \E place \in {"respond", "consume"} : Goto(s, place)
            \/ Goto(s, "end") /\ UNCHANGED <<message, handled>>
    BY ReceiveSteps
<1>2. /\ open[s] /\ toHost[s] # <<>> /\ UNCHANGED <<samples, pending>>
      /\ s \in Threads
    BY LoopsAreThreads DEF Receive
<1>3. CASE (UNCHANGED at \/ Goto(s, "end")) /\ UNCHANGED <<message, handled>>
    <2>1. \A u \in Sessions : at'[u] \in {"respond", "record"} => at[u] \in {"respond", "record"}
        BY <1>2, <1>3, LoopsAreThreads DEF Goto, LoopsRight
    <2> QED
        BY <1>2, <1>3, <2>1, QuietExchange
<1>4. CASE /\ Decodes(r.got)
           /\ message' = [message EXCEPT ![s] = r.got[1].frame]
           /\ handled' = [handled EXCEPT ![s] = Append(@, r.got)]
           /\ \E place \in {"respond", "consume"} : Goto(s, place)
    <2> DEFINE f == r.got[1].frame
               l == Len(handled[s])
    <2>1. PICK b \in Nat : DealtWith(s, b)
        BY <1>2 DEF HostStream
    <2>2. f.n \in Nat /\ b = 2 * f.n
        BY <1>1, <1>2, <1>4, <2>1, HandedOn
    <2>3. \A i \in DOMAIN handled[s] : handled[s][i][1].frame.n # f.n
        <3> TAKE i \in DOMAIN handled[s]
        <3>1. 2 * handled[s][i][1].frame.n + 2 <= b
            BY <2>1 DEF DealtWith
        <3> QED
            BY <2>2, <3>1
    <2>4. /\ l \in Nat /\ DOMAIN handled'[s] = 1 .. l + 1 /\ handled'[s][l + 1] = r.got
        <3>1. r.got \in Seq(Piece) /\ handled'[s] = Append(handled[s], r.got)
            BY <1>4 DEF Reader, HostTyped
        <3> QED
            BY <3>1, HostLengths, AppendProperties, LenProperties DEF HostTyped
    <2>5. message'[s] = f /\ \A u \in Sessions \ {s} : message'[u] = message[u] /\ at'[u] = at[u]
        BY <1>2, <1>4, LoopsAreThreads DEF LoopsRight, Goto
    <2>6. \A i \in DOMAIN samples : samples[i].exchange \in Exchange
        BY SamplesAreExchanges
    <2>7. (\A i \in DOMAIN samples : WasHandled(samples[i].exchange))'
        BY ZenonT(30), <1>2, <2>6, HandledGrows DEF ExchangesRight, WasHandled
    <2>8. (pending # None => /\ pending.exchange.session = pending.generation /\ WasHandled(pending.exchange)
                             /\ (~pending.consumed => ~Sampled(pending.exchange)))'
        <3>1. pending # None => /\ pending.exchange \in Exchange /\ WasHandled(pending.exchange)
                                /\ pending.exchange.session = pending.generation
                                /\ (~pending.consumed => ~Sampled(pending.exchange))
            BY DEF ExchangesRight, Pending
        <3> QED
            BY <1>2, <3>1, HandledGrows DEF WasHandled, Sampled
    <2>9. ASSUME NEW u \in Sessions, at'[u] \in {"respond", "record"}
          PROVE  (WasHandled([session |-> u, n |-> message[u].n]) /\ ~Sampled([session |-> u, n |-> message[u].n]))'
        <3>1. CASE u = s
            <4>1. \E i \in DOMAIN handled'[u] : handled'[u][i][1].frame.n = message'[u].n
                <5>1. l + 1 \in DOMAIN handled'[s] /\ handled'[s][l + 1][1].frame.n = message'[s].n
                    BY <2>4, <2>5
                <5> QED
                    BY <3>1, <5>1
            <4>2. ASSUME NEW i \in DOMAIN samples, samples[i].exchange = [session |-> u, n |-> message'[u].n]
                  PROVE  FALSE
                <5>1. samples[i].exchange.session = s /\ samples[i].exchange.n = f.n
                    BY <2>5, <3>1, <4>2
                <5>2. WasHandled(samples[i].exchange)
                    BY DEF ExchangesRight
                <5> QED
                    BY <2>3, <5>1, <5>2 DEF WasHandled
            <4> QED
                BY <1>2, <4>1, <4>2 DEF WasHandled, Sampled
        <3>2. CASE u # s
            <4> DEFINE x == [session |-> u, n |-> message[u].n]
            <4>1. at[u] \in {"respond", "record"} /\ message'[u] = message[u]
                BY <2>5, <2>9, <3>2
            <4>2. x \in Exchange /\ x.session = u /\ x.n = message[u].n
                BY <4>1 DEF LoopsRight, Message, Exchange
            <4>3. WasHandled(x) /\ ~Sampled(x)
                BY <4>1 DEF ExchangesRight
            <4>3a. \E i \in DOMAIN handled[x.session] : handled[x.session][i][1].frame.n = x.n
                BY <4>3 DEF WasHandled
            <4>3b. \E i \in DOMAIN handled'[x.session] : handled'[x.session][i][1].frame.n = x.n
                BY <4>2, <4>3a, HandledGrows
            <4>4. \E i \in DOMAIN handled'[u] : handled'[u][i][1].frame.n = message'[u].n
                BY <4>1, <4>2, <4>3b
            <4> QED
                BY <1>2, <4>1, <4>3, <4>4 DEF WasHandled, Sampled
        <3> QED
            BY <3>1, <3>2
    <2>10. samples' \in Seq([loop : Sessions, exchange : Exchange]) /\ pending' \in Pending \cup {None}
        BY <1>2 DEF ExchangesRight
    <2> QED
        BY <2>7, <2>8, <2>9, <2>10 DEF ExchangesRight
<1> QED
    BY <1>1, <1>3, <1>4

\* The answered request becomes the pending exchange.
LEMMA RecordedExchange ==
    ASSUME LoopsRight, HostTyped, ExchangesRight, NEW s \in Sessions, RecordPendingClockSync(s)
    PROVE  ExchangesRight'
<1> DEFINE x == [session |-> s, n |-> message[s].n]
<1>1. /\ pending' = [exchange |-> x, generation |-> s, late |-> FALSE, consumed |-> FALSE]
      /\ UNCHANGED <<samples, message, handled>> /\ at[s] = "record" /\ Goto(s, "top") /\ s \in Threads
    BY LoopsAreThreads DEF RecordPendingClockSync, history
<1>2. x \in Exchange /\ x.session = s
    BY <1>1 DEF LoopsRight, Message, Exchange
<1>3. WasHandled(x) /\ ~Sampled(x)
    BY <1>1 DEF ExchangesRight
<1>4. \A u \in Sessions : at'[u] \in {"respond", "record"} => at[u] \in {"respond", "record"}
    BY <1>1, LoopsAreThreads DEF Goto, LoopsRight
<1> HIDE DEF x
<1>5. pending' \in Pending
    BY <1>1, <1>2 DEF Pending
<1>6. /\ pending'.exchange = x /\ pending'.generation = s
    BY <1>1
<1>7. (pending # None => /\ pending.exchange.session = pending.generation /\ WasHandled(pending.exchange)
                         /\ (~pending.consumed => ~Sampled(pending.exchange)))'
    BY <1>1, <1>2, <1>3, <1>6 DEF WasHandled, Sampled
<1>8. (\A i \in DOMAIN samples : WasHandled(samples[i].exchange))'
    BY <1>1 DEF ExchangesRight, WasHandled
<1>9. ASSUME NEW u \in Sessions, at'[u] \in {"respond", "record"}
      PROVE  (WasHandled([session |-> u, n |-> message[u].n]) /\ ~Sampled([session |-> u, n |-> message[u].n]))'
    <2>1. WasHandled([session |-> u, n |-> message[u].n]) /\ ~Sampled([session |-> u, n |-> message[u].n])
        BY <1>4, <1>9 DEF ExchangesRight
    <2> QED
        BY <1>1, <2>1 DEF WasHandled, Sampled
<1> QED
    BY <1>1, <1>5, <1>7, <1>8, <1>9 DEF ExchangesRight

\* A completion makes a sample of the pending exchange, and marks it.
LEMMA ConsumedExchange ==
    ASSUME LoopsRight, HostTyped, SocketsTyped, ExchangesRight, SamplesGenuine, [Next]_vars,
           NEW s \in Sessions, ConsumeClockSyncComplete(s)
    PROVE  ExchangesRight' /\ SamplesGenuine'
<1> DEFINE accepted == /\ Ours(s) /\ ~pending.late
                       /\ pending.exchange = message[s].completes /\ ~pending.consumed
<1>1. /\ pending' = IF Ours(s) /\ pending.late THEN None
                    ELSE IF accepted THEN [pending EXCEPT !.consumed = TRUE] ELSE pending
      /\ samples' = IF accepted THEN Append(samples, [loop |-> s, exchange |-> message[s].completes]) ELSE samples
      /\ UNCHANGED <<message, handled>> /\ at[s] = "consume" /\ Goto(s, "top") /\ s \in Threads
    BY LoopsAreThreads DEF ConsumeClockSyncComplete
<1>2. \A u \in Sessions : at'[u] \in {"respond", "record"} => at[u] \in {"respond", "record"} /\ u # s
    BY <1>1, LoopsAreThreads DEF Goto, LoopsRight
<1>3. CASE ~accepted
    <2>1. UNCHANGED samples /\ pending' \in {pending, None}
        BY <1>1, <1>3
    <2>2. ExchangesRight'
        BY <1>1, <1>2, <2>1, QuietExchange
    <2> QED
        BY <2>1, <2>2 DEF SamplesGenuine
<1>4. CASE accepted
    <2>1. pending # None /\ pending \in Pending /\ ~pending.late /\ ~pending.consumed /\ pending.generation = s
        BY <1>4 DEF Ours, ExchangesRight
    <2>2. PICK x \in Exchange : x = pending.exchange /\ x = message[s].completes /\ x.session = s
        BY <1>4, <2>1 DEF Pending, ExchangesRight
    <2>3. WasHandled(x) /\ ~Sampled(x)
        BY <2>1, <2>2 DEF ExchangesRight
    <2>4. pending' = [pending EXCEPT !.consumed = TRUE]
        BY <1>1, <1>4, <2>1
    <2>5. /\ pending' \in Pending /\ pending'.exchange = x /\ pending'.generation = s /\ pending'.consumed
        BY <2>1, <2>2, <2>4 DEF Pending
    <2> DEFINE e == [loop |-> s, exchange |-> x]
               n == Len(samples)
    <2>6. e \in [loop : Sessions, exchange : Exchange] /\ samples' = Append(samples, e)
        BY <1>1, <1>4, <2>2
    <2>7. /\ n \in Nat /\ DOMAIN samples = 1 .. n /\ DOMAIN samples' = 1 .. n + 1
          /\ \A i \in 1 .. n : samples'[i] = samples[i]
          /\ samples'[n + 1] = e /\ samples' \in Seq([loop : Sessions, exchange : Exchange])
        BY <2>6, AppendProperties, LenProperties DEF ExchangesRight
    <2> HIDE DEF n
    <2>8. \A i \in DOMAIN samples' : (i \in DOMAIN samples /\ samples'[i] = samples[i]) \/ samples'[i] = e
        BY <2>7
    <2>9. ExchangesRight'
        <3>1. (\A i \in DOMAIN samples : WasHandled(samples[i].exchange))'
            <4> SUFFICES ASSUME NEW i \in DOMAIN samples'
                         PROVE  \E j \in DOMAIN handled[samples'[i].exchange.session] :
                                   handled[samples'[i].exchange.session][j][1].frame.n = samples'[i].exchange.n
                BY <1>1 DEF WasHandled
            <4>1. WasHandled(samples'[i].exchange)
                <5>1. CASE i \in DOMAIN samples /\ samples'[i] = samples[i]
                    BY <5>1, Zenon DEF ExchangesRight
                <5>2. CASE samples'[i] = e
                    BY <2>3, <5>2
                <5> QED
                    BY <2>8, <5>1, <5>2, Zenon
            <4> QED
                BY <4>1, Zenon DEF WasHandled
        <3>2. (pending # None => /\ pending.exchange.session = pending.generation /\ WasHandled(pending.exchange)
                                 /\ (~pending.consumed => ~Sampled(pending.exchange)))'
            BY <1>1, <2>2, <2>3, <2>5 DEF WasHandled
        <3>3. ASSUME NEW u \in Sessions, at'[u] \in {"respond", "record"}
              PROVE  (WasHandled([session |-> u, n |-> message[u].n]) /\ ~Sampled([session |-> u, n |-> message[u].n]))'
            <4> DEFINE y == [session |-> u, n |-> message[u].n]
            <4>1. WasHandled(y) /\ ~Sampled(y) /\ y.session # s
                BY <1>2, <3>3 DEF ExchangesRight
            <4> HIDE DEF y
            <4>2. ~\E i \in DOMAIN samples' : samples'[i].exchange = y
                <5> SUFFICES ASSUME NEW i \in DOMAIN samples', samples'[i].exchange = y PROVE FALSE
                    OBVIOUS
                <5>1. CASE i \in DOMAIN samples /\ samples'[i] = samples[i]
                    BY <4>1, <5>1 DEF Sampled
                <5>2. CASE samples'[i] = e
                    BY <2>2, <4>1, <5>2
                <5> QED
                    BY <2>8, <5>1, <5>2
            <4> QED
                BY <1>1, <4>1, <4>2 DEF WasHandled, Sampled, y
        <3> QED
            BY <2>5, <2>7, <3>1, <3>2, <3>3 DEF ExchangesRight
    <2>10. SamplesGenuine'
        <3>1. \A i \in DOMAIN samples' : samples'[i].loop = samples'[i].exchange.session
            BY <2>2, <2>8 DEF SamplesGenuine
        <3>2. ASSUME NEW i \in DOMAIN samples', NEW j \in DOMAIN samples', samples'[i].exchange = samples'[j].exchange
              PROVE  i = j
            <4>1. (i \in 1 .. n \/ i = n + 1) /\ (j \in 1 .. n \/ j = n + 1)
                BY <2>7
            <4>2. \A k \in 1 .. n : samples[k].exchange # x
                BY <2>3, <2>7 DEF Sampled
            <4>3. \A k \in 1 .. n : samples'[k].exchange # x
                BY <2>7, <4>2
            <4>4. samples'[n + 1].exchange = x
                BY <2>7
            <4> QED
                BY <2>7, <3>2, <4>1, <4>3, <4>4 DEF SamplesGenuine
        <3> QED
            BY <3>1, <3>2 DEF SamplesGenuine
    <2> QED
        BY <2>9, <2>10
<1> QED
    BY <1>3, <1>4

LEMMA ExchangesKept ==
    ASSUME LoopsRight, LockRight, SocketsTyped, HostTyped, HostStream, ExchangesRight, SamplesGenuine, Blank,
           [Next]_vars
    PROVE  ExchangesRight' /\ SamplesGenuine'
<1> USE DEF hostVars, tabletVars, streams, history
<1> DEFINE Quiet == /\ UNCHANGED <<samples, message>>
                    /\ \/ pending' \in {pending, None}
                       \/ pending # None /\ pending' = [pending EXCEPT !.late = TRUE]
                    /\ \A s \in Sessions : at'[s] \in {"respond", "record"} => at[s] \in {"respond", "record"}
<1>1. Quiet => ExchangesRight' /\ SamplesGenuine'
    <2> SUFFICES ASSUME Quiet PROVE ExchangesRight' /\ SamplesGenuine'
        OBVIOUS
    <2>1. ExchangesRight'
        BY QuietExchange
    <2> QED
        BY <2>1 DEF SamplesGenuine
<1>2. CASE Establish
    <2>1. session + 1 \in Sessions /\ session + 1 \in Threads
        BY <1>2, ChannelAssumption, LoopsAreThreads DEF Establish, Sessions, LoopsRight
    <2> QED
        BY <1>1, <1>2, <2>1, LoopsAreThreads DEF Establish, Goto, LoopsRight
<1>3. CASE OtherEnds \/ Age \/ Tablet \/ UNCHANGED vars
    <2>1. UNCHANGED at \/ Goto(Other, "end")
        BY <1>3 DEF OtherEnds, Age, Tablet, TabletSends, RestArrives, TabletDiscards, TabletReads, TabletDrops, vars
    <2>2. \A s \in Sessions : at'[s] = at[s]
        BY <2>1, LoopsAreThreads DEF Goto, LoopsRight
    <2>3. /\ UNCHANGED <<samples, message>>
          /\ pending' = pending \/ (pending # None /\ pending' = [pending EXCEPT !.late = TRUE])
        BY <1>3 DEF OtherEnds, Age, Tablet, TabletSends, RestArrives, TabletDiscards, TabletReads, TabletDrops, vars
    <2> QED
        BY <1>1, <2>2, <2>3
<1>4. ASSUME NEW s \in Sessions, ControlLoop(s) PROVE ExchangesRight' /\ SamplesGenuine'
    <2>0. s \in Threads
        BY LoopsAreThreads
    <2>1. CASE Receive(s)
        <3>1. ExchangesRight' /\ UNCHANGED samples
            BY <2>1, ReceivedExchange DEF Receive
        <3> QED
            BY <3>1 DEF SamplesGenuine
    <2>2. CASE RecordPendingClockSync(s)
        <3>1. ExchangesRight' /\ UNCHANGED samples
            BY <2>2, RecordedExchange DEF RecordPendingClockSync
        <3> QED
            BY <3>1 DEF SamplesGenuine
    <2>3. CASE ConsumeClockSyncComplete(s)
        BY <2>3, ConsumedExchange
    <2>4. CASE Join(s) \/ Top(s) \/ ReceiveTimesOut(s) \/ ReceiveClosed(s)
        <3>1. \E place \in {"top", "read", "over", "end"} : Goto(s, place)
            BY <2>4 DEF Join, Top, ReceiveTimesOut, ReceiveClosed, OnceClosed
        <3>2. UNCHANGED <<samples, message, pending>>
            BY <2>4 DEF Join, Top, ReceiveTimesOut, ReceiveClosed
        <3> QED
            BY <1>1, <2>0, <3>1, <3>2, LoopsAreThreads DEF Goto, LoopsRight
    <2>5. CASE Respond(s)
        <3>1. UNCHANGED at \/ \E place \in {"record", "end"} : Goto(s, place)
            BY <2>0, <2>5, WriteSteps DEF Respond
        <3>2. UNCHANGED <<samples, message, pending>> /\ at[s] = "respond"
            BY <2>5 DEF Respond, WriteFrame
        <3> QED
            BY <1>1, <2>0, <3>1, <3>2, LoopsAreThreads DEF Goto, LoopsRight
    <2> QED
        BY <1>4, <2>1, <2>2, <2>3, <2>4, <2>5 DEF ControlLoop
<1>5. ASSUME NEW t \in Threads, EndSession(t) PROVE ExchangesRight' /\ SamplesGenuine'
    <2>1. UNCHANGED at \/ \E place \in {"claim", "goodbye", "over", "close"} : Goto(t, place)
        BY <1>5, WriteSteps DEF EndSession, ClearPendingClockSync, EndClaim, EndClose, WriteDisconnect
    <2>2. UNCHANGED <<samples, message>> /\ pending' \in {pending, None}
        BY <1>5 DEF EndSession, ClearPendingClockSync, EndClaim, EndClose, WriteDisconnect, WriteFrame
    <2> QED
        BY <1>1, <2>1, <2>2, LoopsAreThreads DEF Goto, LoopsRight
<1> QED
    BY <1>2, <1>3, <1>4, <1>5 DEF Next
-----------------------------------------------------------------------------
LEMMA ChannelKept == ChannelInv /\ [Next]_vars => ChannelInv'
<1> SUFFICES ASSUME ChannelInv, [Next]_vars PROVE ChannelInv'
    OBVIOUS
<1> USE DEF ChannelInv
<1>1. LoopsRight' /\ LockRight' /\ ConnectionRight' /\ SocketsTyped'
    BY LoopsKept, LockKept, ConnectionKept, SocketsKept
<1>2. HostTyped' /\ TabletTyped' /\ Blank'
    BY HostKept, TabletKept, BlankKept
<1>3. HostStream' /\ FramesHandledInOrder'
    BY HostStreamKept, FramesKept
<1>4. TabletStream' /\ TabletReadsFrames'
    BY TabletStreamKept, ReadsFramesKept
<1>5. ExchangesRight' /\ SamplesGenuine'
    BY ExchangesKept
<1> QED
    BY <1>1, <1>2, <1>3, <1>4, <1>5

\* The variables keep their ranges; the mutex is held by a thread that writes.
THEOREM ChannelTyped == Spec => []TypeOK
<1>1. ChannelInv => TypeOK
    <2> SUFFICES ASSUME ChannelInv PROVE TypeOK
        OBVIOUS
    <2>1. conn \in 0 .. MaxSessions
        BY ChannelAssumption DEF ChannelInv, ConnectionRight, LoopsRight
    <2>2. pending = None \/ pending.exchange \in Exchange
        BY DEF ChannelInv, ExchangesRight, Pending
    <2>3. lock # Nobody => at[lock] \in {"respond", "record", "goodbye"}
        BY DEF ChannelInv, LockRight
    <2> QED
        BY <2>1, <2>2, <2>3 DEF TypeOK, ChannelInv, LoopsRight, LockRight, ConnectionRight, HostTyped, Places
<1> QED
    BY <1>1, ChannelStarts, ChannelKept, PTL DEF Spec

\* ControlLoop is handed whole frames, as they were sent, at most once and in
\* order, and all of them unless a timeout struck within one; the tablet reads
\* nothing that is no frame unless a write timed out within one.
THEOREM StreamsSafety == Spec => []StreamsIntact
<1>1. ChannelInv => StreamsIntact
    BY DEF ChannelInv, StreamsIntact
<1> QED
    BY <1>1, ChannelStarts, ChannelKept, PTL DEF Spec

\* A clock sample belongs to a request that its own session answered, and no
\* request gives two, whatever an earlier loop left pending.
THEOREM SamplesSafety == Spec => []SamplesGenuine
<1>1. ChannelInv => SamplesGenuine
    BY DEF ChannelInv
<1> QED
    BY <1>1, ChannelStarts, ChannelKept, PTL DEF Spec
=============================================================================

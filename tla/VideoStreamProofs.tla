-------------------------- MODULE VideoStreamProofs --------------------------
(***************************************************************************)
(* Proofs about the video stream, for any sizes of the inbox, the codec's  *)
(* buffers and the sockets, and any number of incidents: the codec is      *)
(* never given a frame whose reference it lacks, nothing that is under way *)
(* is lost from the books of either end, and a request for an IDR is held  *)
(* back only while one is coming.  The last part is about the ladder of    *)
(* resolutions whose decisions VideoPipeline!Decided abstracts.            *)
(***************************************************************************)
EXTENDS VideoStream, TLAPS

(***************************************************************************)
(* The desktop's encoder.                                                  *)
(***************************************************************************)

\* An input is recorded while, and only while, the transform has one; what it
\* announces is the output of that input.
InFlightKnown(e) ==
    /\ e.pending = (e.async /\ e.input)
    /\ e.available => e.input
    /\ e.input => e.up /\ e.async

\* An encoder that has encoded nothing encodes an IDR next: it never sends an
\* inter frame whose reference belongs to an instance or a session before.
StartsWithIdr(e) == e.up /\ e.fresh => e.forced

HoldsForIdr(e) == e.resetPending => ~e.up \/ e.forced

EncoderRight(e) == e \in EncoderState /\ InFlightKnown(e) /\ StartsWithIdr(e) /\ HoldsForIdr(e)

\* What a call of the pipeline returns: it does not fail by itself, and its output
\* has its reference.
ResultOf(p) ==
    /\ EncoderRight(p.e)
    /\ \/ p.hr = "ok" /\ p.out \in {"idr", "inter"}
       \/ p.hr = "false" /\ p.out = NoFrame

\* A new instance is right, whatever the one before was.
LEMMA InitializeRight ==
    ASSUME NEW e \in EncoderState, NEW f \in Initialize(e), ~e.pending
    PROVE  EncoderRight(f) /\ f.async = e.async /\ ~f.pending /\ f.up /\ f.captured = e.captured
BY DEF Initialize, Shutdown, EncoderState, EncoderRight, InFlightKnown, StartsWithIdr, HoldsForIdr

\* So is one that has been reset, or whose reset failed, whatever it held for.
LEMMA ResetRight ==
    ASSUME NEW e \in EncoderState, InFlightKnown(e), NEW f \in ResetEncoder(e), e.up
    PROVE  EncoderRight(f) /\ f.async = e.async /\ ~f.pending /\ f.up /\ f.captured = e.captured
<1>1. CASE e.async
    <2> DEFINE clear == [e EXCEPT !.pending = FALSE]
    <2>1. clear \in EncoderState /\ ~clear.pending /\ clear.async = e.async /\ clear.captured = e.captured
        BY DEF EncoderRight, EncoderState
    <2>2. f \in Initialize(clear)
        BY <1>1 DEF ResetEncoder
    <2> HIDE DEF clear
    <2> QED
        BY <2>1, <2>2, InitializeRight
<1>2. CASE ~e.async
    <2>1. f = [[e EXCEPT !.pending = FALSE] EXCEPT !.forced = TRUE, !.fresh = TRUE]
        BY <1>2 DEF ResetEncoder
    <2> QED
        BY <1>2, <2>1 DEF EncoderState, EncoderRight, InFlightKnown, StartsWithIdr, HoldsForIdr
<1> QED
    BY <1>1, <1>2

LEMMA ResetFailsRight ==
    ASSUME NEW e \in EncoderState, InFlightKnown(e)
    PROVE  EncoderRight(ResetFails(e))
BY ZenonT(60) DEF ResetFails, Shutdown, EncoderState, EncoderRight, InFlightKnown, StartsWithIdr, HoldsForIdr

LEMMA DecidedRight ==
    ASSUME NEW e, EncoderRight(e), NEW f \in Decided(e)
    PROVE  EncoderRight(f) /\ f.up = e.up
BY DEF Decided, EncoderState, EncoderRight, InFlightKnown, StartsWithIdr, HoldsForIdr

\* An output that is completed has its reference, and ends the hold if it is an IDR.
LEMMA CompleteRight ==
    ASSUME NEW e \in EncoderState, e.pending, e.up, StartsWithIdr(e), HoldsForIdr(e), ~e.input, ~e.available
    PROVE  ResultOf(Complete(e, Output(e)))
<1> DEFINE out == Output(e)
<1>1. out \in {"idr", "inter"} /\ (e.forced => out = "idr")
    BY DEF Output, StartsWithIdr, EncoderState
<1> HIDE DEF out
<1> DEFINE done == [e EXCEPT !.pending = FALSE, !.forced = FALSE, !.fresh = FALSE,
                             !.resetPending = @ /\ out # "idr"]
<1>2. Complete(e, out) = [e |-> done, hr |-> "ok", out |-> out]
    BY DEF Complete, Result
<1>3. done \in EncoderState
    BY DEF EncoderState
<1>4. InFlightKnown(done) /\ StartsWithIdr(done)
    BY DEF EncoderState, InFlightKnown, StartsWithIdr
<1>5. HoldsForIdr(done)
    BY <1>1 DEF EncoderState, HoldsForIdr
<1>6. EncoderRight(done)
    BY <1>3, <1>4, <1>5 DEF EncoderRight
<1> HIDE DEF done
<1> QED
    BY <1>1, <1>2, <1>6 DEF ResultOf, out

\* Encode, Poll and EncodeLatest in turn.
LEMMA AsyncOutputRight ==
    ASSUME NEW e \in EncoderState, e.pending, e.input, e.async, e.up, StartsWithIdr(e), HoldsForIdr(e)
    PROVE  ResultOf(AsyncOutput(e))
<1> DEFINE used == [[e EXCEPT !.available = FALSE] EXCEPT !.input = FALSE]
<1>1. used \in EncoderState /\ used.pending /\ used.up /\ ~used.input /\ ~used.available
    BY DEF EncoderState
<1>2. StartsWithIdr(used) /\ HoldsForIdr(used)
    BY DEF EncoderState, StartsWithIdr, HoldsForIdr
<1>3. Output(used) = Output(e)
    BY DEF EncoderState, Output
<1>4. AsyncOutput(e) = Complete(used, Output(e))
    BY DEF AsyncOutput
<1> HIDE DEF used
<1> QED
    BY <1>1, <1>2, <1>3, <1>4, CompleteRight

LEMMA PollRight ==
    ASSUME NEW e, EncoderRight(e)
    PROVE  ResultOf(Poll(e))
<1>1. CASE e.up /\ e.async /\ e.available
    BY <1>1, AsyncOutputRight DEF Poll, EncoderRight, InFlightKnown
<1>2. CASE ~(e.up /\ e.async /\ e.available)
    BY <1>2 DEF Poll, Outcome, Result, ResultOf
<1> QED
    BY <1>1, <1>2

LEMMA EncodeRight ==
    ASSUME NEW e, EncoderRight(e), NEW p \in Encode(e)
    PROVE  ResultOf(p)
<1>1. CASE ~CanAcceptFrame(e)
    <2>1. p = [e |-> [e EXCEPT !.captured = TRUE], hr |-> "false", out |-> NoFrame]
        BY <1>1 DEF Encode, Retained, Outcome, Result
    <2>2. EncoderRight([e EXCEPT !.captured = TRUE])
        BY DEF EncoderState, EncoderRight, InFlightKnown, StartsWithIdr, HoldsForIdr
    <2> QED
        BY <2>1, <2>2 DEF ResultOf
<1>2. CASE CanAcceptFrame(e)
    <2>1. e.up /\ ~e.pending /\ ~e.input /\ ~e.available
        BY <1>2 DEF CanAcceptFrame, EncoderRight, InFlightKnown
    <2>2. CASE e.async
        <3> DEFINE taken == [e EXCEPT !.requested = FALSE, !.input = TRUE, !.pending = TRUE]
        <3>1. p = Outcome(taken, "false") \/ p = AsyncOutput(taken)
            BY <1>2, <2>1, <2>2 DEF Encode, AsyncEncode
        <3>2. EncoderRight(taken) /\ taken.pending /\ taken.input /\ taken.async /\ taken.up
            BY <2>1, <2>2 DEF EncoderState, EncoderRight, InFlightKnown, StartsWithIdr, HoldsForIdr
        <3> HIDE DEF taken
        <3>3. ResultOf(Outcome(taken, "false"))
            BY <3>2 DEF ResultOf, Outcome, Result
        <3>4. ResultOf(AsyncOutput(taken))
            BY <3>2, AsyncOutputRight DEF EncoderRight
        <3> QED
            BY <3>1, <3>3, <3>4
    <2>3. CASE ~e.async
        <3> DEFINE given == [e EXCEPT !.pending = TRUE]
        <3>1. Output(given) = Output(e)
            BY DEF EncoderRight, EncoderState, Output
        <3>2. p = Complete(given, Output(given))
            BY <1>2, <2>1, <2>3, <3>1 DEF Encode, SyncEncode
        <3>3. /\ given \in EncoderState /\ given.pending /\ given.up
              /\ ~given.input /\ ~given.available
              /\ StartsWithIdr(given) /\ HoldsForIdr(given)
            BY <2>1 DEF EncoderState, EncoderRight, StartsWithIdr, HoldsForIdr
        <3> HIDE DEF given
        <3> QED
            BY <3>2, <3>3, CompleteRight
    <2> QED
        BY <2>2, <2>3
<1> QED
    BY <1>1, <1>2

LEMMA PreparedRight ==
    ASSUME NEW e, EncoderRight(e), e.up => ~e.pending, NEW f \in Prepared(e)
    PROVE  EncoderRight(f) /\ f.captured = e.captured
<1>1. CASE ~e.up \/ e.resized
    <2>1. ~e.pending
        BY DEF EncoderRight, InFlightKnown
    <2>2. PICK g \in Initialize(e) : f = [g EXCEPT !.policyReset = FALSE, !.resized = FALSE, !.pending = FALSE]
        BY <1>1 DEF Prepared
    <2>3. EncoderRight(g) /\ ~g.pending /\ g.captured = e.captured
        BY <2>1, InitializeRight DEF EncoderRight
    <2> QED
        BY <2>2, <2>3 DEF EncoderState, EncoderRight, InFlightKnown, StartsWithIdr, HoldsForIdr
<1>2. CASE e.up /\ ~e.resized /\ e.policyReset
    <2>1. PICK g \in ResetEncoder(e) : f = [g EXCEPT !.policyReset = FALSE]
        BY <1>2 DEF Prepared
    <2>2. EncoderRight(g) /\ g.captured = e.captured
        BY <1>2, <2>1, ResetRight DEF EncoderRight
    <2> QED
        BY <2>1, <2>2 DEF EncoderState, EncoderRight, InFlightKnown, StartsWithIdr, HoldsForIdr
<1>3. CASE e.up /\ ~e.resized /\ ~e.policyReset
    BY <1>3 DEF Prepared
<1> QED
    BY <1>1, <1>2, <1>3 DEF EncoderRight, EncoderState

\* No call of the pipeline fails by itself, and what it returns is right.
LEMMA EncodeLatestRight ==
    ASSUME NEW e, EncoderRight(e), NEW p \in EncodeLatest(e)
    PROVE  ResultOf(p)
<1>1. ResultOf(Poll(e))
    BY PollRight
<1>2. CASE Poll(e).hr = "false" /\ (Poll(e).e.up => CanAcceptFrame(Poll(e).e))
    <2> DEFINE f == Poll(e).e
    <2>1. EncoderRight(f) /\ (f.up => CanAcceptFrame(f)) /\ p \in EncodeCaptured(f)
        BY <1>1, <1>2 DEF EncodeLatest, ResultOf
    <2> HIDE DEF f
    <2>2. CASE ~f.captured
        BY <2>1, <2>2 DEF EncodeCaptured, Outcome, Result, ResultOf
    <2>3. CASE f.captured
        <3> DEFINE popped == [f EXCEPT !.captured = FALSE]
        <3>1. EncoderRight(popped) /\ (popped.up => ~popped.pending)
            BY <2>1 DEF CanAcceptFrame, EncoderState, EncoderRight, InFlightKnown, StartsWithIdr, HoldsForIdr
        <3>2. PICK g \in Prepared(popped) : p \in Encode(g)
            BY <2>1, <2>3 DEF EncodeCaptured
        <3> HIDE DEF popped
        <3> QED
            BY <3>1, <3>2, PreparedRight, EncodeRight
    <2> QED
        BY <2>2, <2>3
<1>3. CASE ~(Poll(e).hr = "false" /\ (Poll(e).e.up => CanAcceptFrame(Poll(e).e)))
    BY <1>1, <1>3 DEF EncodeLatest
<1> QED
    BY <1>2, <1>3

LEMMA EncodeHinderedRight ==
    ASSUME NEW e, EncoderRight(e), NEW p \in EncodeHindered(e)
    PROVE  ResultOf(p)
<1>1. CASE e.up /\ e.async /\ e.available
    <2>1. p = [e |-> [e EXCEPT !.available = FALSE], hr |-> "false", out |-> NoFrame]
        BY <1>1 DEF EncodeHindered, NoOutput, Outcome, Result
    <2> QED
        BY <2>1 DEF ResultOf, EncoderState, EncoderRight, InFlightKnown, StartsWithIdr, HoldsForIdr
<1>2. CASE ~(e.up /\ e.async /\ e.available)
    <2>1. PICK f \in Prepared(e) :
             /\ CanAcceptFrame(f) /\ f.captured
             /\ p.e \in {[f EXCEPT !.captured = TRUE], [f EXCEPT !.captured = FALSE]}
             /\ p.hr = "false" /\ p.out = NoFrame
             /\ e.up => CanAcceptFrame(e)
        BY <1>2 DEF EncodeHindered, Retained, Outcome, Result
    <2>2. EncoderRight(f)
        BY <2>1, PreparedRight DEF CanAcceptFrame, EncoderRight, InFlightKnown
    <2>3. EncoderRight([f EXCEPT !.captured = TRUE]) /\ EncoderRight([f EXCEPT !.captured = FALSE])
        BY <2>2 DEF EncoderState, EncoderRight, InFlightKnown, StartsWithIdr, HoldsForIdr
    <2> QED
        BY <2>1, <2>3 DEF ResultOf
<1> QED
    BY <1>1, <1>2
-----------------------------------------------------------------------------
(***************************************************************************)
(* The tablet's decoder.                                                   *)
(***************************************************************************)

\* A codec that runs has the reference of the next inter frame, and an inter frame
\* waits for an input buffer only while it runs.
DecoderRight(d) ==
    /\ d \in DecoderState
    /\ ~d.garbled
    /\ d.phase = "RUNNING" => d.codec /\ ~d.missing
    /\ d.pending = "inter" => d.phase = "RUNNING"
    /\ d.pending # "stray"

\* A decoder without a codec keeps nothing.
Empty(d) == ~d.codec /\ d.pending = None

LEMMA RequestIdrOnceRight ==
    ASSUME NEW d, DecoderRight(d)
    PROVE  DecoderRight(RequestIdrOnce(d))
BY DEF RequestIdrOnce, DecoderRight, DecoderState

LEMMA CodecErrorStops ==
    ASSUME NEW d \in DecoderState
    PROVE  /\ CodecError(d) \in DecoderState
           /\ CodecError(d).phase # "RUNNING" /\ CodecError(d).garbled = d.garbled
           /\ CodecError(d).pending = d.pending
BY DEF CodecError, DecoderState, Phase

LEMMA ReleaseEmpties ==
    ASSUME NEW d \in DecoderState
    PROVE  /\ Release(d) \in DecoderState /\ Empty(Release(d))
           /\ Release(d).phase = d.phase /\ Release(d).garbled = d.garbled
<1>1. 0 \in 0 .. Slots
    BY DecoderAssumption
<1>2. Release(d) \in DecoderState
    BY <1>1 DEF Release, DecoderState
<1>3. Empty(Release(d)) /\ Release(d).phase = d.phase /\ Release(d).garbled = d.garbled
    BY DEF Release, DecoderState, Empty
<1> QED
    BY <1>2, <1>3

\* A codec is released only by a decoder that waits for an IDR, or is closed.
LEMMA ReleaseRight ==
    ASSUME NEW d, DecoderRight(d)
    PROVE  /\ DecoderRight(Release(CodecError(d)))
           /\ DecoderRight(CodecError([Release(d) EXCEPT !.configured = TRUE, !.idrRequested = FALSE]))
           /\ DecoderRight(Release([CodecError(d) EXCEPT !.idrRequested = FALSE]))
           /\ DecoderRight([Release(d) EXCEPT !.phase = "CLOSED"])
<1>1. \A g \in DecoderState : Empty(g) /\ ~g.garbled /\ g.phase # "RUNNING" => DecoderRight(g)
    BY DEF DecoderRight, Empty, None
<1>2. d \in DecoderState /\ ~d.garbled
    BY DEF DecoderRight
<1>3. DecoderRight(Release(CodecError(d)))
    BY <1>1, <1>2, CodecErrorStops, ReleaseEmpties
<1>4. DecoderRight(CodecError([Release(d) EXCEPT !.configured = TRUE, !.idrRequested = FALSE]))
    <2> DEFINE g == Release(d)
               h == [g EXCEPT !.configured = TRUE, !.idrRequested = FALSE]
    <2>1. g \in DecoderState /\ Empty(g) /\ ~g.garbled
        BY <1>2, ReleaseEmpties
    <2> HIDE DEF g
    <2>2. h \in DecoderState /\ Empty(h) /\ ~h.garbled
        BY <2>1 DEF DecoderState, Empty
    <2> HIDE DEF h
    <2>3. CodecError(h).codec = h.codec
        BY <2>2 DEF CodecError, DecoderState
    <2>4. DecoderRight(CodecError(h))
        BY <1>1, <2>2, <2>3, CodecErrorStops DEF Empty
    <2> QED
        BY <2>4 DEF g, h
<1>5. DecoderRight(Release([CodecError(d) EXCEPT !.idrRequested = FALSE]))
    <2> DEFINE g == CodecError(d)
               h == [g EXCEPT !.idrRequested = FALSE]
    <2>1. g \in DecoderState /\ ~g.garbled /\ g.phase # "RUNNING"
        BY <1>2, CodecErrorStops
    <2> HIDE DEF g
    <2>2. h \in DecoderState /\ ~h.garbled /\ h.phase # "RUNNING"
        BY <2>1 DEF DecoderState
    <2> HIDE DEF h
    <2>3. DecoderRight(Release(h))
        BY <1>1, <2>2, ReleaseEmpties
    <2> QED
        BY <2>3 DEF g, h
<1>6. DecoderRight([Release(d) EXCEPT !.phase = "CLOSED"])
    <2> DEFINE g == Release(d)
    <2>1. g \in DecoderState /\ Empty(g) /\ ~g.garbled
        BY <1>2, ReleaseEmpties
    <2> HIDE DEF g
    <2>2. DecoderRight([g EXCEPT !.phase = "CLOSED"])
        BY <2>1 DEF DecoderState, Empty, DecoderRight, Phase, None
    <2> QED
        BY <2>2 DEF g
<1> QED
    BY <1>3, <1>4, <1>5, <1>6

LEMMA CreateCodecRight ==
    ASSUME NEW d, DecoderRight(d), NEW works \in BOOLEAN
    PROVE  DecoderRight(CreateCodec(d, works))
<1>1. CASE ~d.configured
    BY <1>1 DEF CreateCodec
<1>2. CASE d.configured /\ works
    BY <1>2 DEF CreateCodec, DecoderRight, DecoderState
<1>3. CASE d.configured /\ ~works
    <2>1. CreateCodec(d, works) = RequestIdrOnce(Release(CodecError(d)))
        BY <1>3 DEF CreateCodec
    <2> QED
        BY <2>1, ReleaseRight, RequestIdrOnceRight
<1> QED
    BY <1>1, <1>2, <1>3 DEF DecoderRight, DecoderState

LEMMA HandleCodecErrorRight ==
    ASSUME NEW d, DecoderRight(d), NEW works \in BOOLEAN
    PROVE  DecoderRight(HandleCodecError(d, works))
BY ReleaseRight, CreateCodecRight, RequestIdrOnceRight DEF HandleCodecError

\* A loss in the inbox makes the decoder wait for an IDR before it is known to lack
\* its reference; hole and dropped come together while the decoder is open.
LEMMA RecoveredRight ==
    ASSUME NEW d, DecoderRight(d), NEW hole \in BOOLEAN, NEW dropped \in BOOLEAN, hole => dropped,
           d.pending = None
    PROVE  DecoderRight(Recovered(d, hole, dropped)) /\ Recovered(d, hole, dropped).pending = None
<1> USE DEF DecoderRight, DecoderState, Recovered, RecoverReferences, RequestIdrOnce, CodecError, Phase, None, Frame
<1>1. CASE dropped
    BY <1>1
<1>2. CASE ~dropped
    BY <1>2
<1> QED
    BY <1>1, <1>2

LEMMA RevivedRight ==
    ASSUME NEW d, DecoderRight(d), d.pending = None, NEW f, NEW works \in BOOLEAN
    PROVE  DecoderRight(Revived(d, f, works)) /\ Revived(d, f, works).pending = None
<1>1. CreateCodec(d, works).pending = None
    BY DEF CreateCodec, RequestIdrOnce, Release, CodecError, DecoderRight, DecoderState
<1> QED
    BY <1>1, CreateCodecRight DEF Revived

LEMMA AdmittedRight ==
    ASSUME NEW d, DecoderRight(d), d.pending = None, NEW f \in {"idr", "inter"}
    PROVE  DecoderRight(Admitted(d, f))
<1>1. CASE d.codec /\ AcceptFrame(d, f)
    BY <1>1 DEF Admitted, AcceptFrame, DecoderRight, DecoderState, Frame
<1>2. CASE ~(d.codec /\ AcceptFrame(d, f))
    <2>1. d.phase # "RUNNING"
        BY <1>2 DEF AcceptFrame, DecoderRight
    <2>2. DecoderRight([d EXCEPT !.missing = TRUE])
        BY <2>1 DEF DecoderRight, DecoderState
    <2> QED
        BY <1>2, <2>2, RequestIdrOnceRight DEF Admitted
<1> QED
    BY <1>1, <1>2

\* The codec takes an IDR, or an inter frame whose reference it has.
LEMMA DrainRight ==
    ASSUME NEW d, DecoderRight(d)
    PROVE  DecoderRight(Drain(d))
<1>1. CASE Drains(d)
    <2>1. d.pending \in {"idr", "inter"} /\ d.codec /\ d.inputs \in 1 .. Slots
        BY <1>1, DecoderAssumption DEF Drains, DecoderRight, DecoderState, Frame, None
    <2>2. CASE d.pending = "idr"
        <3> DEFINE g == FrameQueued(d)
        <3>1. g.inputs \in 0 .. Slots /\ g.pending = None
            BY <2>1, DecoderAssumption DEF FrameQueued, DecoderRight, DecoderState
        <3>2. g \in DecoderState
            BY ZenonT(30), <2>2, <3>1 DEF FrameQueued, DecoderRight, DecoderState, Phase
        <3>3. ~g.garbled /\ (g.phase = "RUNNING" => g.codec /\ ~g.missing)
            BY <2>1, <2>2 DEF FrameQueued, DecoderRight, DecoderState, Phase
        <3> QED
            BY <1>1, <3>1, <3>2, <3>3 DEF Drain, DecoderRight, None
    <2>3. CASE d.pending = "inter"
        <3> DEFINE g == FrameQueued(d)
        <3>1. g.inputs \in 0 .. Slots /\ g.pending = None
            BY <2>1, DecoderAssumption DEF FrameQueued, DecoderRight, DecoderState
        <3>2. g \in DecoderState
            BY <2>3, <3>1 DEF FrameQueued, DecoderRight, DecoderState, Phase
        <3>3. ~g.garbled /\ (g.phase = "RUNNING" => g.codec /\ ~g.missing)
            BY <2>1, <2>3 DEF FrameQueued, DecoderRight, DecoderState, Phase
        <3> QED
            BY <1>1, <3>1, <3>2, <3>3 DEF Drain, DecoderRight, None
    <2> QED
        BY <2>1, <2>2, <2>3
<1>2. CASE ~Drains(d)
    BY <1>2 DEF Drain
<1> QED
    BY <1>1, <1>2
-----------------------------------------------------------------------------
(***************************************************************************)
(* The stream.                                                             *)
(***************************************************************************)

\* Frames that have a reference, or need none.
Encoded == {"idr", "inter"}

\* The desktop's end, up to the sockets.
DesktopRight ==
    /\ EncoderRight(enc)
    /\ writer \in Encoded \cup {NoFrame} /\ notified \in BOOLEAN
    /\ wire \in Seq(Encoded) /\ Len(wire) <= WireCapacity
    /\ screen \in BOOLEAN

InboxTyped ==
    /\ inbox \in [frames : Seq(Encoded), scheduled : BOOLEAN, dropped : BOOLEAN, hole : BOOLEAN]
    /\ Len(inbox.frames) <= InboxCapacity

\* The handler learns of what the inbox threw away, unless it is closed.
DropsKnown == closed = "no" => (inbox.hole => inbox.dropped)

ClosedEmpties ==
    /\ closed # "no" => inbox.frames = <<>>
    /\ closed = "done" => Empty(dec)

\* The tablet's end.
TabletRight ==
    /\ DecoderRight(dec)
    /\ InboxTyped
    /\ tasks \in Nat /\ busy \in BOOLEAN /\ requests \in Nat
    /\ closed \in {"no", "posted", "done"}
    /\ DropsKnown
    /\ OneDeliveryTask
    /\ ClosedEmpties

\* Every configuration after the first takes an incident.
Budget ==
    /\ incidents \in 0 .. MaxIncidents
    /\ configs \in Nat /\ configs <= 1 + incidents

StreamInv == DesktopRight /\ TabletRight /\ Budget

\* Init establishes the invariant.
LEMMA StreamStarts == Init => StreamInv
<1> SUFFICES ASSUME Init PROVE StreamInv
    OBVIOUS
<1>1. DesktopRight
    <2>1. PICK async \in BOOLEAN :
             enc = [async |-> async, up |-> FALSE, requested |-> FALSE,
                    available |-> FALSE, input |-> FALSE, pending |-> FALSE,
                    captured |-> FALSE, resetPending |-> FALSE,
                    policyReset |-> FALSE, resized |-> FALSE, forced |-> FALSE, fresh |-> TRUE]
        BY DEF Init, PipelineInit
    <2>2. EncoderRight(enc)
        BY <2>1 DEF EncoderRight, EncoderState, InFlightKnown, StartsWithIdr, HoldsForIdr
    <2>3. wire = <<>> /\ wire \in Seq(Encoded) /\ Len(wire) = 0
        BY DEF Init, PipelineInit
    <2>4. writer = NoFrame /\ notified = FALSE /\ screen = TRUE
        BY DEF Init, PipelineInit
    <2>5. Len(wire) <= WireCapacity
        BY <2>3, PipelineAssumption
    <2> QED
        BY <2>2, <2>3, <2>4, <2>5 DEF DesktopRight
<1>2. TabletRight
    <2> USE DEF Init, DecoderInit
    <2>1. dec \in DecoderState
        BY DecoderAssumption DEF DecoderState, Phase, Frame
    <2>2. DecoderRight(dec)
        BY <2>1 DEF DecoderRight, None
    <2>3. InboxTyped
        BY DecoderAssumption DEF InboxTyped
    <2>4. DropsKnown /\ OneDeliveryTask /\ ClosedEmpties
        BY DEF DropsKnown, OneDeliveryTask, ClosedEmpties
    <2> QED
        BY <2>2, <2>3, <2>4 DEF TabletRight
<1>3. Budget
    BY IncidentsAssumption DEF Init, DecoderInit, Budget
<1> QED
    BY <1>1, <1>2, <1>3 DEF StreamInv

\* Congestion, or a request of the tablet's, leaves the encoder right.
LEMMA NotifyRight ==
    ASSUME NEW e, EncoderRight(e), NEW f \in Notify(e) \cup NotifyHindered(e)
    PROVE  EncoderRight(f)
<1> DEFINE held == [e EXCEPT !.resetPending = TRUE]
<1>1. held \in EncoderState /\ InFlightKnown(held) /\ StartsWithIdr(held) /\ held.up = e.up
      /\ held.forced = e.forced
    BY DEF EncoderRight, EncoderState, InFlightKnown, StartsWithIdr
<1>2. CASE e.resetPending \/ ~e.up
    <2>1. EncoderRight(held)
        BY <1>1, <1>2 DEF EncoderRight, HoldsForIdr
    <2>2. f = held \/ \E d \in Decided(held) : IF d.up THEN f \in ResetEncoder(d) \cup {ResetFails(d)} ELSE f = d
        BY <1>2 DEF Notify, NotifyHindered
    <2> HIDE DEF held
    <2> QED
        BY <2>1, <2>2, DecidedRight, ResetRight, ResetFailsRight DEF EncoderRight
<1>3. CASE ~e.resetPending /\ e.up
    <2>1. \/ f \in ResetEncoder(held)
          \/ f = ResetFails(held)
          \/ \E g \in ResetEncoder(held) : f \in Decided(g)
        BY <1>3 DEF Notify, NotifyHindered
    <2> HIDE DEF held
    <2> QED
        BY ZenonT(30), <1>1, <1>3, <2>1, DecidedRight, ResetRight, ResetFailsRight
<1> QED
    BY <1>2, <1>3

\* A round of VideoLoop hands on only frames that have their reference.
LEMMA IterationRight ==
    ASSUME DesktopRight, NEW first \in BOOLEAN, NEW second \in BOOLEAN, NEW decides \in BOOLEAN,
           Iteration(first, second, decides)
    PROVE  DesktopRight'
<1>1. \A e, p : \A hindered \in BOOLEAN : EncoderRight(e) /\ p \in Encodes(e, hindered) => ResultOf(p)
    BY EncodeLatestRight, EncodeHinderedRight DEF Encodes
<1>2. \A p : ResultOf(p) /\ p.hr = "ok" /\ Sends(p, decides)
               => EncoderRight(enc') /\ writer' \in Encoded
    BY DecidedRight DEF Sends, ResultOf, Encoded
<1>3. UNCHANGED <<notified, wire>>
    BY DEF Iteration
<1>4. PICK p \in Encodes(enc, first) :
       \/ p.hr = "ok" /\ Sends(p, decides) /\ UNCHANGED screen
       \/ p.hr = "false" /\ enc' = p.e /\ UNCHANGED <<writer, screen>>
       \/ /\ p.hr = "false" /\ screen' = FALSE
          /\ \E q \in Encodes(Captured(p.e), second) :
             \/ q.hr = "ok" /\ Sends(q, decides)
             \/ q.hr = "false" /\ enc' = q.e /\ UNCHANGED writer
    BY DEF Iteration
<1>5. EncoderRight(enc) /\ ResultOf(p)
    BY <1>1, <1>4 DEF DesktopRight
<1>6. CASE p.hr = "ok" /\ Sends(p, decides) /\ UNCHANGED screen
    BY <1>2, <1>3, <1>5, <1>6 DEF DesktopRight
<1>7. CASE p.hr = "false" /\ enc' = p.e /\ UNCHANGED <<writer, screen>>
    BY <1>3, <1>5, <1>7 DEF DesktopRight, ResultOf
<1>8. CASE /\ p.hr = "false" /\ screen' = FALSE
           /\ \E q \in Encodes(Captured(p.e), second) :
              \/ q.hr = "ok" /\ Sends(q, decides)
              \/ q.hr = "false" /\ enc' = q.e /\ UNCHANGED writer
    <2>1. EncoderRight(Captured(p.e))
        BY <1>5 DEF Captured, ResultOf, EncoderState, EncoderRight, InFlightKnown, StartsWithIdr, HoldsForIdr
    <2>2. PICK q \in Encodes(Captured(p.e), second) :
              \/ q.hr = "ok" /\ Sends(q, decides)
              \/ q.hr = "false" /\ enc' = q.e /\ UNCHANGED writer
        BY <1>8
    <2>3. ResultOf(q)
        BY <1>1, <2>1, <2>2
    <2> QED
        BY <1>2, <1>3, <1>8, <2>2, <2>3 DEF DesktopRight, ResultOf
<1> QED
    BY <1>4, <1>6, <1>7, <1>8

\* The desktop's end keeps itself, and leaves the tablet's alone.
LEMMA DesktopKeeps ==
    ASSUME DesktopRight, Desktop \/ External
    PROVE  DesktopRight'
<1>1. CASE VideoLoop \/ VideoLoopHindered
    BY <1>1, IterationRight DEF VideoLoop, VideoLoopHindered
<1>2. CASE Write
    <2>1. writer \in Encoded /\ wire' = Append(wire, writer) /\ Len(wire) < WireCapacity
        BY <1>2 DEF Write, DesktopRight
    <2>2. wire' \in Seq(Encoded) /\ Len(wire') <= WireCapacity
        BY <2>1, PipelineAssumption DEF DesktopRight
    <2> QED
        BY <1>2, <2>2 DEF Write, DesktopRight
<1>3. CASE WouldBlock
    BY <1>3, NotifyRight DEF WouldBlock, DesktopRight
<1>4. CASE MftNeedsInput \/ MftHasOutput \/ KeyFrameDue
    <2>1. EncoderRight(enc')
        BY <1>4 DEF MftNeedsInput, MftHasOutput, KeyFrameDue, DesktopRight, EncoderState, EncoderRight,
                    InFlightKnown, StartsWithIdr, HoldsForIdr
    <2> QED
        BY <1>4, <2>1 DEF MftNeedsInput, MftHasOutput, KeyFrameDue, DesktopRight
<1>5. CASE ScreenChanges
    BY <1>5 DEF ScreenChanges, DesktopRight
<1> QED
    BY <1>1, <1>2, <1>3, <1>4, <1>5 DEF Desktop, External

\* What a task has made of the decoder, and its request for an IDR.
LEMMA BecomesRight ==
    ASSUME NEW d, DecoderRight(d), Becomes(d), requests \in Nat
    PROVE  DecoderRight(dec') /\ requests' \in Nat
<1>1. DecoderRight([d EXCEPT !.asked = FALSE])
    BY DEF DecoderRight, DecoderState
<1>2. d.asked \in BOOLEAN
    BY DEF DecoderRight, DecoderState
<1> QED
    BY <1>1, <1>2 DEF Becomes

\* The network thread's offer.
LEMMA OfferKeeps ==
    ASSUME TabletRight, NEW f \in Encoded, Offer(f)
    PROVE  TabletRight'
<1>1. CASE closed # "no"
    BY <1>1 DEF Offer, TabletRight, InboxTyped, DropsKnown, OneDeliveryTask, ClosedEmpties
<1>2. CASE closed = "no"
    <2> DEFINE room == IF Full THEN Overflowed ELSE inbox
    <2>1. /\ room \in [frames : Seq(Encoded), scheduled : BOOLEAN, dropped : BOOLEAN, hole : BOOLEAN]
          /\ Len(room.frames) < InboxCapacity
          /\ room.hole => room.dropped
        <3>1. CASE Full
            <4>1. room = [inbox EXCEPT !.frames = <<>>, !.dropped = TRUE, !.hole = TRUE]
                BY <3>1 DEF Overflowed
            <4>2. <<>> \in Seq(Encoded) /\ Len(<<>>) < InboxCapacity
                BY DecoderAssumption
            <4>3. inbox \in [frames : Seq(Encoded), scheduled : BOOLEAN, dropped : BOOLEAN, hole : BOOLEAN]
                BY DEF TabletRight, InboxTyped
            <4> HIDE DEF room
            <4>4. room \in [frames : Seq(Encoded), scheduled : BOOLEAN, dropped : BOOLEAN, hole : BOOLEAN]
                BY <4>1, <4>2, <4>3
            <4>5. room.frames = <<>> /\ room.dropped
                BY <4>1, <4>3
            <4> QED
                BY <4>2, <4>4, <4>5
        <3>2. CASE ~Full
            BY <1>2, <3>2, DecoderAssumption DEF TabletRight, InboxTyped, Full, DropsKnown
        <3> QED
            BY <3>1, <3>2
    <2>2. inbox' = [room EXCEPT !.frames = Append(@, f), !.scheduled = TRUE]
          /\ tasks' = tasks + (IF inbox.scheduled THEN 0 ELSE 1)
          /\ UNCHANGED <<busy, dec, configs, requests, closed>>
        BY <1>2 DEF Offer
    <2> HIDE DEF room
    <2>3. /\ Append(room.frames, f) \in Seq(Encoded)
          /\ Len(Append(room.frames, f)) <= InboxCapacity
        BY <2>1, DecoderAssumption
    <2>4. InboxTyped' /\ DropsKnown' /\ inbox'.scheduled
        BY <2>1, <2>2, <2>3 DEF InboxTyped, DropsKnown
    <2>5. tasks' \in Nat /\ OneDeliveryTask'
        BY <1>2, <2>2, <2>4 DEF TabletRight, InboxTyped, OneDeliveryTask
    <2> QED
        BY <1>2, <2>2, <2>4, <2>5 DEF TabletRight, ClosedEmpties
<1> QED
    BY <1>1, <1>2

\* deliverNextOnThread: what the inbox lost is known before the next frame is
\* looked at, so that a frame without its reference is not admitted.
LEMMA DeliverKeeps ==
    ASSUME TabletRight, DeliverTask
    PROVE  TabletRight'
<1>1. tasks > 0 /\ tasks' = tasks - 1 /\ busy = FALSE /\ busy' = (closed = "no") /\ closed # "done"
      /\ UNCHANGED <<configs, closed>>
    BY DEF DeliverTask, Idle, TabletRight
<1>2. CASE closed # "no" \/ inbox.frames = <<>>
    <2>1. UNCHANGED <<inbox, dec, requests>>
        BY <1>2 DEF DeliverTask
    <2>2. tasks' \in Nat
        BY <1>1 DEF TabletRight
    <2>3. OneDeliveryTask'
        <3>1. CASE closed # "no"
            BY <1>1, <3>1 DEF OneDeliveryTask
        <3>2. CASE closed = "no"
            <4>1. busy' = TRUE /\ inbox.frames = <<>>
                BY <1>1, <1>2, <3>2
            <4>2. tasks = 1 /\ inbox.scheduled
                BY <1>1, <3>2 DEF TabletRight, OneDeliveryTask
            <4> QED
                BY <1>1, <2>1, <4>1, <4>2 DEF OneDeliveryTask
        <3> QED
            BY <3>1, <3>2
    <2>4. InboxTyped' /\ DropsKnown' /\ ClosedEmpties'
        BY <1>1, <2>1 DEF TabletRight, InboxTyped, DropsKnown, ClosedEmpties
    <2>5. DecoderRight(dec') /\ requests' \in Nat /\ busy' \in BOOLEAN /\ closed' \in {"no", "posted", "done"}
        BY <1>1, <2>1 DEF TabletRight
    <2> QED
        BY <2>2, <2>3, <2>4, <2>5 DEF TabletRight
<1>3. CASE closed = "no" /\ inbox.frames # <<>>
    <2> DEFINE f == Head(inbox.frames)
               ready == Recovered(dec, inbox.hole, inbox.dropped)
    <2>1. PICK works \in BOOLEAN : \E queues \in BOOLEAN :
             LET d == Admitted(Revived(ready, f, works), f)
                 fails == Drains(d) /\ ~queues
             IN  Becomes(IF fails THEN HandleCodecError(d, works) ELSE Drain(d))
        BY <1>3 DEF DeliverTask
    <2>2. inbox' = Taken
        BY <1>3 DEF DeliverTask
    <2>3. f \in Encoded /\ Tail(inbox.frames) \in Seq(Encoded)
          /\ Len(Tail(inbox.frames)) <= InboxCapacity
        BY <1>3, DecoderAssumption DEF TabletRight, InboxTyped
    <2>4. InboxTyped' /\ DropsKnown'
        BY <2>2, <2>3 DEF Taken, TabletRight, InboxTyped, DropsKnown
    <2>5. DecoderRight(dec) /\ dec.pending = None /\ inbox.hole \in BOOLEAN /\ inbox.dropped \in BOOLEAN
          /\ (inbox.hole => inbox.dropped)
        BY <1>3 DEF DeliverTask, TabletRight, InboxTyped, DropsKnown
    <2>6. DecoderRight(ready) /\ ready.pending = None
        BY <2>5, RecoveredRight
    <2> HIDE DEF ready
    <2> DEFINE d == Admitted(Revived(ready, f, works), f)
    <2>7. DecoderRight(d)
        BY <2>3, <2>6, RevivedRight, AdmittedRight DEF Encoded
    <2>8. Becomes(HandleCodecError(d, works)) \/ Becomes(Drain(d))
        BY <2>1
    <2> HIDE DEF d
    <2>9. DecoderRight(dec') /\ requests' \in Nat
        BY <2>7, <2>8, HandleCodecErrorRight, DrainRight, BecomesRight DEF TabletRight
    <2>10. inbox'.scheduled = inbox.scheduled
        BY <2>2 DEF Taken, TabletRight, InboxTyped
    <2>11. tasks' \in Nat /\ OneDeliveryTask'
        BY <1>1, <1>3, <2>10 DEF TabletRight, InboxTyped, OneDeliveryTask
    <2> QED
        BY <1>1, <1>3, <2>4, <2>9, <2>11 DEF TabletRight, ClosedEmpties
<1> QED
    BY <1>2, <1>3

\* configureOnThread, whether the codec can be created or not.
LEMMA ConfigureKeeps ==
    ASSUME TabletRight, ConfigureTask
    PROVE  TabletRight' /\ closed # "done"
<1>1. UNCHANGED <<inbox, tasks, busy, closed>> /\ closed # "done"
    BY DEF ConfigureTask, Idle
<1>2. DecoderRight(dec') /\ requests' \in Nat
    <2>1. CASE closed # "no"
        BY <2>1 DEF ConfigureTask, TabletRight
    <2>2. CASE closed = "no"
        <3> DEFINE bare == CodecError([Release(dec) EXCEPT !.configured = TRUE, !.idrRequested = FALSE])
        <3>1. PICK works \in BOOLEAN : Becomes(RequestIdrOnce(CreateCodec(bare, works)))
            BY <2>2 DEF ConfigureTask
        <3>2. DecoderRight(bare)
            BY ReleaseRight DEF TabletRight
        <3> HIDE DEF bare
        <3>3. DecoderRight(RequestIdrOnce(CreateCodec(bare, works)))
            BY <3>2, CreateCodecRight, RequestIdrOnceRight
        <3> QED
            BY <3>1, <3>3, BecomesRight DEF TabletRight
    <2> QED
        BY <2>1, <2>2
<1> QED
    BY <1>1, <1>2 DEF TabletRight, InboxTyped, DropsKnown, OneDeliveryTask, ClosedEmpties

\* finishDelivery posts the next task if frames came meanwhile.
LEMMA FinishKeeps ==
    ASSUME TabletRight, DeliverFinish
    PROVE  TabletRight'
<1>1. /\ busy = TRUE /\ busy' = FALSE
      /\ inbox' = [inbox EXCEPT !.scheduled = inbox.frames # <<>>]
      /\ tasks' = tasks + (IF inbox.frames # <<>> THEN 1 ELSE 0)
      /\ UNCHANGED <<dec, requests, closed>>
    BY DEF DeliverFinish, TabletRight
<1>2. inbox'.frames = inbox.frames /\ inbox'.scheduled = (inbox.frames # <<>>)
    BY <1>1 DEF TabletRight, InboxTyped
<1>3. tasks' \in Nat
    BY <1>1 DEF TabletRight
<1>4. OneDeliveryTask'
    <2> SUFFICES ASSUME closed = "no" PROVE OneDeliveryTask'
        BY <1>1 DEF OneDeliveryTask
    <2>1. tasks = 0
        BY <1>1 DEF TabletRight, OneDeliveryTask
    <2>2. CASE inbox.frames = <<>>
        <3>1. tasks' = 0 /\ busy' = FALSE
            BY <1>1, <2>1, <2>2
        <3>2. inbox'.frames = <<>> /\ ~inbox'.scheduled
            BY <1>2, <2>2
        <3> QED
            BY <3>1, <3>2 DEF OneDeliveryTask
    <2>3. CASE inbox.frames # <<>>
        <3>1. tasks' = 1 /\ busy' = FALSE
            BY <1>1, <2>1, <2>3
        <3>2. inbox'.scheduled
            BY <1>2, <2>3
        <3> QED
            BY <3>1, <3>2 DEF OneDeliveryTask
    <2> QED
        BY <2>2, <2>3
<1>5. InboxTyped' /\ DropsKnown' /\ ClosedEmpties'
    BY <1>1 DEF TabletRight, InboxTyped, DropsKnown, ClosedEmpties
<1> QED
    BY <1>1, <1>3, <1>4, <1>5 DEF TabletRight

\* The codec's callbacks.
LEMMA CallbackKeeps ==
    ASSUME TabletRight, InputBufferAvailable \/ CodecFails
    PROVE  TabletRight'
<1>1. UNCHANGED <<inbox, tasks, busy, closed>> /\ closed = "no"
    BY DEF InputBufferAvailable, CodecFails
<1>2. \A d : \A works \in BOOLEAN :
        DecoderRight(d) /\ (Becomes(Drain(d)) \/ Becomes(HandleCodecError(d, works)))
            => DecoderRight(dec') /\ requests' \in Nat
    BY DrainRight, HandleCodecErrorRight, BecomesRight DEF TabletRight
<1>3. DecoderRight(dec') /\ requests' \in Nat
    <2>1. CASE InputBufferAvailable
        <3> DEFINE d == [dec EXCEPT !.inputs = @ + 1]
        <3>1. dec \in DecoderState /\ dec.inputs + 1 \in 0 .. Slots
            BY <2>1, DecoderAssumption DEF InputBufferAvailable, TabletRight, DecoderRight, DecoderState
        <3>2. DecoderRight(d)
            BY <3>1 DEF TabletRight, DecoderRight, DecoderState
        <3>3. Becomes(Drain(d)) \/ \E works \in BOOLEAN : Becomes(HandleCodecError(d, works))
            BY <2>1 DEF InputBufferAvailable
        <3> HIDE DEF d
        <3> QED
            BY <1>2, <3>2, <3>3
    <2>2. CASE CodecFails
        BY <1>2, <2>2 DEF CodecFails, TabletRight
    <2> QED
        BY <2>1, <2>2
<1> QED
    BY <1>1, <1>3 DEF TabletRight, InboxTyped, DropsKnown, OneDeliveryTask, ClosedEmpties

\* close, and the task it posts.
LEMMA CloseKeeps ==
    ASSUME TabletRight, Close \/ CloseTask
    PROVE  TabletRight'
<1>1. CASE Close
    <2>1. /\ inbox' = [frames |-> <<>>, scheduled |-> FALSE, dropped |-> FALSE, hole |-> TRUE]
          /\ closed' = "posted" /\ UNCHANGED <<tasks, busy, dec, requests>>
        BY <1>1 DEF Close
    <2>2. InboxTyped'
        BY <2>1, DecoderAssumption DEF InboxTyped
    <2> QED
        BY <2>1, <2>2 DEF TabletRight, DropsKnown, OneDeliveryTask, ClosedEmpties
<1>2. CASE CloseTask
    <2>1. /\ closed = "posted" /\ closed' = "done"
          /\ dec' = [Release(dec) EXCEPT !.phase = "CLOSED"]
          /\ UNCHANGED <<inbox, tasks, busy, requests>>
        BY <1>2 DEF CloseTask
    <2>2. DecoderRight(dec')
        BY <2>1, ReleaseRight DEF TabletRight
    <2>3. Empty(dec')
        <3> DEFINE g == Release(dec)
        <3>1. g \in DecoderState /\ Empty(g)
            BY ReleaseEmpties DEF TabletRight, DecoderRight
        <3> HIDE DEF g
        <3>2. Empty([g EXCEPT !.phase = "CLOSED"])
            BY <3>1 DEF DecoderState, Empty
        <3> QED
            BY <2>1, <3>2 DEF g
    <2> QED
        BY <2>1, <2>2, <2>3 DEF TabletRight, InboxTyped, DropsKnown, OneDeliveryTask, ClosedEmpties
<1> QED
    BY <1>1, <1>2

\* A new session begins with an encoder that is not there, and with empty sockets.
LEMMA SessionStartsRight ==
    ASSUME DesktopRight, NewSession
    PROVE  DesktopRight'
<1>1. EncoderRight(enc')
    BY ZenonT(60) DEF NewSession, Shutdown, DesktopRight, EncoderState, EncoderRight,
                      InFlightKnown, StartsWithIdr, HoldsForIdr
<1>2. wire' = <<>> /\ wire' \in Seq(Encoded) /\ Len(wire') = 0
    BY DEF NewSession
<1>3. Len(wire') <= WireCapacity
    BY <1>2, PipelineAssumption
<1> QED
    BY <1>1, <1>2, <1>3 DEF NewSession, DesktopRight

LEMMA PostKeeps ==
    ASSUME TabletRight, PostConfigure, requests' \in Nat
    PROVE  TabletRight'
BY DEF PostConfigure, TabletRight, InboxTyped, DropsKnown, OneDeliveryTask, ClosedEmpties

\* Only an incident brings another configuration.
LEMMA BudgetKept ==
    ASSUME Budget, [Next]_vars
    PROVE  Budget'
<1> USE IncidentsAssumption
<1>1. incidents' = incidents \/ (incidents < MaxIncidents /\ incidents' = incidents + 1)
    BY DEF Next, Desktop, External, Tablet, Receive, ServeRequest, Reconnect, Rotate, vars,
           VideoLoop, VideoLoopHindered, Write, WouldBlock, MftNeedsInput, MftHasOutput, KeyFrameDue,
           ScreenChanges, HandlerTask, ConfigureTask, DeliverTask, DeliverFinish, InputBufferAvailable,
           CodecFails, CloseTask, Close, Offer, HandleRequestIdr, Incident, Smooth
<1>2. \/ configs' = configs
      \/ configs > 0 /\ configs' = configs - 1
      \/ configs' = configs + 1 /\ incidents' = incidents + 1
    BY DEF Next, Desktop, External, Tablet, Receive, ServeRequest, Reconnect, Rotate, vars, decoderVars,
           HandlerTask, ConfigureTask, DeliverTask, DeliverFinish, InputBufferAvailable,
           CodecFails, CloseTask, Close, Offer, PostConfigure, Incident
<1> QED
    BY <1>1, <1>2 DEF Budget

\* Every step keeps the invariant.
LEMMA StreamKept == StreamInv /\ [Next]_vars => StreamInv'
<1> SUFFICES ASSUME StreamInv, [Next]_vars PROVE DesktopRight' /\ TabletRight'
    BY BudgetKept DEF StreamInv
<1> USE DEF StreamInv
<1>1. pipelineVars' = pipelineVars => DesktopRight'
    BY DEF pipelineVars, DesktopRight
<1>2. decoderVars' = decoderVars => TabletRight'
    BY DEF decoderVars, TabletRight, InboxTyped, DropsKnown, OneDeliveryTask, ClosedEmpties
<1>3. CASE Desktop \/ External
    BY <1>2, <1>3, DesktopKeeps DEF Desktop, External
<1>4. CASE Tablet
    BY <1>1, <1>4, ConfigureKeeps, DeliverKeeps, FinishKeeps, CallbackKeeps, CloseKeeps DEF Tablet, HandlerTask
<1>5. CASE Receive
    <2>1. Head(wire) \in Encoded /\ Tail(wire) \in Seq(Encoded) /\ Len(Tail(wire)) <= WireCapacity
        BY <1>5, PipelineAssumption DEF Receive, DesktopRight
    <2>2. TabletRight'
        BY <1>5, <2>1, OfferKeeps DEF Receive
    <2> QED
        BY <1>5, <2>1, <2>2 DEF Receive, DesktopRight
<1>6. CASE ServeRequest
    <2>1. DesktopRight'
        BY <1>6, NotifyRight DEF ServeRequest, HandleRequestIdr, DesktopRight
    <2>2. requests' \in Nat
        BY <1>6 DEF ServeRequest, TabletRight
    <2> QED
        BY <1>6, <2>1, <2>2
        DEF ServeRequest, TabletRight, InboxTyped, DropsKnown, OneDeliveryTask, ClosedEmpties
<1>7. CASE Reconnect
    BY <1>7, SessionStartsRight, PostKeeps DEF Reconnect
<1>8. CASE Rotate
    BY <1>1, <1>8, PostKeeps DEF Rotate, TabletRight
<1>9. CASE UNCHANGED vars
    BY <1>1, <1>2, <1>9 DEF vars
<1> QED
    BY <1>3, <1>4, <1>5, <1>6, <1>7, <1>8, <1>9 DEF Next
-----------------------------------------------------------------------------
\* The variables keep their ranges: no inbox or socket outgrows its capacity, and
\* the commands in the handler's queue are bounded by the incidents.
THEOREM StreamTyped == Spec => []TypeOK
<1>1. StreamInv => TypeOK
    <2> SUFFICES ASSUME StreamInv PROVE TypeOK
        OBVIOUS
    <2>1. Encoded \subseteq Sent /\ Sent = Frame
        BY DEF Encoded, Sent, Frame
    <2>2. \A s \in Seq(Encoded) : s \in Seq(Sent)
        BY <2>1
    <2>3. wire \in Seq(Sent) /\ inbox.frames \in Seq(Frame)
        BY <2>1, <2>2 DEF StreamInv, DesktopRight, TabletRight, InboxTyped
    <2>4. configs \in 0 .. 1 + MaxIncidents
        BY IncidentsAssumption DEF StreamInv, Budget
    <2> QED
        BY <2>1, <2>3, <2>4 DEF StreamInv, DesktopRight, EncoderRight, TabletRight, DecoderRight, InboxTyped, TypeOK
<1> QED
    BY <1>1, StreamStarts, StreamKept, PTL DEF Spec

\* AvcDecoder with DecoderRecoveryState and VideoFrameInbox: whatever overflows,
\* fails, is rotated, reconnected or closed, and in whatever order the handler's
\* tasks run, the codec is never given an inter frame without its reference.
THEOREM PictureSafety == Spec => []NeverGarbled
<1>1. StreamInv => NeverGarbled
    BY DEF StreamInv, TabletRight, DecoderRight, NeverGarbled
<1> QED
    BY <1>1, StreamStarts, StreamKept, PTL DEF Spec

\* The two ends' books: one delivery task while frames wait (VideoFrameInbox), the
\* pipeline's record of the input being encoded agrees with the transform
\* (PendingEncodeTelemetryState), and a closed decoder keeps nothing.
THEOREM BooksSafety == Spec => []WorkAccountedFor
<1>1. StreamInv => WorkAccountedFor
    <2> SUFFICES ASSUME StreamInv PROVE WorkAccountedFor
        OBVIOUS
    <2>1. EncodeInFlightAgrees
        BY EncodeLatestRight
        DEF StreamInv, DesktopRight, EncoderRight, InFlightKnown, ResultOf, EncodeInFlightAgrees
    <2>2. ClosedKeepsNothing
        BY DEF StreamInv, TabletRight, ClosedEmpties, Empty, ClosedKeepsNothing
    <2> QED
        BY <2>1, <2>2 DEF StreamInv, TabletRight, WorkAccountedFor
<1> QED
    BY <1>1, StreamStarts, StreamKept, PTL DEF Spec

\* VideoBackpressurePolicy: a request for an IDR is held back only while the
\* encoder's next output, or the first of the encoder to be made, is one.
THEOREM HoldSafety == Spec => []HoldMeansIdrComes
<1>1. StreamInv => HoldMeansIdrComes
    BY DEF StreamInv, DesktopRight, EncoderRight, HoldsForIdr, HoldMeansIdrComes
<1> QED
    BY <1>1, StreamStarts, StreamKept, PTL DEF Spec

(***************************************************************************)
(* The ladder of resolutions (ResolutionLadder), for any sizes of frames,  *)
(* any observations and any times between them.                            *)
(***************************************************************************)

CONSTANT Sizes
VARIABLES initial, rung, native, breaches, stableSince, now, disturbed
Ladder == INSTANCE ResolutionLadder

\* The invariant holds at first.
LEMMA LadderStarts == Ladder!Init => Ladder!LadderInv
BY DEF Ladder!Init, Ladder!LadderInv, Ladder!OnLadder, Ladder!Clock, Ladder!Rungs, Ladder!NoTime

\* Every step of the policy keeps it.
LEMMA LadderKept == Ladder!LadderInv /\ [Ladder!Next]_Ladder!vars => Ladder!LadderInv'
<1> SUFFICES ASSUME Ladder!LadderInv, [Ladder!Next]_Ladder!vars PROVE Ladder!LadderInv'
    OBVIOUS
<1> USE DEF Ladder!LadderInv, Ladder!OnLadder, Ladder!Clock, Ladder!Rungs, Ladder!NoTime
<1>1. ASSUME NEW requested \in Nat, Ladder!Start(requested) PROVE Ladder!LadderInv'
    BY <1>1 DEF Ladder!Start, Ladder!ClampRung
<1>2. ASSUME NEW size \in Sizes, Ladder!SetNativeSize(size) PROVE Ladder!LadderInv'
    BY <1>2 DEF Ladder!SetNativeSize
<1>3. CASE Ladder!Breach
    BY <1>3 DEF Ladder!Breach, Ladder!Lower, Ladder!PersistentBreachSamples
<1>4. CASE Ladder!Calm
    BY <1>4 DEF Ladder!Calm, Ladder!Higher
<1>5. CASE Ladder!TimePasses
    BY <1>5 DEF Ladder!TimePasses
<1>6. CASE UNCHANGED Ladder!vars
    BY <1>6 DEF Ladder!vars
<1> QED
    BY <1>1, <1>2, <1>3, <1>4, <1>5, <1>6 DEF Ladder!Next, Ladder!Observe

\* Only a calm observation raises the rung, and only after a calm window.
LEMMA UpgradeWaits ==
    ASSUME Ladder!LadderInv, Ladder!Observe, rung' > rung
    PROVE  now - disturbed >= Ladder!Window
<1> USE DEF Ladder!LadderInv, Ladder!OnLadder, Ladder!Clock, Ladder!Rungs, Ladder!NoTime,
            Ladder!Window
<1>1. CASE Ladder!Breach
    BY <1>1 DEF Ladder!Breach, Ladder!Lower, Ladder!PersistentBreachSamples
<1>2. CASE Ladder!Calm
    BY <1>2 DEF Ladder!Calm, Ladder!Higher
<1> QED
    BY <1>1, <1>2 DEF Ladder!Observe

\* Whatever is observed, and whenever, the encoder is never configured above the rung
\* that was negotiated.
THEOREM StaysOnLadder == Ladder!Spec => []Ladder!OnLadder
<1>1. Ladder!Init => Ladder!LadderInv
    BY LadderStarts
<1>2. Ladder!LadderInv /\ [Ladder!Next]_Ladder!vars => Ladder!LadderInv'
    BY LadderKept
<1>3. Ladder!LadderInv => Ladder!OnLadder
    BY DEF Ladder!LadderInv
<1> QED
    BY <1>1, <1>2, <1>3, PTL DEF Ladder!Spec

\* Whatever is observed, and whenever, upgrades are earned by a calm window.
THEOREM UpgradesAreEarned == Ladder!Spec => Ladder!UpgradeEarned
<1>1. Ladder!LadderInv /\ [Ladder!Next]_Ladder!vars =>
          [Ladder!Observe /\ rung' > rung => now - disturbed >= Ladder!Window]_Ladder!vars
    BY UpgradeWaits
<1>2. Ladder!Init => Ladder!LadderInv
    BY LadderStarts
<1>3. Ladder!LadderInv /\ [Ladder!Next]_Ladder!vars => Ladder!LadderInv'
    BY LadderKept
<1> QED
    BY <1>1, <1>2, <1>3, PTL DEF Ladder!Spec, Ladder!UpgradeEarned
=============================================================================

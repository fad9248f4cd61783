---------------------------- MODULE VideoStream ----------------------------
(***************************************************************************)
(* The video stream from the desktop's screen to the tablet's codec:       *)
(* VideoPipeline and AvcDecoder, joined by the video channel, by the       *)
(* RequestIdr messages of the control channel, and by sessions that end    *)
(* and begin.                                                              *)
(***************************************************************************)
EXTENDS VideoPipeline, AvcDecoder

vars == <<pipelineVars, decoderVars, incidents>>

Init == PipelineInit /\ DecoderInit /\ incidents = 0

\* The video reader hands a frame to the decoder's inbox.
Receive ==
    /\ wire # <<>>
    /\ Offer(Head(wire))
    /\ wire' = Tail(wire)
    /\ UNCHANGED <<enc, writer, notified, screen>>

\* The desktop's control thread handles a RequestIdr.
ServeRequest ==
    /\ requests > 0
    /\ requests' = requests - 1
    /\ HandleRequestIdr
    /\ UNCHANGED <<inbox, tasks, busy, dec, configs, closed>>

\* The session ends, for whatever reason, and another begins: what was in the
\* sockets is lost, what the decoder holds is not, and a ServerConfig comes.
Reconnect ==
    /\ Incident
    /\ NewSession
    /\ PostConfigure
    /\ requests' = 0

\* rotationChanged rebinds the decoder to its surface.
Rotate ==
    /\ Incident
    /\ PostConfigure
    /\ UNCHANGED <<pipelineVars, requests>>

Desktop ==
    /\ VideoLoop \/ VideoLoopHindered \/ Write \/ WouldBlock
    /\ UNCHANGED <<decoderVars>>

External ==
    /\ MftNeedsInput \/ MftHasOutput \/ KeyFrameDue \/ ScreenChanges
    /\ UNCHANGED <<decoderVars>>

Tablet ==
    /\ HandlerTask \/ Close
    /\ UNCHANGED <<pipelineVars>>

Next == Desktop \/ External \/ Tablet \/ Receive \/ ServeRequest \/ Reconnect \/ Rotate

\* Threads that can go on do; the transform and the screen do not stop for good.
On(A, rest) == A /\ UNCHANGED rest

Fairness ==
    /\ WF_vars(On(VideoLoop \/ Write, decoderVars))
    /\ WF_vars(On(MftNeedsInput, decoderVars))
    /\ WF_vars(On(MftHasOutput, decoderVars))
    /\ WF_vars(On(ScreenChanges, decoderVars))
    /\ SF_vars(On(ConfigureTask, pipelineVars))
    /\ WF_vars(On(DeliverTask \/ DeliverFinish, pipelineVars))
    /\ SF_vars(On(InputBufferAvailable, pipelineVars))
    /\ WF_vars(Receive)
    /\ WF_vars(ServeRequest)

Spec == Init /\ [][Next]_vars /\ Fairness
-----------------------------------------------------------------------------
\* The variables keep their ranges; the counts of tasks and commands are bounded.
TypeOK ==
    /\ enc \in EncoderState
    /\ writer \in Sent \cup {NoFrame}
    /\ notified \in BOOLEAN
    /\ wire \in Seq(Sent) /\ Len(wire) <= WireCapacity
    /\ screen \in BOOLEAN /\ busy \in BOOLEAN
    /\ dec \in DecoderState
    /\ inbox.frames \in Seq(Frame) /\ Len(inbox.frames) <= InboxCapacity
    /\ inbox.scheduled \in BOOLEAN /\ inbox.dropped \in BOOLEAN
    /\ tasks \in Nat /\ requests \in Nat
    /\ configs \in 0 .. 1 + MaxIncidents
    /\ closed \in {"no", "posted", "done"}

\* The codec is never given an inter frame whose reference it did not get,
\* whatever the inbox threw away, the codec failed at or the session lost: the
\* picture may stop, it is never garbled.
NeverGarbled == ~dec.garbled

\* At most one delivery task exists, and one does whenever frames wait: the
\* scheduled flag, written by two threads, neither loses nor doubles the task.
OneDeliveryTask ==
    closed = "no" =>
        /\ tasks + (IF busy THEN 1 ELSE 0) = (IF inbox.scheduled THEN 1 ELSE 0)
        /\ inbox.frames # <<>> => inbox.scheduled

\* Between iterations the pipeline's record of the input being encoded and the
\* encoder's agree, so that capturing is neither skipped for ever nor resumed
\* under a busy encoder, and no call of the pipeline fails by itself.
EncodeInFlightAgrees ==
    /\ enc.pending = (enc.async /\ enc.input)
    /\ \A p \in EncodeLatest(enc) : p.hr # "fail"

\* A request for an IDR is held back only while an IDR is coming: the encoder's
\* next output is one, or there is no encoder and its first output will be.
HoldMeansIdrComes == enc.resetPending => ~enc.up \/ enc.forced

\* Frames are given to the codec again and again, whatever overflows, fails, is
\* reset, rotated or reconnected on the way, until the decoder is closed.
Feeds ==
    /\ dec.codec /\ dec'.codec /\ UNCHANGED <<configs, incidents>>
    /\ dec'.inputs < dec.inputs \/ (dec.pending # None /\ dec'.pending = None)

PictureGoesOn == []<><<Feeds>>_vars \/ <>(closed # "no")

\* Once the closing task has run there is no codec and no frame is kept, whatever
\* commands, deliveries and frames were still queued or under way at the close.
ClosedKeepsNothing == closed = "done" => ~dec.codec /\ dec.pending = None /\ inbox.frames = <<>>

\* Tasks, inputs and frames are accounted for on both ends.
WorkAccountedFor == OneDeliveryTask /\ EncodeInFlightAgrees /\ ClosedKeepsNothing

-----------------------------------------------------------------------------
(* A statement of the documentation that the code does not meet (README.md). *)

\* While frames are dropped because the decoder waits for an IDR, an IDR that may
\* have been lost is asked for again, so the codec comes back
\* (docs/android-reliability-fixes.md:14).  It does not if the codec could not be
\* created when the IDR came: idrRequested stays set and nothing asks again.
CodecComesBack == []<>dec.codec \/ <>(closed # "no")
=============================================================================

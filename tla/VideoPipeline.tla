--------------------------- MODULE VideoPipeline ---------------------------
(***************************************************************************)
(* The desktop's video path: VideoPipeline (capture slot, encoder, the     *)
(* record of the input being encoded, back-pressure and resolution         *)
(* policies), the hardware encoder with the asynchronous transform behind  *)
(* it, and the VideoLoop that captures, encodes and writes.                *)
(*                                                                         *)
(* video_mutex_ makes every call into the pipeline one step: its outcomes  *)
(* are a set of records [e, hr, out].  The Media Foundation transform and  *)
(* Desktop Duplication are external: what they may answer is left open,    *)
(* except that a transform that was started, flushed or asked for a key    *)
(* frame encodes an IDR next.  An error of the pipeline ends the session.  *)
(***************************************************************************)
EXTENDS Incidents, Sequences

CONSTANT
    WireCapacity    \* frames the sockets between the two ends hold

ASSUME PipelineAssumption == WireCapacity \in Nat \ {0}

VARIABLES
    enc,        \* VideoPipeline and HardwareH264Encoder, under video_mutex_
    writer,     \* VideoLoop's pending_frame
    notified,   \* VideoLoop's backpressure_idr_notified
    wire,       \* frames in the sockets
    screen      \* the desktop has changed since the last acquired frame

pipelineVars == <<enc, writer, notified, wire, screen>>

Sent == {"idr", "inter", "stray"}
NoFrame == "none"

\* async: the encoder is an asynchronous transform; up: initialized(); requested,
\* available, input: the fields of AsyncMftStateMachine, its pending_sequence_ as
\* whether there is one; pending: whether PendingEncodeTelemetryState has one;
\* captured: the latest-frame slot; resetPending: the back-pressure
\* policy; policyReset, resized: the resolution policy's decision.
\* forced and fresh belong to the transform: its next output will be an IDR; it
\* has encoded nothing since it was started or flushed.
EncoderState ==
    [async: BOOLEAN, up: BOOLEAN, requested: BOOLEAN,
     available: BOOLEAN, input: BOOLEAN, pending: BOOLEAN, captured: BOOLEAN,
     resetPending: BOOLEAN, policyReset: BOOLEAN, resized: BOOLEAN, forced: BOOLEAN,
     fresh: BOOLEAN]

PipelineInit ==
    /\ enc \in {[async |-> async, up |-> FALSE, requested |-> FALSE,
                 available |-> FALSE, input |-> FALSE, pending |-> FALSE,
                 captured |-> FALSE, resetPending |-> FALSE,
                 policyReset |-> FALSE, resized |-> FALSE, forced |-> FALSE, fresh |-> TRUE] :
                async \in BOOLEAN}
    /\ writer = NoFrame
    /\ notified = FALSE
    /\ wire = <<>>
    /\ screen = TRUE

Result(e, hr, out) == [e |-> e, hr |-> hr, out |-> out]
Outcome(e, hr) == Result(e, hr, NoFrame)
-----------------------------------------------------------------------------
(***************************************************************************)
(* The encoder.                                                            *)
(***************************************************************************)
Shutdown(e) ==
    [e EXCEPT !.up = FALSE, !.requested = FALSE, !.available = FALSE,
              !.input = FALSE, !.forced = FALSE, !.fresh = TRUE]

\* Initialize; the first NeedInput may come before it returns.
Initialize(e) ==
    { [Shutdown(e) EXCEPT !.up = TRUE, !.forced = TRUE, !.requested = early] :
      early \in IF e.async THEN BOOLEAN ELSE {FALSE} }

\* Mutant: the input that was being encoded stays recorded.
ResetEncoderOnly(e) ==
    IF e.async THEN Initialize(e) ELSE {[e EXCEPT !.forced = TRUE, !.fresh = TRUE]}

\* ResetEncoderAndRequestIdr: a new instance if asynchronous; if not, a flush of
\* the one there is and a request for a key frame.
ResetEncoder(e) ==
    LET clear == [e EXCEPT !.pending = FALSE] IN
    IF e.async THEN Initialize(clear) ELSE {[clear EXCEPT !.forced = TRUE, !.fresh = TRUE]}

\* A reset that fails: no new instance, or a transform that was only flushed.
ResetFails(e) ==
    IF e.async THEN Shutdown([e EXCEPT !.pending = FALSE])
               ELSE [e EXCEPT !.pending = FALSE, !.forced = TRUE, !.fresh = TRUE]

CanAcceptFrame(e) == e.up /\ (e.async => e.requested /\ ~e.input)

HasInFlightEncode(e) == (e.async /\ e.input) \/ e.pending

\* What the transform makes of an input.
Output(e) == CASE e.forced -> "idr" [] ~e.forced /\ e.fresh -> "stray" [] OTHER -> "inter"

\* Mutant: an IDR does not end the hold.
CompleteKeepsHold(e, out) ==
    IF ~e.pending
    THEN Outcome(e, "fail")
    ELSE Result([e EXCEPT !.pending = FALSE, !.forced = FALSE, !.fresh = FALSE], "ok", out)

\* CompleteEncodedFrame: out is the output of the input recorded as pending; with
\* nothing recorded the call fails.
Complete(e, out) ==
    IF ~e.pending
    THEN Outcome(e, "fail")
    ELSE LET done == [e EXCEPT !.pending = FALSE, !.forced = FALSE, !.fresh = FALSE,
                               !.resetPending = @ /\ out # "idr"]
         IN Result(done, "ok", out)

\* ProcessAsyncOutput with an announced output: the access unit of the input,
\* or none, as after a stream change; the announcement is used up either way.
AsyncOutput(e) ==
    LET used == [e EXCEPT !.available = FALSE] IN
    IF e.input THEN Complete([used EXCEPT !.input = FALSE], Output(e)) ELSE Outcome(e, "fail")

NoOutput(e) == Outcome([e EXCEPT !.available = FALSE], "false")

\* Encoder.Poll, and what EncodeLatest makes of it.
Poll(e) ==
    IF e.up /\ e.async /\ e.available THEN AsyncOutput(e) ELSE Outcome(e, "false")
-----------------------------------------------------------------------------
(***************************************************************************)
(* EncodeLatest.                                                           *)
(***************************************************************************)
\* The encoder for the popped frame: made anew if there is none or the size
\* changed, reset if the policy asked for it.
Prepared(e) ==
    IF ~e.up \/ e.resized
    THEN {[f EXCEPT !.policyReset = FALSE, !.resized = FALSE, !.pending = FALSE] :
          f \in Initialize(e)}
    ELSE IF e.policyReset
    THEN {[f EXCEPT !.policyReset = FALSE] : f \in ResetEncoder(e)}
    ELSE {e}

\* PushIfEmpty: the frame that was not encoded stays in the slot.
Retained(e) == Outcome([e EXCEPT !.captured = TRUE], "false")

\* ProcessInput took the frame.  An asynchronous transform may announce its
\* output before Encode polls; a synchronous one may first want more input.
AsyncEncode(e) ==
    LET taken == [e EXCEPT !.requested = FALSE, !.input = TRUE, !.pending = TRUE] IN
    {Outcome(taken, "false"), AsyncOutput(taken)}

SyncEncode(e) == {Complete([e EXCEPT !.pending = TRUE], Output(e))}

\* Begin refuses a second record; the call fails then.
Encode(e) ==
    CASE ~CanAcceptFrame(e) -> {Retained(e)}
      [] CanAcceptFrame(e) /\ e.pending -> {Outcome(e, "fail")}
      [] OTHER -> IF e.async THEN AsyncEncode(e) ELSE SyncEncode(e)

\* From TryPop on.
EncodeCaptured(e) ==
    IF e.captured
    THEN UNION {Encode(f) : f \in Prepared([e EXCEPT !.captured = FALSE])}
    ELSE {Outcome(e, "false")}

EncodeLatest(e) ==
    LET p == Poll(e) IN
    IF p.hr = "false" /\ (p.e.up => CanAcceptFrame(p.e)) THEN EncodeCaptured(p.e) ELSE {p}

\* What Media Foundation may do instead: refuse the input (MF_E_NOTACCEPTING),
\* want more input, announce an output that is none.
EncodeHindered(e) ==
    IF e.up /\ e.async /\ e.available
    THEN {NoOutput(e)}
    ELSE { IF e.async THEN Retained(f)
                      ELSE Outcome([f EXCEPT !.captured = FALSE], "false") :
           f \in {g \in Prepared(e) : /\ e.up => CanAcceptFrame(e)
                                     /\ CanAcceptFrame(g) /\ g.captured} }
-----------------------------------------------------------------------------
(***************************************************************************)
(* Back-pressure and the resolution policy.                                *)
(***************************************************************************)
\* A decision changes the rung, and with it the size unless the screen is small.
Decided(e) == {[e EXCEPT !.policyReset = TRUE, !.resized = @ \/ changes] : changes \in BOOLEAN}

\* Mutant: congestion is noted, the encoder is not reset.
NotifyHoldsOnly(e) == {[e EXCEPT !.resetPending = TRUE]}

\* NotifyTransportWouldBlock: hold if a reset is already on its way.
Notify(e) ==
    LET held == [e EXCEPT !.resetPending = TRUE] IN
    IF e.resetPending \/ ~e.up THEN {held} ELSE ResetEncoder(held)

\* The same when the reset fails, or when the observation makes the policy decide.
NotifyHindered(e) ==
    LET held == [e EXCEPT !.resetPending = TRUE] IN
    IF e.resetPending
    THEN UNION {IF d.up THEN ResetEncoder(d) \cup {ResetFails(d)} ELSE {d} : d \in Decided(held)}
    ELSE IF e.up
    THEN {ResetFails(held)} \cup UNION {Decided(f) : f \in ResetEncoder(held)}
    ELSE {}
-----------------------------------------------------------------------------
(***************************************************************************)
(* VideoLoop.                                                              *)
(***************************************************************************)
\* The frame goes to pending_frame.  CompleteEncodedFrame has also shown its
\* timing to the policy, which may decide.
Sends(p, decides) ==
    /\ writer' = p.out
    /\ enc' \in IF decides THEN Decided(p.e) ELSE {p.e}

Encodes(e, hindered) == IF hindered THEN EncodeHindered(e) ELSE EncodeLatest(e)

Captured(e) == [e EXCEPT !.captured = TRUE]

\* Encode what is there; if there is no output, capture unless an input is being
\* encoded, and encode the frame captured.
Iteration(first, second, decides) ==
    /\ writer = NoFrame
    /\ \E p \in Encodes(enc, first) :
       \/ /\ p.hr = "ok" /\ ~second
          /\ Sends(p, decides)
          /\ UNCHANGED screen
       \/ /\ p.hr = "false" /\ (HasInFlightEncode(p.e) \/ ~screen) /\ ~second /\ ~decides
          /\ enc' = p.e
          /\ UNCHANGED <<writer, screen>>
       \/ /\ p.hr = "false" /\ ~HasInFlightEncode(p.e) /\ screen
          /\ screen' = FALSE
          /\ \E q \in Encodes(Captured(p.e), second) :
             \/ q.hr = "ok" /\ Sends(q, decides)
             \/ q.hr = "false" /\ ~decides /\ enc' = q.e /\ UNCHANGED writer
    /\ UNCHANGED <<notified, wire>>

VideoLoop == Iteration(FALSE, FALSE, FALSE) /\ Smooth

VideoLoopHindered ==
    /\ Incident
    /\ \E first, second, decides \in BOOLEAN :
       (first \/ second \/ decides) /\ Iteration(first, second, decides)

\* pending_frame.Continue while the sockets have room; the first refusal of a
\* frame is a sign of congestion, the next ones are not.
Write ==
    /\ writer # NoFrame /\ Len(wire) < WireCapacity
    /\ wire' = Append(wire, writer)
    /\ writer' = NoFrame
    /\ notified' = FALSE
    /\ Smooth
    /\ UNCHANGED <<enc, screen>>

WouldBlock ==
    /\ writer # NoFrame /\ Len(wire) = WireCapacity
    /\ ~notified /\ notified' = TRUE
    /\ \/ enc' \in Notify(enc) /\ Smooth
       \/ enc' \in NotifyHindered(enc) /\ Incident
    /\ UNCHANGED <<writer, wire, screen>>

\* The RequestIdr branch of ControlLoop.
HandleRequestIdr ==
    /\ \/ enc' \in Notify(enc) /\ Smooth
       \/ enc' \in NotifyHindered(enc) /\ Incident
    /\ UNCHANGED <<writer, notified, wire, screen>>
-----------------------------------------------------------------------------
(***************************************************************************)
(* The world outside.                                                      *)
(***************************************************************************)
\* The transform wants input: at the start, and after each input it was given.
\* Every call that looks at its events pumps them first (PumpAsyncEvents), so an
\* event is noted when it happens.
MftNeedsInput ==
    /\ enc.up /\ enc.async /\ ~enc.requested
    /\ enc' = [enc EXCEPT !.requested = TRUE]
    /\ Smooth
    /\ UNCHANGED <<writer, notified, wire, screen>>

MftHasOutput ==
    /\ enc.up /\ enc.async /\ enc.input /\ ~enc.available
    /\ enc' = [enc EXCEPT !.available = TRUE]
    /\ Smooth
    /\ UNCHANGED <<writer, notified, wire, screen>>

\* The transform makes its next output an IDR of its own accord.
KeyFrameDue ==
    /\ enc.up /\ ~enc.forced
    /\ enc' = [enc EXCEPT !.forced = TRUE]
    /\ Incident
    /\ UNCHANGED <<writer, notified, wire, screen>>

ScreenChanges ==
    /\ ~screen /\ screen' = TRUE
    /\ Smooth
    /\ UNCHANGED <<enc, writer, notified, wire>>

\* VideoPipeline.Stop and Start around a new session, with new sockets and a new
\* VideoLoop; neither touches the back-pressure policy.
NewSession ==
    /\ enc' = [Shutdown(enc) EXCEPT !.pending = FALSE, !.captured = FALSE, !.policyReset = FALSE, !.resized = FALSE]
    /\ writer' = NoFrame
    /\ notified' = FALSE
    /\ wire' = <<>>
    /\ screen' = TRUE
=============================================================================

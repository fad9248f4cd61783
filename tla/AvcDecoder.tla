---------------------------- MODULE AvcDecoder ----------------------------
(***************************************************************************)
(* The tablet's decoder: the inbox between the network thread and the      *)
(* decoder's handler thread (VideoFrameInbox.kt), the recovery state       *)
(* (DecoderRecoveryState.kt) and the asynchronous codec (AvcDecoder.kt).   *)
(*                                                                         *)
(* All of `dec' belongs to the handler thread, so a handler task is one    *)
(* action, except that a delivery task has two sections of the inbox's     *)
(* monitor, take and finishDelivery, between which the network thread may  *)
(* offer frames.  The order of the handler's queue is left open.           *)
(*                                                                         *)
(* A frame is one of three kinds: an IDR, an inter frame whose reference   *)
(* is the frame sent just before it, and a stray inter frame whose         *)
(* reference was never sent.                                               *)
(***************************************************************************)
EXTENDS Incidents, Sequences

CONSTANTS
    InboxCapacity,  \* frames the inbox holds, 4 in the code
    Slots           \* input buffers of the codec

ASSUME DecoderAssumption ==
    /\ InboxCapacity \in Nat \ {0}
    /\ Slots \in Nat \ {0}

VARIABLES
    inbox,      \* VideoFrameInbox: frames, scheduled, dropped; hole is a ghost
    tasks,      \* delivery tasks in the handler's queue
    busy,       \* a delivery task is between take and finishDelivery
    dec,        \* the decoder, owned by the handler thread
    configs,    \* configure and reconfigure commands in the handler's queue
    requests,   \* RequestIdr messages on their way to the desktop
    closed      \* close: "no", "posted" (its task is queued), "done"

decoderVars == <<inbox, tasks, busy, dec, configs, requests, closed>>

Frame == {"idr", "inter", "stray"}
None  == "none"
Phase == {"IDLE", "RUNNING", "AWAITING_IDR", "CLOSED"}

\* missing and garbled are ghosts: the codec lacks the reference of the next
\* inter frame that is taken; it was fed an inter frame without its reference.
\* asked is the call of requestIdr within a task (see Becomes).
DecoderState ==
    [configured: BOOLEAN, codec: BOOLEAN, inputs: 0 .. Slots, pending: Frame \cup {None},
     phase: Phase, idrRequested: BOOLEAN, asked: BOOLEAN, missing: BOOLEAN, garbled: BOOLEAN]

DecoderInit ==
    /\ inbox = [frames |-> <<>>, scheduled |-> FALSE, dropped |-> FALSE, hole |-> FALSE]
    /\ tasks = 0
    /\ busy = FALSE
    /\ dec = [configured |-> FALSE, codec |-> FALSE, inputs |-> 0, pending |-> None,
              phase |-> "IDLE", idrRequested |-> FALSE, asked |-> FALSE,
              missing |-> TRUE, garbled |-> FALSE]
    /\ configs = 1
    /\ requests = 0
    /\ closed = "no"

-----------------------------------------------------------------------------
(***************************************************************************)
(* What the handler's tasks do to the decoder.                             *)
(***************************************************************************)
CodecError(d) == [d EXCEPT !.phase = IF @ = "CLOSED" THEN @ ELSE "AWAITING_IDR"]

Release(d) == [d EXCEPT !.codec = FALSE, !.inputs = 0, !.pending = None, !.missing = TRUE]

RequestIdrOnce(d) == [d EXCEPT !.idrRequested = TRUE, !.asked = @ \/ ~d.idrRequested]

\* createCodecOnThread; a failure of creation, configure or start lands in its catch.
CreateCodec(d, works) ==
    CASE ~d.configured -> d
      [] d.configured /\ works -> [d EXCEPT !.codec = TRUE]
      [] OTHER -> RequestIdrOnce(Release(CodecError(d)))

HandleCodecError(d, works) ==
    RequestIdrOnce(CreateCodec(
        Release([CodecError(d) EXCEPT !.idrRequested = FALSE]), works))

RecoverReferences(d) ==
    RequestIdrOnce([CodecError(d) EXCEPT !.pending = None, !.idrRequested = FALSE])

AcceptFrame(d, f) == d.phase = "RUNNING" \/ (d.phase = "AWAITING_IDR" /\ f = "idr")

\* queueInputBuffer took the pending frame, then onFrameQueued.
FrameQueued(d) ==
    LET key == d.pending = "idr" IN
    [d EXCEPT !.inputs = @ - 1,
              !.pending = None,
              !.phase = IF key /\ @ \notin {"CLOSED", "IDLE"} THEN "RUNNING" ELSE @,
              !.idrRequested = @ /\ ~(key /\ d.phase \notin {"CLOSED", "IDLE"}),
              !.missing = @ /\ ~key,
              !.garbled = @ \/ (~key /\ d.missing) \/ d.pending = "stray"]

\* drainInputOnThread when the codec takes the frame, and when it does not.
Drains(d) == d.codec /\ d.pending # None /\ d.inputs > 0
Drain(d) == IF Drains(d) THEN FrameQueued(d) ELSE d

\* Mutant: a loss in the inbox is only counted.
RecoveredNever(d, hole, dropped) == [d EXCEPT !.missing = @ \/ hole]

\* The part of deliverNextOnThread between take and the codec's input: a loss
\* makes the decoder wait for an IDR, an IDR brings the codec back.
Recovered(d, hole, dropped) ==
    LET known == [d EXCEPT !.missing = @ \/ hole] IN
    IF dropped THEN RecoverReferences(known) ELSE known

Revived(d, f, works) == IF ~d.codec /\ f = "idr" THEN CreateCodec(d, works) ELSE d

\* The frame becomes the pending one, or is dropped and an IDR asked for.
Admitted(d, f) ==
    IF d.codec /\ AcceptFrame(d, f)
    THEN [d EXCEPT !.pending = f]
    ELSE RequestIdrOnce([d EXCEPT !.missing = TRUE])

\* requestIdr hands a RequestIdr to the control channel.
Becomes(d) ==
    /\ dec' = [d EXCEPT !.asked = FALSE]
    /\ requests' = requests + (IF d.asked THEN 1 ELSE 0)
-----------------------------------------------------------------------------
(***************************************************************************)
(* The network thread.                                                     *)
(***************************************************************************)
Full == Len(inbox.frames) = InboxCapacity

\* Mutant: the overflow is noted but the inbox is not emptied.
OverflowKeepsAll == [inbox EXCEPT !.dropped = TRUE, !.hole = TRUE]

\* VideoFrameInbox.offer: a full inbox is emptied before the frame is added.
Overflowed == [inbox EXCEPT !.frames = <<>>, !.dropped = TRUE, !.hole = TRUE]

Offer(f) ==
    /\ IF closed # "no"
       THEN UNCHANGED <<inbox, tasks>> /\ Smooth
       ELSE LET room == IF Full THEN Overflowed ELSE inbox IN
            /\ inbox' = [room EXCEPT !.frames = Append(@, f), !.scheduled = TRUE]
            /\ tasks' = tasks + (IF inbox.scheduled THEN 0 ELSE 1)
            /\ IF Full THEN Incident ELSE Smooth
    /\ UNCHANGED <<busy, dec, configs, requests, closed>>

\* configure or reconfigure, from the control thread or after a rotation.
PostConfigure ==
    /\ configs' = IF closed = "no" THEN configs + 1 ELSE configs
    /\ UNCHANGED <<inbox, tasks, busy, dec, closed>>
-----------------------------------------------------------------------------
(***************************************************************************)
(* The handler thread.                                                     *)
(***************************************************************************)
Idle == ~busy /\ closed # "done"

ConfigureTask ==
    /\ Idle /\ configs > 0
    /\ configs' = configs - 1
    /\ IF closed # "no"
       THEN UNCHANGED <<dec, requests>> /\ Smooth
       ELSE \E works \in BOOLEAN :
            /\ Becomes(RequestIdrOnce(CreateCodec(
                   CodecError([Release(dec) EXCEPT !.configured = TRUE, !.idrRequested = FALSE]),
                   works)))
            /\ IF works THEN Smooth ELSE Incident
    /\ UNCHANGED <<inbox, tasks, busy, closed>>

\* deliverNextOnThread up to the finally block.  While a frame is pending the
\* task posts itself again after 2 ms: it stays in the queue.
Taken == [inbox EXCEPT !.frames = Tail(@), !.dropped = FALSE, !.hole = FALSE]

DeliverTask ==
    /\ Idle /\ tasks > 0
    /\ closed # "no" \/ dec.pending = None
    /\ tasks' = tasks - 1
    /\ busy' = (closed = "no")
    /\ IF closed # "no" \/ inbox.frames = <<>>
       THEN UNCHANGED <<inbox, dec, requests>> /\ Smooth
       ELSE \E works, queues \in BOOLEAN :
            LET f     == Head(inbox.frames)
                ready == Recovered(dec, inbox.hole, inbox.dropped)
                d     == Admitted(Revived(ready, f, works), f)
                fails == Drains(d) /\ ~queues
            IN /\ inbox' = Taken
               /\ works \/ fails \/ (~ready.codec /\ f = "idr")
               /\ queues \/ fails
               /\ Becomes(IF fails THEN HandleCodecError(d, works) ELSE Drain(d))
               /\ IF works /\ queues THEN Smooth ELSE Incident
    /\ UNCHANGED <<configs, closed>>

\* Mutant: finishDelivery always reports that nothing is left.
DeliverFinishForgets ==
    /\ busy
    /\ busy' = FALSE
    /\ inbox' = [inbox EXCEPT !.scheduled = FALSE]
    /\ UNCHANGED <<tasks, dec, configs, requests, closed, incidents>>

DeliverFinish ==
    /\ busy
    /\ busy' = FALSE
    /\ inbox' = [inbox EXCEPT !.scheduled = inbox.frames # <<>>]
    /\ tasks' = tasks + (IF inbox.frames # <<>> THEN 1 ELSE 0)
    /\ UNCHANGED <<dec, configs, requests, closed, incidents>>

\* onInputBufferAvailable: a buffer that may take the pending frame at once.
InputBufferAvailable ==
    /\ Idle /\ closed = "no" /\ dec.codec /\ dec.inputs < Slots
    /\ LET d == [dec EXCEPT !.inputs = @ + 1] IN
       \/ Becomes(Drain(d)) /\ Smooth
       \/ /\ Drains(d) /\ Incident
          /\ \E works \in BOOLEAN : Becomes(HandleCodecError(d, works))
    /\ UNCHANGED <<inbox, tasks, busy, configs, closed>>

\* onError, or onOutputBufferAvailable when the buffer cannot be released.
CodecFails ==
    /\ Idle /\ closed = "no" /\ dec.codec
    /\ Incident
    /\ \E works \in BOOLEAN : Becomes(HandleCodecError(dec, works))
    /\ UNCHANGED <<inbox, tasks, busy, configs, closed>>

\* close, on the activity's thread, and the task it posts.
Close ==
    /\ closed = "no"
    /\ closed' = "posted"
    /\ inbox' = [frames |-> <<>>, scheduled |-> FALSE, dropped |-> FALSE, hole |-> TRUE]
    /\ Incident
    /\ UNCHANGED <<tasks, busy, dec, configs, requests>>

\* Mutant: the closing task leaves the codec alone.
CloseTaskLeaks ==
    /\ Idle /\ closed = "posted"
    /\ closed' = "done"
    /\ dec' = [dec EXCEPT !.phase = "CLOSED"]
    /\ UNCHANGED <<inbox, tasks, busy, configs, requests, incidents>>

CloseTask ==
    /\ Idle /\ closed = "posted"
    /\ closed' = "done"
    /\ dec' = [Release(dec) EXCEPT !.phase = "CLOSED"]
    /\ UNCHANGED <<inbox, tasks, busy, configs, requests, incidents>>

HandlerTask ==
    \/ ConfigureTask \/ DeliverTask \/ DeliverFinish
    \/ InputBufferAvailable \/ CodecFails \/ CloseTask
=============================================================================

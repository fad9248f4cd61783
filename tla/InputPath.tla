------------------------------- MODULE InputPath -------------------------------
(***************************************************************************)
(* The way of a touch from the tablet's glass to the Windows pointer.  The *)
(* Android view turns a MotionEvent into a batch of samples                *)
(* (InputCaptureView.kt), the codec gives them wire ids and flags          *)
(* (PdbCodec.kt), the host's adapter derives phases from the flags         *)
(* (input_adapter.cpp), the input system rejects palms and injects         *)
(* (input_system.cpp, synthetic_injector.cpp).  Each of the four keeps its *)
(* own idea of what is down; the properties say how they agree.            *)
(*                                                                         *)
(* One session is modelled, with its input loop and its control loop.      *)
(* Positions, pressure and tilt, which no property needs, and the history  *)
(* of a MotionEvent, which repeats moves, are left out: the samples of a   *)
(* batch are of one instant, and palm guards with the delay of 0 ms that   *)
(* both sides configure compare no other times.  Every point of the view   *)
(* maps to one of the monitor: tabletActiveRect is never set.  A button of *)
(* the stylus is reported as a key, never in a MotionEvent's buttonState.  *)
(***************************************************************************)
EXTENDS Naturals, FiniteSets, SequencesExt

CONSTANTS
    MaxPointer,    \* bound: the highest pointer id that Android gives out
    MaxEvents,     \* bound: MotionEvents of the tablet
    MaxPresses,    \* bound: presses of a button of the stylus
    MaxRotations,  \* bound: rotations of the tablet
    MaxUnderway    \* bound: batches sent and not yet read

ASSUME BoundAssumption ==
    {MaxPointer, MaxEvents, MaxPresses, MaxRotations, MaxUnderway} \subseteq Nat

VARIABLES
    glass,      \* the tool that each pointer id of Android stands for
    button,     \* is a button of the stylus held?
    tracked,    \* activePointers: the last sample of each pointer id
    stylus,     \* the pointer id of lastStylusSample, if there is one
    tipping,    \* does PalmRejectionPolicy suppress touches?
    pressed,    \* pressedButtons
    batches,    \* the input channel
    turns,      \* the OrientationChanged messages on the control channel
    contacts,   \* contacts_ of the adapter
    frame,      \* what the input loop has adapted and not yet processed
    turning,    \* is the mapper's epoch ahead of the adapter's?
    input,      \* InputSystem, its injector and what Windows holds down
    left        \* what the bounds still allow

tablet == <<glass, button, tracked, stylus, tipping, pressed>>
host   == <<contacts, frame, turning, input>>
vars   == <<tablet, batches, turns, host, left>>

Ids     == 0..MaxPointer
Tools   == {"touch", "pen"}
Actions == {"down", "move", "up", "cancel", "hover"}   \* CapturedAction, PointerPhase
Nothing == "none"

\* Android's pointer ids start at 0, those of the wire at 1.
WireIdUnshifted(i) == i
WireId(i) == IF i = 0 THEN 1 ELSE i
WireIds == 1..(MaxPointer + 1)

Samples == [tool : Tools, id : WireIds, action : Actions, key : BOOLEAN]

NoSample == [tool |-> Nothing]
NoFrame == [pens |-> << >>, touches |-> << >>, current |-> FALSE]

TypeOK ==
    /\ glass \in [Ids -> Tools \cup {Nothing}]
    /\ {button, tipping, pressed, turning} \subseteq BOOLEAN
    /\ \A i \in Ids : tracked[i] \in Samples \cup {NoSample}
    /\ stylus \in {{}} \cup {{i} : i \in Ids}
    /\ batches \in Seq(Seq(Samples)) /\ Len(batches) <= MaxUnderway
    /\ turns \in 0..MaxRotations
    /\ contacts \subseteq Tools \X WireIds
    /\ frame.pens \in Seq([phase : Actions, key : BOOLEAN])
    /\ frame.touches \in Seq([id : WireIds, phase : Actions])
    /\ frame.current \in BOOLEAN
    /\ input \in [guarded : BOOLEAN, tip : BOOLEAN, suppressed : BOOLEAN, mask : SUBSET WireIds,
                  pen : BOOLEAN, held : BOOLEAN,
                  penDown : BOOLEAN, touching : SUBSET WireIds]
    /\ left \in [events : 0..MaxEvents, presses : 0..MaxPresses, rotations : 0..MaxRotations]

Init ==
    /\ glass = [i \in Ids |-> Nothing] /\ button = FALSE
    /\ tracked = [i \in Ids |-> NoSample] /\ stylus = {}
    /\ tipping = FALSE /\ pressed = FALSE
    /\ batches = << >> /\ turns = 0
    /\ contacts = {} /\ frame = NoFrame /\ turning = FALSE
    /\ \E palmGuardEnabled \in BOOLEAN :
       input = [guarded |-> palmGuardEnabled, tip |-> FALSE, suppressed |-> FALSE, mask |-> {}, pen |-> FALSE,
                held |-> FALSE, penDown |-> FALSE, touching |-> {}]
    /\ left = [events |-> MaxEvents, presses |-> MaxPresses, rotations |-> MaxRotations]

-----------------------------------------------------------------------------
(* The tablet: InputCaptureView and PalmRejectionPolicy. *)

OnGlass == {i \in Ids : glass[i] # Nothing}

Room == Len(batches) < MaxUnderway

Event ==
    /\ left.events > 0 /\ Room
    /\ left' = [left EXCEPT !.events = @ - 1]
    /\ UNCHANGED <<turns, host>>

Send(samples) == batches' = IF samples = << >> THEN batches ELSE Append(batches, samples)

\* The samples of some pointers, in the order of their ids.
Ordered(samples) ==
    LET below[i \in 0..MaxPointer + 1] ==
            IF i = 0 THEN << >>
            ELSE IF i - 1 \in DOMAIN samples THEN Append(below[i - 1], samples[i - 1])
            ELSE below[i - 1]
    IN  below[MaxPointer + 1]

Tip(action) == action \in {"down", "move"}

\* A MotionEvent: what each of its pointers does.  A touch is dropped while the
\* tip of a stylus is down, or comes down with a pointer before it in the event.
Capture(motion, tools) ==
    LET pens == {i \in DOMAIN motion : tools[i] = "pen"}
        tipped(ids) == IF ids = {} THEN tipping ELSE \E p \in ids : Tip(motion[p])
        sample(i) == [tool |-> tools[i], id |-> WireId(i), action |-> motion[i],
                      key |-> tools[i] = "pen" /\ pressed]
        seen == {i \in DOMAIN motion :
                    tools[i] = "touch" => ~tipped({p \in pens : p < i})}
    IN  /\ tipping' = tipped(pens)
        /\ stylus' = IF pens = {} THEN stylus ELSE pens
        /\ tracked' = [i \in Ids |->
                          IF i \notin seen THEN tracked[i]
                          ELSE IF motion[i] \in {"up", "cancel"} THEN NoSample
                          ELSE sample(i)]
        /\ Send(Ordered([i \in seen |-> sample(i)]))

PointerDown(tool) ==
    \E i \in Ids \ OnGlass :
        /\ \A j \in Ids \ OnGlass : i <= j
        /\ tool = "pen" => \A j \in Ids : glass[j] # "pen"
        /\ Event
        /\ glass' = [glass EXCEPT ![i] = tool]
        /\ Capture([j \in OnGlass \cup {i} |-> IF j = i THEN "down" ELSE "move"], glass')
        /\ UNCHANGED <<button, pressed>>

PointersMove ==
    /\ OnGlass # {}
    /\ Event
    /\ Capture([j \in OnGlass |-> "move"], glass)
    /\ UNCHANGED <<glass, button, pressed>>

PointerUp(i) ==
    /\ i \in OnGlass
    /\ Event
    /\ glass' = [glass EXCEPT ![i] = Nothing]
    /\ Capture([j \in OnGlass |-> IF j = i THEN "up" ELSE "move"], glass)
    /\ UNCHANGED <<button, pressed>>

GestureCancelled ==
    /\ OnGlass # {}
    /\ Event
    /\ glass' = [i \in Ids |-> Nothing]
    /\ Capture([j \in OnGlass |-> "cancel"], glass)
    /\ UNCHANGED <<button, pressed>>

\* The stylus is reported near the glass when nothing is on it.
StylusHovers ==
    /\ OnGlass = {}
    /\ Event
    /\ Capture([j \in {0} |-> "hover"], [j \in {0} |-> "pen"])
    /\ UNCHANGED <<glass, button, pressed>>

\* emitButtonStateSample repeats the last sample of the stylus as a move.
EmitButtonState(held) ==
    LET sample(i) == [tool |-> "pen", id |-> WireId(i), action |-> "move", key |-> held]
    IN  /\ tracked' = [i \in Ids |-> IF i \in stylus THEN sample(i) ELSE tracked[i]]
        /\ Send(Ordered([i \in stylus |-> sample(i)]))

KeyDown ==
    /\ left.presses > 0 /\ Room /\ ~button
    /\ left' = [left EXCEPT !.presses = @ - 1]
    /\ button' = TRUE /\ pressed' = TRUE
    /\ EmitButtonState(TRUE)
    /\ UNCHANGED <<glass, stylus, tipping, turns, host>>

KeyUpSilent ==
    /\ Room /\ button
    /\ button' = FALSE /\ pressed' = FALSE
    /\ UNCHANGED <<glass, tracked, stylus, tipping, batches, turns, host, left>>

KeyUp ==
    /\ Room /\ button
    /\ button' = FALSE /\ pressed' = FALSE
    /\ EmitButtonState(FALSE)
    /\ UNCHANGED <<glass, stylus, tipping, turns, host, left>>

\* rotationChanged: the pointers are cancelled on the input channel (the order
\* of cancels does not matter), and the rotation is reported on the control
\* channel.
Rotate ==
    /\ left.rotations > 0 /\ Room
    /\ left' = [left EXCEPT !.rotations = @ - 1]
    /\ Send(Ordered([i \in {j \in Ids : tracked[j] # NoSample} |->
                        [tracked[i] EXCEPT !.action = "cancel"]]))
    /\ tracked' = [i \in Ids |-> NoSample] /\ stylus' = {}
    /\ tipping' = FALSE /\ pressed' = FALSE
    /\ turns' = turns + 1
    /\ UNCHANGED <<glass, button, host>>

Tablet ==
    \/ \E tool \in Tools : PointerDown(tool)
    \/ PointersMove \/ GestureCancelled \/ StylusHovers
    \/ \E i \in Ids : PointerUp(i)
    \/ KeyDown \/ KeyUp
    \/ Rotate

-----------------------------------------------------------------------------
(* Windows, as the injector uses it: the call for a frame of pointers is     *)
(* refused when one of them could not do what it says.                       *)

Legal(phase, isDown) == isDown <=> phase \in {"move", "up", "cancel"}

InjectPen(s, phase) ==
    LET ok == Legal(phase, s.penDown)
    IN  [s EXCEPT !.pen = ok /\ phase \notin {"up", "cancel"},
                  !.penDown = IF ok THEN Tip(phase) ELSE @]

\* touchActiveMask_ follows the samples, whether they are refused or not.
InjectTouchesMarkingDowns(s, group) ==
    LET holding == {t.id : t \in {u \in group : Tip(u.phase)}}
        lifting == {t.id : t \in group} \ holding
        marked  == {t.id : t \in {u \in group : u.phase = "down"}}
        ok == \A t \in group : Legal(t.phase, t.id \in s.touching)
    IN  [s EXCEPT !.mask = (@ \ (lifting \cup holding)) \cup marked,
                  !.touching = IF ok THEN (@ \ lifting) \cup holding ELSE @]

InjectTouches(s, group) ==
    LET holding == {t.id : t \in {u \in group : Tip(u.phase)}}
        lifting == {t.id : t \in group} \ holding
        ok == \A t \in group : Legal(t.phase, t.id \in s.touching)
    IN  [s EXCEPT !.mask = (@ \ lifting) \cup holding,
                  !.touching = IF ok THEN (@ \ lifting) \cup holding ELSE @]

ReleaseTouches(s) ==
    [s EXCEPT !.touching = IF s.mask \subseteq @ THEN @ \ s.mask ELSE @,
              !.mask = {}]

\* The injector's ReleaseAll, with the profile's actions and the palm guard.
ReleaseEverything(s) ==
    LET lifted == ReleaseTouches(IF s.pen THEN InjectPen(s, "cancel") ELSE s)
    IN  [lifted EXCEPT !.pen = FALSE, !.held = FALSE, !.tip = FALSE, !.suppressed = FALSE]

-----------------------------------------------------------------------------
(* The host's input loop: InputBatchAdapter and InputSystem. *)

PhaseFor(action, wasContact) ==
    CASE action = "cancel"  -> "cancel"
      [] Tip(action)        -> IF wasContact THEN "move" ELSE "down"
      [] OTHER              -> IF wasContact THEN "up" ELSE "hover"

AdaptSample(a, sample) ==
    LET key == <<sample.tool, sample.id>>
        phase == PhaseFor(sample.action, key \in a.contacts)
    IN  [contacts |-> IF Tip(sample.action) THEN a.contacts \cup {key} ELSE a.contacts \ {key},
         pens     |-> IF sample.tool = "pen"
                      THEN Append(a.pens, [phase |-> phase, key |-> sample.key]) ELSE a.pens,
         touches  |-> IF sample.tool = "touch" /\ phase # "hover"
                      THEN Append(a.touches, [id |-> sample.id, phase |-> phase])
                      ELSE a.touches]

Adapt ==
    /\ frame = NoFrame
    /\ batches # << >>
    /\ LET adapted == FoldLeft(AdaptSample,
                               [contacts |-> contacts, pens |-> << >>, touches |-> << >>],
                               Head(batches))
       IN  /\ contacts' = adapted.contacts
           /\ frame' = IF adapted.pens = << >> /\ adapted.touches = << >> THEN NoFrame
                       ELSE [pens |-> adapted.pens, touches |-> adapted.touches,
                             current |-> ~turning]
    /\ batches' = Tail(batches)
    /\ UNCHANGED <<tablet, turns, turning, input, left>>

\* A pen sample; touches are released once when the guard begins to suppress.
ProcessPenSilently(s, sample) ==
    LET tip == Tip(sample.phase)
    IN  InjectPen([s EXCEPT !.tip = tip, !.held = sample.key,
                            !.suppressed = @ \/ (s.guarded /\ tip)], sample.phase)

ProcessPen(s, sample) ==
    LET tip == Tip(sample.phase)
        blocked == s.guarded /\ tip
        lifted == IF blocked /\ ~s.suppressed THEN ReleaseTouches(s) ELSE s
    IN  InjectPen([lifted EXCEPT !.tip = tip, !.held = sample.key,
                                 !.suppressed = @ \/ blocked], sample.phase)

\* NextTouchInjectionGroupEnd: no pointer twice in one injection.
AddToGroup(groups, t) ==
    IF groups # << >> /\ t.id \notin {u.id : u \in Last(groups)}
    THEN [groups EXCEPT ![Len(groups)] = @ \cup {t}]
    ELSE Append(groups, {t})

ProcessTouchesUnguarded(s, touches) ==
    IF touches = << >> THEN s
    ELSE FoldLeft(InjectTouches, [s EXCEPT !.suppressed = FALSE],
                  FoldLeft(AddToGroup, << >>, touches))

ProcessTouchesStillSuppressed(s, touches) ==
    IF touches = << >> THEN s
    ELSE IF s.guarded /\ s.tip THEN [s EXCEPT !.suppressed = TRUE]
    ELSE FoldLeft(InjectTouches, s, FoldLeft(AddToGroup, << >>, touches))

ProcessTouches(s, touches) ==
    IF touches = << >> THEN s
    ELSE IF s.guarded /\ s.tip THEN [s EXCEPT !.suppressed = TRUE]
    ELSE FoldLeft(InjectTouches, [s EXCEPT !.suppressed = FALSE],
                  FoldLeft(AddToGroup, << >>, touches))

\* A frame of an old orientation maps to no point: all is released.
Process ==
    /\ frame # NoFrame
    /\ input' = IF frame.current
                THEN ProcessTouches(FoldLeft(ProcessPen, input, frame.pens), frame.touches)
                ELSE IF frame.pens # << >> THEN ReleaseEverything(input)
                ELSE ReleaseTouches(input)
    /\ frame' = NoFrame
    /\ UNCHANGED <<tablet, batches, turns, contacts, turning, left>>

-----------------------------------------------------------------------------
(* The control loop, when the tablet has been rotated: first the mapper gets *)
(* the new epoch, then the adapter.                                          *)

OnOrientationChange ==
    /\ turns > 0 /\ ~turning
    /\ turns' = turns - 1
    /\ turning' = TRUE
    /\ frame' = [frame EXCEPT !.current = FALSE]
    /\ input' = ReleaseEverything(input)
    /\ UNCHANGED <<tablet, batches, contacts, left>>

SetOrientationEpochOnly ==
    /\ turning
    /\ turning' = FALSE
    /\ UNCHANGED <<tablet, batches, turns, contacts, frame, input, left>>

SetOrientationEpoch ==
    /\ turning
    /\ turning' = FALSE
    /\ contacts' = {}
    /\ UNCHANGED <<tablet, batches, turns, frame, input, left>>

Next == Tablet \/ Adapt \/ Process \/ OnOrientationChange \/ SetOrientationEpoch

Spec == Init /\ [][Next]_vars

-----------------------------------------------------------------------------
(* Properties. *)

\* Everything the tablet has sent has been processed.
Delivered == batches = << >> /\ frame = NoFrame /\ turns = 0 /\ ~turning

Fingers == {i \in Ids : glass[i] = "touch"}
Pens    == {i \in Ids : glass[i] = "pen"}

\* Windows holds a finger, or the pen, only while one is on the glass, although
\* the tablet does not report what happens to fingers beside the pen: the host's
\* palm guard must lift them, and is needed for it.  The pen part holds as long
\* as no button has been used, whose samples are moves of the pen.
NothingStuck ==
    Delivered /\ input.guarded =>
        /\ input.touching # {} => Fingers # {}
        /\ input.penDown /\ left.presses = MaxPresses => Pens # {}

\* While the pen draws no finger is down in Windows, in whatever order they came
\* and whatever a rotation has reset.  (palm_guard.h:9-11)
PalmRejected == input.guarded /\ input.penDown => input.touching = {}

\* The releases reach everything that is down in Windows.
MaskCovers == input.touching \subseteq input.mask

\* Skipping the release while touches are suppressed skips nothing.
SuppressedMeansLifted == input.suppressed => input.touching = {}

\* The adapter, which derives the next phase of the pen, knows whether Windows
\* has it down, also when a rotation falls between a batch's two steps.
PenAgrees ==
    frame = NoFrame /\ ~turning =>
        (input.penDown <=> \E key \in contacts : key[1] = "pen")

\* The key that a stylus button stands for is released with the button, whatever
\* the stylus does meanwhile, as long as no rotation forgets a held button.
KeyReleased ==
    Delivered /\ ~button /\ left.rotations = MaxRotations => ~input.held

\* The host's records of what is down agree with Windows and with the tablet.
PathAgrees == MaskCovers /\ SuppressedMeansLifted /\ PenAgrees /\ KeyReleased

-----------------------------------------------------------------------------
(* Statements of the documentation that the code does not meet (README.md). *)

\* Multi-touch: as many fingers are down in Windows as on the glass.  (README.md:8)
EveryFingerTouches ==
    Delivered /\ stylus = {} => Cardinality(input.touching) = Cardinality(Fingers)

\* A finger that comes down when the pen has gone touches.  (handoff.md:58)
FingersWorkAfterPen ==
    Delivered /\ input.guarded /\ Pens = {} =>
        \A i \in Fingers : tracked[i] # NoSample /\ tracked[i].action = "down"
                               => WireId(i) \in input.touching
=============================================================================

---------------------------- MODULE FramedStream ----------------------------
(***************************************************************************)
(* FramedStream over a byte stream.  A frame travels in two pieces, the    *)
(* one that ends with its payload's length and the rest: where the bytes   *)
(* are really split makes no other difference to the reader.               *)
(***************************************************************************)
EXTENDS Naturals, Sequences

CONSTANT MaxWanted      \* bound on the pieces a reader that lost its place waits for

ASSUME FramedStreamAssumption == MaxWanted \in Nat \ {0}

Pieces(frame) == <<[frame |-> frame, part |-> 1], [frame |-> frame, part |-> 2]>>

\* The locals of ReadFrame: the pieces read, and how many make the frame.
Fresh == [got |-> <<>>, wanted |-> 2]

MidFrame(reader) == reader.got # <<>>

\* ReadExact, of the header and then of the payload.  A reader that takes the
\* middle of a frame for a header finds some length in it.
Taken(reader, piece) ==
    IF MidFrame(reader) THEN { [reader EXCEPT !.got = Append(@, piece)] }
    ELSE { [got |-> <<piece>>, wanted |-> n] : n \in IF piece.part = 1 THEN {2} ELSE 1 .. MaxWanted }

\* The receive timeout passes: ReadFrame returns kWouldBlock, its locals are
\* gone, and the caller calls it again.
TimedOut(reader) == Fresh

Complete(reader) == Len(reader.got) >= reader.wanted

\* Mutant: the header is not looked at.
DecodesAnything(pieces) == TRUE

\* decodeFrame: the magic, the version and the length are those of a frame.
Decodes(pieces) == Len(pieces) = 2 /\ pieces = Pieces(pieces[1].frame)
=============================================================================

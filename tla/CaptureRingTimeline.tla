------------------------ MODULE CaptureRingTimeline ------------------------
(***************************************************************************)
(* The capture ring implements the timeline of takes.  A take is under way *)
(* from the store of `read` that publishes it to finish_take; a block has  *)
(* arrived once `written` is past it.                                      *)
(***************************************************************************)
EXTENDS CaptureRing

UnderWay == read # Parked /\ wr # "park"
Opened   == UnderWay /\ open

\* The timeline's state, read off the ring's.
Gone    == {p \in lost : p < written}
TakeWindow == [start |-> takeStart, end |-> keepUntil]
TheTake == IF UnderWay THEN {TakeWindow} ELSE {}
TheFile == IF Opened THEN file ELSE NoFile
GivenUp == Opened /\ skipping
AsPast(t) == [start |-> t.start, end |-> t.end, file |-> t.file,
               skipped |-> t.skipped]
Past    == [i \in DOMAIN done |-> AsPast(done[i])]

Timeline == INSTANCE TakeTimeline WITH
    Lap     <- Slots,
    now     <- written,
    gone    <- Gone,
    take    <- TheTake,
    file    <- TheFile,
    givenUp <- GivenUp,
    past    <- Past

\* Every behaviour of the three threads on the ring is a behaviour of the
\* timeline: takes are exact windows written in order, lost blocks as silence.
TimelineSpec == Timeline!Spec

-----------------------------------------------------------------------------
(* What the refinement rests on besides the ring's invariant.                *)

LastEnd == IF done = <<>> THEN 0 ELSE done[Len(done)].end

\* `floor` is where the last finished take ended, but while a take that ended
\* is still drained, whose end it is; the callback stores it a step later.
FloorInv ==
    /\ cb # "ending" /\ ~UnderWay => floor = LastEnd
    /\ cb # "ending" /\ keepUntil # Parked /\ UnderWay => floor = keepUntil
    /\ keepUntil = Parked => floor = LastEnd
    /\ cb = "ending" /\ ~UnderWay => keepUntil = LastEnd

\* A take begins as early as it may, and is overtaken only a lap after its end.
EarlyInv ==
    /\ cb = "starting" => takeStart = TakeBegins
    /\ overtaken /\ read # Parked
         => keepUntil # Parked /\ written >= keepUntil + Slots
=============================================================================

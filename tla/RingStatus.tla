----------------------------- MODULE RingStatus -----------------------------
(***************************************************************************)
(* What the page is told of the ring: Recorder::status takes the phase     *)
(* lock, so that no command runs meanwhile, and Capture::snapshot loads    *)
(* one atomic after another while the callback and the writer go on.       *)
(***************************************************************************)
EXTENDS CaptureRing

VARIABLES
    sn,          \* where snapshot() is
    sWritten,    \* its `written`
    sRecording,  \* its `recording`
    sStart,      \* its window's start
    sPressed,    \* and pressed_at
    sHeld,       \* its held_frames, in blocks
    began        \* history: a take began since `recording` was loaded

snVars     == <<sn, sWritten, sRecording, sStart, sPressed, sHeld, began>>
statusVars == <<vars, snVars>>

Wrap == Torn + 1   \* stands for 2^64: more than any position

StatusTypeOK ==
    /\ TypeOK
    /\ sn \in {"idle", "recording", "start", "pressed", "held", "told"}
    /\ sWritten \in Positions /\ sRecording \in BOOLEAN /\ began \in BOOLEAN
    /\ sStart \in Positions /\ sPressed \in Positions
    /\ sHeld \in 0 .. Wrap - 1

StatusInit ==
    /\ Init
    /\ sn = "idle" /\ sWritten = 0 /\ sRecording = FALSE
    /\ sStart = 0 /\ sPressed = 0 /\ sHeld = 0 /\ began = FALSE

Look ==
    /\ sn = "idle" /\ ui = "armed"
    /\ sWritten' = written
    /\ sn' = "recording"
    /\ UNCHANGED <<vars, sRecording, sStart, sPressed, sHeld, began>>

LoadRecording ==
    /\ sn = "recording"
    /\ sRecording' = recording
    /\ began' = FALSE
    /\ sn' = IF recording THEN "start" ELSE "held"
    /\ UNCHANGED <<vars, sWritten, sStart, sPressed, sHeld>>

LoadStart ==
    /\ sn = "start"
    /\ sStart' = takeStart
    /\ sn' = "pressed"
    /\ UNCHANGED <<vars, sWritten, sRecording, sPressed, sHeld, began>>

LoadPressed ==
    /\ sn = "pressed"
    /\ sPressed' = pressedAt
    /\ sn' = "held"
    /\ UNCHANGED <<vars, sWritten, sRecording, sStart, sHeld, began>>

\* Of a take: pressed_at - start, in u64.  Otherwise: what Record would reach
\* back to, from where the stream was when the snapshot began.
PressedLessStart == (Wrap + sPressed - sStart) % Wrap

HeldFrames_SinceStart ==
    IF sRecording THEN Back(sWritten, sStart)
    ELSE Lesser(Back(sWritten, floor), Preroll)

HeldFrames ==
    IF sRecording THEN PressedLessStart
    ELSE Lesser(Back(sWritten, floor), Preroll)

TellHeld ==
    /\ sn = "held"
    /\ sHeld' = HeldFrames
    /\ sn' = "told"
    /\ UNCHANGED <<vars, sWritten, sRecording, sStart, sPressed, began>>

Told ==
    /\ sn = "told"
    /\ sn' = "idle"
    /\ UNCHANGED <<vars, sWritten, sRecording, sStart, sPressed, sHeld, began>>

Snapshot ==
    Look \/ LoadRecording \/ LoadStart \/ LoadPressed \/ TellHeld \/ Told

StatusNext ==
    \/ Snapshot
    \/ /\ Callback \/ Writer \/ Off
       /\ began' = (began \/ cb' = "starting")
       /\ UNCHANGED <<sn, sWritten, sRecording, sStart, sPressed, sHeld>>
    \/ /\ Person /\ sn = "idle"
       /\ UNCHANGED snVars

StatusSpec == StatusInit /\ [][StatusNext]_statusVars

\* As long as no take begins while a snapshot is being taken, what it says is
\* held while recording is what the running take reached back, even when the
\* take ends meanwhile; and never more than the pre-roll.
HeldIsOfTheTake ==
    sn = "told" /\ sRecording /\ ~began =>
        sHeld = pressedAt - takeStart /\ sHeld <= Preroll

\* capture.rs, of held_frames: what Record would reach back to, or what the
\* take started with.  Neither is ever more than the pre-roll.
HeldIsAtMostPreroll == sn = "told" => sHeld <= Preroll
=============================================================================

---------------------------- MODULE CaptureRing ----------------------------
(***************************************************************************)
(* The capture ring of the recorder (crates/gazelle-audio-record): the     *)
(* audio callback pushes one block at a time, the writer thread drains the *)
(* take that is running, and a person asks for takes and disarms.  Nothing *)
(* is locked: the three threads share atomics, so one action here is one   *)
(* access of one thread to what another thread can see, with the accesses  *)
(* to its own state that follow it.                                        *)
(*                                                                         *)
(* Positions are counted in blocks.  A block is atomic here except its     *)
(* samples: filling a slot is two steps (CheckSlot, FillSlot), and so is   *)
(* copying out of one (ReadBlock, WriteBlock), with Torn in the slot       *)
(* between the first two.                                                  *)
(***************************************************************************)
EXTENDS Naturals, FiniteSets, Sequences

CONSTANTS
    Slots,        \* slots in the ring, one block each
    Preroll,      \* the pre-roll, in blocks
    BlocksAStep,  \* BLOCKS_A_STEP: what the writer takes before it looks up
    Horizon,      \* bound: blocks the stream delivers
    Commands,     \* bound: what the person does besides Disarm, and failures with it
    CountIns,     \* whether a Record has a count-in: what the choice is among
    Failures      \* bound: failures of the disk

ASSUME SlotsAssumption       == Slots \in Nat /\ Slots >= 2
ASSUME PrerollAssumption     == Preroll \in Nat /\ Preroll < Slots
ASSUME BlocksAStepAssumption == BlocksAStep \in Nat /\ BlocksAStep >= 1
ASSUME HorizonAssumption     == Horizon \in Nat
ASSUME CommandsAssumption    == Commands \in Nat
ASSUME CountInsAssumption    == CountIns \in SUBSET BOOLEAN
ASSUME FailuresAssumption    == Failures \in Nat

Parked  == Horizon + 1   \* u64::MAX: after every position, and an unused tag
Silence == Horizon + 2   \* in a file: a block of zeros the writer made up
Torn    == Horizon + 3   \* in a slot: samples of more than one block

Positions == 0 .. Horizon
Optional  == 0 .. Parked
Content   == 0 .. Torn

Slot(p)   == p % Slots
Lesser(a, b)  == IF a <= b THEN a ELSE b
Greater(a, b) == IF a >= b THEN a ELSE b
\* saturating_sub; wrapping, it would be past every position.
Back_Wraps(p, n) == IF p >= n THEN p - n ELSE Torn + 1
Back(p, n)       == IF p >= n THEN p - n ELSE 0

VARIABLES
    \* The atomics of `Capture`, its slots, and `lost`, the positions that
    \* `overruns` counts and `last_overrun` is the last of.
    tags, data, written, read, keepUntil, floor, want, recording,
    takeStart, pressedAt, pending, lost,
    \* The callback: where it is in block_happened, and a press it carries.
    cb, cbPressed, inTap,
    \* The writer: where it is in Drain::step, and that function's locals.
    wr, wEnd, wLimit, wAt, wWrote, open, wStart, file, skipping, stopped,
    failures,
    \* The person: where Stop or Disarm is, the tap the callback may use, the
    \* count-in under way (when it was asked for), and the writer's leave flag.
    ui, tap, counting, leave, commands,
    \* History: the takes finished, when the first Record since the last Stop
    \* was pressed, and whether the callback has gone round the whole ring
    \* since the take that is draining ended.
    done, asked, overtaken

ringVars == <<tags, data, lost>>
takeVars == <<takeStart, pressedAt>>
endVars  == <<keepUntil, floor, recording>>
stepVars == <<wEnd, wLimit, wAt, wWrote>>
fileVars == <<open, wStart, file, skipping, stopped, failures, done>>
uiVars   == <<ui, tap, leave, commands, asked>>
vars == <<ringVars, takeVars, endVars, stepVars, fileVars, uiVars, written,
          read, want, pending, cb, cbPressed, inTap, wr, counting, overtaken>>

NoFile == [p \in {} |-> Silence]

CaptureTypeOK ==
    /\ tags \in [0 .. Slots - 1 -> Optional]
    /\ data \in [0 .. Slots - 1 -> Content]
    /\ lost \in SUBSET Positions
    /\ written \in Positions
    /\ read \in Optional /\ keepUntil \in Optional
    /\ floor \in Positions
    /\ want \in BOOLEAN /\ recording \in BOOLEAN
    /\ takeStart \in Positions /\ pressedAt \in Positions
    /\ pending \in Optional

CallbackTypeOK ==
    /\ cb \in {"idle", "tap", "counted", "counting", "begin", "wanted",
               "unwanted", "ending", "starting", "check", "fill", "publish"}
    /\ cbPressed \in Optional
    /\ inTap \in BOOLEAN /\ overtaken \in BOOLEAN

WriterTypeOK ==
    /\ wr \in {"look", "end", "limit", "drain", "copy", "consume", "park",
               "gone", "give_up_open", "give_up_write", "give_up_disk",
               "finish"}
    /\ wEnd \in Optional /\ wLimit \in Positions /\ wAt \in Positions
    /\ wWrote \in 0 .. BlocksAStep
    /\ open \in BOOLEAN /\ wStart \in Positions
    /\ skipping \in BOOLEAN /\ stopped \in BOOLEAN
    /\ failures \in 0 .. Failures

FileTypeOK ==
    /\ DOMAIN file \subseteq Positions
    /\ file \in [DOMAIN file -> Content]

PersonTypeOK ==
    /\ ui \in {"armed", "stopping", "disarming", "disarmed", "detached",
               "joining", "off"}
    /\ tap \in BOOLEAN /\ leave \in BOOLEAN
    /\ counting \in Optional /\ asked \in Optional
    /\ commands \in 0 .. Commands

TypeOK ==
    /\ CaptureTypeOK /\ CallbackTypeOK
    /\ WriterTypeOK /\ FileTypeOK /\ PersonTypeOK

Init ==
    /\ tags = [s \in 0 .. Slots - 1 |-> Parked]
    /\ data = [s \in 0 .. Slots - 1 |-> Silence]
    /\ written = 0 /\ read = Parked /\ keepUntil = 0 /\ floor = 0
    /\ want = FALSE /\ recording = FALSE
    /\ takeStart = 0 /\ pressedAt = 0 /\ pending = Parked
    /\ lost = {}
    /\ cb = "idle" /\ cbPressed = Parked /\ inTap = FALSE
    /\ wr = "look" /\ wEnd = 0 /\ wLimit = 0 /\ wAt = 0 /\ wWrote = 0
    /\ open = FALSE /\ wStart = 0 /\ file = NoFile /\ skipping = FALSE
    /\ stopped = FALSE /\ failures = 0
    /\ ui = "armed" /\ tap = TRUE /\ counting = Parked /\ leave = FALSE
    /\ commands = 0
    /\ done = <<>> /\ asked = Parked /\ overtaken = FALSE

-----------------------------------------------------------------------------
(* The callback: Shared::block_happened, then Capture::push_with.            *)

CallbackFrame == UNCHANGED <<stepVars, fileVars, uiVars, wr>>

\* The outputs are filled, where a count-in may reach its downbeat (the
\* generator decides when; here, at any block), and the tap is about to be
\* looked at.
BlockBegins ==
    /\ cb = "idle" /\ written < Horizon
    /\ \/ UNCHANGED <<cbPressed, counting>>
       \/ /\ counting # Parked
          /\ cbPressed' = counting
          /\ counting' = Parked
    /\ inTap' = TRUE
    /\ cb' = "tap"
    /\ CallbackFrame
    /\ UNCHANGED <<ringVars, takeVars, endVars, pending, written, read, want,
                   overtaken>>

\* A tap that is gone costs the block, and a take the count-in was for.
LoadTap ==
    /\ cb = "tap"
    /\ IF tap
       THEN /\ cb' = IF cbPressed # Parked THEN "counted" ELSE "begin"
            /\ UNCHANGED <<inTap, cbPressed>>
       ELSE /\ cb' = "idle"
            /\ inTap' = FALSE
            /\ cbPressed' = Parked
    /\ CallbackFrame
    /\ UNCHANGED <<ringVars, takeVars, endVars, pending, written, read, want,
                   counting, overtaken>>

\* start_take_counted: what is pending first, then the wish.
CountedPending ==
    /\ cb = "counted"
    /\ pending' = cbPressed
    /\ cbPressed' = Parked
    /\ cb' = "counting"
    /\ CallbackFrame
    /\ UNCHANGED <<ringVars, takeVars, endVars, written, read, want, inTap,
                   counting, overtaken>>

CountedWants ==
    /\ cb = "counting"
    /\ want' = TRUE
    /\ cb' = "begin"
    /\ CallbackFrame
    /\ UNCHANGED <<ringVars, takeVars, endVars, pending, written, read,
                   cbPressed, inTap, counting, overtaken>>

\* What the person asked for is loaded first, and the rest goes by that.
LoadWant ==
    /\ cb = "begin"
    /\ cb' = IF want THEN "wanted" ELSE "unwanted"
    /\ CallbackFrame
    /\ UNCHANGED <<ringVars, takeVars, endVars, pending, written, read, want,
                   cbPressed, inTap, counting, overtaken>>

\* The take ends where this block begins.
EndTake ==
    /\ cb = "unwanted" /\ recording
    /\ keepUntil' = written
    /\ cb' = "ending"
    /\ CallbackFrame
    /\ UNCHANGED <<ringVars, takeVars, pending, written, read, floor, want,
                   recording, cbPressed, inTap, counting, overtaken>>

TakeEnded ==
    /\ cb = "ending"
    /\ floor' = written
    /\ recording' = FALSE
    /\ cb' = "check"
    /\ CallbackFrame
    /\ UNCHANGED <<ringVars, takeVars, pending, written, read, keepUntil,
                   want, cbPressed, inTap, counting, overtaken>>

\* The oldest block still held, but nothing the last take already has.
TakeBegins_IgnoresFloor == Back(written, Preroll)
TakeBegins == Greater(floor, Back(written, Preroll))

\* Only once the writer has parked.
MayStart_Once == ~recording /\ read = Parked /\ floor = 0
MayStart == ~recording /\ read = Parked

StartTake ==
    /\ cb = "wanted" /\ MayStart
    /\ takeStart' = TakeBegins
    /\ cbPressed' = pending
    /\ pending' = Parked
    /\ cb' = "starting"
    /\ CallbackFrame
    /\ UNCHANGED <<ringVars, endVars, written, read, want, pressedAt,
                   inTap, counting, overtaken>>

\* The rest of the take is stored, and `read` publishes it last.
PublishTake ==
    /\ cb = "starting"
    /\ pressedAt' = IF cbPressed = Parked THEN written
                    ELSE Lesser(Greater(cbPressed, takeStart), written)
    /\ cbPressed' = Parked
    /\ keepUntil' = Parked
    /\ recording' = TRUE
    /\ read' = takeStart
    /\ overtaken' = FALSE
    /\ cb' = "check"
    /\ CallbackFrame
    /\ UNCHANGED <<ringVars, written, floor, want, takeStart, pending,
                   inTap, counting>>

TakeGoesOn ==
    /\ \/ cb = "wanted" /\ ~MayStart
       \/ cb = "unwanted" /\ ~recording
    /\ cb' = "check"
    /\ CallbackFrame
    /\ UNCHANGED <<ringVars, takeVars, endVars, pending, written, read, want,
                   cbPressed, inTap, counting, overtaken>>

\* Whether the block one lap ago is audio the writer has still to take.
Needed_OffByOne ==
    /\ written >= Slots
    /\ read # Parked
    /\ written - Slots > read
    /\ written - Slots < keepUntil

Needed_NotOnceEnded ==
    /\ written >= Slots
    /\ read # Parked
    /\ written - Slots >= read
    /\ keepUntil = Parked

Needed ==
    /\ written >= Slots
    /\ read # Parked
    /\ written - Slots >= read
    /\ written - Slots < keepUntil

\* The slot keeps what is needed, and this block is lost; or it is filled.
CheckSlot ==
    /\ cb = "check"
    /\ IF Needed
       THEN /\ lost' = lost \cup {written}
            /\ cb' = "publish"
            /\ UNCHANGED data
       ELSE /\ data' = [data EXCEPT ![Slot(written)] = Torn]
            /\ cb' = "fill"
            /\ UNCHANGED lost
    /\ CallbackFrame
    /\ UNCHANGED <<takeVars, endVars, pending, tags, written, read, want,
                   cbPressed, inTap, counting, overtaken>>

FillSlot ==
    /\ cb = "fill"
    /\ data' = [data EXCEPT ![Slot(written)] = written]
    /\ tags' = [tags EXCEPT ![Slot(written)] = written]
    /\ cb' = "publish"
    /\ CallbackFrame
    /\ UNCHANGED <<takeVars, endVars, pending, lost, written, read, want,
                   cbPressed, inTap, counting, overtaken>>

\* The take that is draining ended a lap of the ring before the next block.
RoundAgain ==
    read # Parked /\ keepUntil # Parked /\ written + 1 >= keepUntil + Slots

PublishBlock ==
    /\ cb = "publish"
    /\ written' = written + 1
    /\ inTap' = FALSE
    /\ overtaken' = (overtaken \/ RoundAgain)
    /\ cb' = "idle"
    /\ CallbackFrame
    /\ UNCHANGED <<ringVars, takeVars, endVars, pending, read, want,
                   cbPressed, counting>>

Callback ==
    \/ BlockBegins \/ LoadTap \/ CountedPending \/ CountedWants
    \/ LoadWant \/ EndTake \/ TakeEnded \/ StartTake \/ PublishTake
    \/ TakeGoesOn \/ CheckSlot \/ FillSlot \/ PublishBlock

-----------------------------------------------------------------------------
(* The writer thread: Drain::step, over and over.                            *)

WriterFrame ==
    UNCHANGED <<ringVars, takeVars, endVars, uiVars, written, cb, cbPressed,
                inTap, counting, overtaken>>

\* want_recording(false), whoever calls it: what is pending first.
ClearPending == pending' = Parked

\* The disk fails the open take, which is stopped for it: the first half of
\* the writer's own want_recording(false).
Fail ==
    /\ failures < Failures /\ commands + failures < Commands
    /\ failures' = failures + 1
    /\ stopped' = TRUE
    /\ ClearPending

\* take() and open_take.  A take whose files cannot be made is given up, and
\* still drained.
OpenTake ==
    /\ wr = "look" /\ read # Parked /\ ~open
    /\ open' = TRUE
    /\ wStart' = takeStart
    /\ file' = NoFile
    /\ \/ /\ skipping' = FALSE /\ stopped' = FALSE
          /\ wr' = "end"
          /\ UNCHANGED <<failures, pending>>
       \/ /\ Fail
          /\ skipping' = TRUE
          /\ wr' = "give_up_open"
    /\ WriterFrame
    /\ UNCHANGED <<stepVars, read, want, done>>

TakeStillOpen ==
    /\ wr = "look" /\ read # Parked /\ open
    /\ wr' = "end"
    /\ WriterFrame
    /\ UNCHANGED <<pending, stepVars, fileVars, read, want>>

\* The end of the take is looked at, and only later (claim_checks comes
\* between) how far the callback has got.
LoadEnd ==
    /\ wr = "end"
    /\ wEnd' = keepUntil
    /\ wr' = "limit"
    /\ WriterFrame
    /\ UNCHANGED <<pending, fileVars, read, want, wLimit, wAt, wWrote>>

LoadLimit ==
    /\ wr = "limit"
    /\ wLimit' = Lesser(wEnd, written)
    /\ wAt' = read
    /\ wWrote' = 0
    /\ wr' = "drain"
    /\ WriterFrame
    /\ UNCHANGED <<pending, fileVars, read, want, wEnd>>

\* The step goes as far as was published when it looked, a batch at a time.
MoreToDrain_Past == wAt <= wLimit /\ wWrote < BlocksAStep
MoreToDrain == wAt < wLimit /\ wWrote < BlocksAStep

Extended(x) ==
    [p \in DOMAIN file \cup {wAt} |-> IF p = wAt THEN x ELSE file[p]]

\* The block goes into every file, unless the take is being skipped.  A write
\* that fails gives the take up; what the channels before it got is left out.
Write(x) ==
    \/ /\ skipping
       /\ wr' = "consume"
       /\ UNCHANGED <<file, skipping, stopped, failures, pending>>
    \/ /\ ~skipping
       /\ file' = Extended(x)
       /\ wr' = "consume"
       /\ UNCHANGED <<skipping, stopped, failures, pending>>
    \/ /\ ~skipping
       /\ Fail
       /\ skipping' = TRUE
       /\ wr' = "give_up_write"
       /\ UNCHANGED file

\* block_at: the tag says the block is there, or that it never arrived.
ReadBlock ==
    /\ wr = "drain" /\ MoreToDrain
    /\ tags[Slot(wAt)] = wAt
    /\ wr' = "copy"
    /\ WriterFrame
    /\ UNCHANGED <<pending, stepVars, fileVars, read, want>>

WriteBlock ==
    /\ wr = "copy"
    /\ Write(data[Slot(wAt)])
    /\ WriterFrame
    /\ UNCHANGED <<stepVars, read, want, open, wStart, done>>

WriteSilence ==
    /\ wr = "drain" /\ MoreToDrain
    /\ tags[Slot(wAt)] # wAt
    /\ Write(Silence)
    /\ WriterFrame
    /\ UNCHANGED <<stepVars, read, want, open, wStart, done>>

Consume ==
    /\ wr = "consume"
    /\ read' = wAt + 1
    /\ wAt' = wAt + 1
    /\ wWrote' = wWrote + 1
    /\ wr' = "drain"
    /\ WriterFrame
    /\ UNCHANGED <<pending, fileVars, want, wEnd, wLimit>>

\* look_at_disk once the blocks are written: a disk nearly full stops a take
\* that is still wanted, and goes on writing it.
LookAtDisk ==
    /\ wr = "drain" /\ ~MoreToDrain
    /\ \/ /\ wr' = "finish"
          /\ UNCHANGED <<stopped, failures, pending>>
       \/ /\ want /\ ~stopped
          /\ Fail
          /\ wr' = "give_up_disk"
    /\ WriterFrame
    /\ UNCHANGED <<stepVars, read, want, open, wStart, file, skipping, done>>

\* The second half of the writer's want_recording(false).
GiveUp ==
    /\ wr \in {"give_up_open", "give_up_write", "give_up_disk"}
    /\ want' = FALSE
    /\ wr' = CASE wr = "give_up_open"  -> "end"
               [] wr = "give_up_write" -> "consume"
               [] wr = "give_up_disk"  -> "finish"
    /\ WriterFrame
    /\ UNCHANGED <<pending, stepVars, fileVars, read>>

\* The take has ended, as far as the step knows, and all of it is written.
Drained_ABlockShort == wEnd # Parked /\ wAt + 1 >= wEnd
Drained_Past == wEnd # Parked /\ wAt > wEnd
Drained == wEnd # Parked /\ wAt >= wEnd

\* finish_take: the files are closed with the end the step loaded.
FinishTake ==
    /\ wr = "finish" /\ Drained
    /\ done' = Append(done, [start |-> wStart, end |-> wEnd, file |-> file,
                             skipped |-> skipping, overtaken |-> overtaken])
    /\ open' = FALSE
    /\ wr' = "park"
    /\ WriterFrame
    /\ UNCHANGED <<pending, stepVars, read, want, wStart, file, skipping,
                   stopped, failures>>

StepAgain ==
    /\ wr = "finish" /\ ~Drained
    /\ wr' = "look"
    /\ WriterFrame
    /\ UNCHANGED <<pending, stepVars, fileVars, read, want>>

Park ==
    /\ wr = "park"
    /\ read' = Parked
    /\ wr' = "look"
    /\ WriterFrame
    /\ UNCHANGED <<pending, stepVars, fileVars, want>>

\* The thread leaves once it was told to and no take is left.
MayLeave_AtOnce == leave
MayLeave == leave /\ read = Parked /\ ~open

Leave ==
    /\ wr = "look" /\ MayLeave
    /\ wr' = "gone"
    /\ WriterFrame
    /\ UNCHANGED <<pending, stepVars, fileVars, read, want>>

Writer ==
    \/ OpenTake \/ TakeStillOpen \/ LoadEnd \/ LoadLimit \/ ReadBlock
    \/ WriteBlock \/ WriteSilence \/ Consume \/ LookAtDisk \/ GiveUp
    \/ FinishTake \/ StepAgain \/ Park \/ Leave

-----------------------------------------------------------------------------
(* The person: Recorder::record, stop and disarm, one at a time under the    *)
(* recorder's phase lock, and Shared::detach.                                *)

PersonFrame ==
    UNCHANGED <<ringVars, takeVars, stepVars, fileVars, written, read, cb,
                cbPressed, inTap, wr, overtaken>>

Command == ui = "armed" /\ commands + failures < Commands /\ commands' = commands + 1

Record ==
    /\ Command /\ ~want /\ counting = Parked
    /\ asked' = Lesser(asked, written)
    /\ \/ TRUE \in CountIns /\ counting' = written /\ UNCHANGED want
       \/ FALSE \in CountIns /\ want' = TRUE /\ UNCHANGED counting
    /\ PersonFrame
    /\ UNCHANGED <<endVars, pending, ui, tap, leave>>

\* The count-in is cancelled and what is pending cleared; then the wish falls.
Stop ==
    /\ Command
    /\ counting' = Parked
    /\ ClearPending
    /\ ui' = "stopping"
    /\ PersonFrame
    /\ UNCHANGED <<endVars, want, tap, leave, asked>>

Stopped ==
    /\ ui = "stopping"
    /\ want' = FALSE
    /\ asked' = Parked
    /\ ui' = "armed"
    /\ PersonFrame
    /\ UNCHANGED <<endVars, pending, tap, leave, commands, counting>>

Disarm ==
    /\ ui = "armed"
    /\ counting' = Parked
    /\ ClearPending
    /\ ui' = "disarming"
    /\ PersonFrame
    /\ UNCHANGED <<endVars, want, tap, leave, commands, asked>>

DisarmStops ==
    /\ ui = "disarming"
    /\ want' = FALSE
    /\ ui' = "disarmed"
    /\ PersonFrame
    /\ UNCHANGED <<endVars, pending, tap, leave, commands, asked, counting>>

\* detach: the tap is taken away, and then no callback may be looking at it.
Detach ==
    /\ ui = "disarmed"
    /\ tap' = FALSE
    /\ ui' = "detached"
    /\ PersonFrame
    /\ UNCHANGED <<endVars, pending, want, leave, commands, asked, counting>>

\* A callback that got the tap before it was taken says so until it is done.
NoCallbackInside_NotWaited == TRUE
NoCallbackInside == ~inTap

\* close_after_stream_stopped ends a take where the audio ended.
TakeToClose_LeftOpen == FALSE
TakeToClose == recording

\* The close, after which the writer is told to leave.
CloseRing ==
    /\ ui = "detached" /\ NoCallbackInside
    /\ want' = FALSE
    /\ IF TakeToClose
       THEN /\ keepUntil' = written
            /\ floor' = written
            /\ recording' = FALSE
       ELSE UNCHANGED <<keepUntil, floor, recording>>
    /\ leave' = TRUE
    /\ ui' = "joining"
    /\ PersonFrame
    /\ UNCHANGED <<pending, tap, commands, asked, counting>>

JoinWriter ==
    /\ ui = "joining" /\ wr = "gone"
    /\ ui' = "off"
    /\ PersonFrame
    /\ UNCHANGED <<endVars, pending, want, tap, leave, commands, asked,
                   counting>>

Disarming ==
    DisarmStops \/ Detach \/ CloseRing \/ JoinWriter

Person == Record \/ Stop \/ Stopped \/ Disarm \/ Disarming

\* The ring is dropped: nothing more happens to it.
Off == ui = "off" /\ UNCHANGED vars

Next == Callback \/ Writer \/ Person \/ Off

(***************************************************************************)
(* The driver calls the callback for as long as the session is open, the   *)
(* writer thread runs until it leaves, and a Stop or Disarm that began     *)
(* goes on.  detach spins until it samples inTap low, which the callback   *)
(* raises again with every block: only strong fairness says it gets there. *)
(***************************************************************************)
Fairness ==
    /\ WF_vars(Callback) /\ WF_vars(Writer)
    /\ WF_vars(Stopped) /\ WF_vars(DisarmStops) /\ WF_vars(Detach)
    /\ SF_vars(CloseRing) /\ WF_vars(JoinWriter)

Spec == Init /\ [][Next]_vars
FairSpec == Spec /\ Fairness

-----------------------------------------------------------------------------
(* Safety.                                                                   *)

\* What a take still has to be written of: from `read` to its end.
Waiting == {p \in Positions : read <= p /\ p < Lesser(keepUntil, written)}

Held(p) == tags[Slot(p)] = p /\ data[Slot(p)] = p

\* No block of a take is overwritten while it waits: every position between
\* the reader and the take's end is in its slot, whole and tagged, unless the
\* callback counted it lost when it arrived.  This covers the pre-roll a take
\* reaches back to, and a take that ended and is still draining, until the
\* callback has gone round the whole ring again.
WaitingIsHeld ==
    ~overtaken => \A p \in Waiting : p \in lost \/ Held(p)

\* The callback never fills the slot the writer is copying a take's block out
\* of (the rule the unsafe slices of push_with and block_at rest on).
CallbackAndWriterApart ==
    ~ /\ wr = "copy" /\ wAt < keepUntil /\ ~overtaken
      /\ cb = "fill"
      /\ Slot(wAt) = Slot(written)

Faithful(f, end) ==
    \A p \in DOMAIN f : p < end =>
        IF p \in lost THEN f[p] = Silence ELSE f[p] = p

\* Up to its end, a file has at each position the block that arrived at that
\* position, and silence exactly where the callback counted an overrun.
FilesAreFaithful ==
    /\ open /\ ~overtaken => Faithful(file, keepUntil)
    /\ \A i \in DOMAIN done :
         ~done[i].overtaken => Faithful(done[i].file, done[i].end)

\* A finished take that was not given up has every position from its start to
\* its end, and none before it.
FinishedTakesAreWhole ==
    \A i \in DOMAIN done : ~done[i].skipped =>
        /\ done[i].start .. (done[i].end - 1) \subseteq DOMAIN done[i].file
        /\ \A p \in DOMAIN done[i].file : p >= done[i].start

\* The windows of the takes follow each other on the timeline: none begins
\* before the one before it ended, however early its pre-roll would reach.
TakesInOrder ==
    /\ \A i \in DOMAIN done :
         /\ done[i].start <= done[i].end
         /\ i > 1 => done[i - 1].end <= done[i].start
    /\ open /\ done # <<>> => done[Len(done)].end <= wStart

\* Once detach has answered, no callback is inside the ring, so that closing
\* it races with nothing.
RingIsClosedAlone ==
    ui \in {"joining", "off"} => cb \in {"idle", "tap"}

\* Disarm leaves no take behind: when it has answered, the last one was
\* finished and none is asked for.
NothingLeftWhenOff ==
    ui = "off" => read = Parked /\ ~open /\ ~recording /\ ~want

-----------------------------------------------------------------------------
(* Liveness, of FairSpec.                                                    *)

\* A take that has ended is written to its end and parked, whatever the
\* callback overwrote, lost or went on to meanwhile.
EndedTakesAreFinished == (keepUntil # Parked /\ read # Parked) ~> read = Parked

\* A take that is asked for starts at the next block once the writer has parked,
\* though nobody asks again: be it asked for before the last one was drained.
RecordStarts ==
    (want /\ read = Parked /\ written + 1 < Horizon)
        ~> (recording \/ ~want \/ ui # "armed")

\* Disarm always comes to an end, whatever it interrupts.
DisarmAnswers == ui = "disarming" ~> ui = "off"

-----------------------------------------------------------------------------
(* What the sources say, and the code does not do.                           *)

\* capture.rs, of a writer that falls behind: what is waiting is never lost to
\* make room.
WaitingIsNeverLost == \A p \in Waiting : p \in lost \/ Held(p)

\* capture.rs: audio already in a file is not put in the next one.
FilesDoNotOverlap ==
    \A i \in 1 .. Len(done) - 1 :
        DOMAIN done[i].file \cap DOMAIN done[i + 1].file = {}

\* recorder.rs, of Stop: a count-in under way is cancelled and no take starts.
NoTakeAfterStop == asked = Parked /\ ui = "armed" => ~want

\* capture.rs, of a window's pressed_at: after a count-in, where the stream was
\* when Record was pressed.  A take that starts a block or more after its
\* Record does not count from a press that was stopped before it.
PressIsOfThisRecord ==
    [][cb = "wanted" /\ cb' = "starting" /\ asked < written /\ pending # Parked
         => pending >= asked]_vars

\* writer.rs, of a disk nearly full: it stops a take; a Record meant for the
\* next one is not undone by the failure of the one before.
FailureStopsItsOwnTake ==
    [][want /\ ~want' /\ ui' = ui => recording]_vars
=============================================================================

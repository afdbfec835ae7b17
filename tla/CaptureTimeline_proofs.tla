----------------------- MODULE CaptureTimeline_proofs -----------------------
(***************************************************************************)
(* What is in the files of the takes, for every ring, pre-roll, batch and  *)
(* stream.  A slot's tag never lies about a block that was lost, a block   *)
(* that waits is in its slot, and so what the writer copies out of a slot  *)
(* whose tag it read is that block.  The windows of the takes follow each  *)
(* other because the callback begins none before `floor`.                  *)
(*                                                                         *)
(* And the ring implements the timeline of takes: each step of the three   *)
(* threads is one step of the timeline or none.  Besides the ring's        *)
(* invariant it needs that `floor` is where the last take ended, and that  *)
(* the callback is only said to have overtaken a take a lap after its end. *)
(* What the page is told of it, by a snapshot that loads one atomic after  *)
(* another, is true of one take.                                           *)
(***************************************************************************)
EXTENDS CaptureRing_proofs, CaptureRingTimeline, RingStatus,
        FiniteSetTheorems, SequenceTheorems

USE SlotsAssumption, PrerollAssumption, BlocksAStepAssumption,
    HorizonAssumption, CommandsAssumption, CountInsAssumption,
    FailuresAssumption

-----------------------------------------------------------------------------
(* What was lost.                                                            *)

\* A block is told as lost when it arrives, or tagged, and never both.
LEMMA LossStep ==
    ASSUME Core, LossInv, [Next]_vars
    PROVE  LossInv'
<1>c. /\ Numbers /\ VisitInv /\ WriterInv /\ TakeInv
      /\ tags \in [0 .. Slots - 1 -> Optional]
  BY CoreFacts
<1> USE <1>c DEF Numbers, ringVars
<1>p. Parked # written
  OBVIOUS
<1>o. Optional \subseteq Nat
  BY DEF Optional
<1>1. CASE CheckSlot
  <2>1. tags' = tags /\ written' = written /\ cb = "check"
    BY <1>1 DEF CheckSlot
  <2>2. \/ lost' = lost \cup {written} /\ cb' = "publish"
        \/ lost' = lost /\ cb' = "fill"
    BY <1>1 DEF CheckSlot
  <2>3. \A s \in 0 .. Slots - 1 : tags[s] # written
    BY <2>1, <1>o DEF LossInv
  <2>4. \A p \in lost : p < written
    BY <2>1 DEF LossInv
  <2>5. \A s \in 0 .. Slots - 1 :
          tags[s] \notin lost /\ (tags[s] # Parked => tags[s] < written)
    BY <2>1 DEF LossInv
  <2> QED BY <2>1, <2>2, <2>3, <2>4, <2>5 DEF LossInv, Parked
<1>2. CASE FillSlot
  <2>1. /\ lost' = lost /\ written' = written /\ cb = "fill" /\ cb' = "publish"
        /\ tags' = [tags EXCEPT ![Slot(written)] = written]
    BY <1>2 DEF FillSlot
  <2>2. written \notin lost /\ \A p \in lost : p < written
    BY <2>1 DEF LossInv
  <2>3. \A s \in 0 .. Slots - 1 : tags'[s] = tags[s] \/ tags'[s] = written
    BY <2>1
  <2>4. \A s \in 0 .. Slots - 1 :
          tags[s] \notin lost /\ (tags[s] # Parked => tags[s] < written)
    BY <2>1 DEF LossInv
  <2> QED BY <2>1, <2>2, <2>3, <2>4 DEF LossInv, Parked
<1>3. CASE PublishBlock
  <2>1. /\ UNCHANGED <<lost, tags>> /\ written' = written + 1 /\ cb' = "idle"
    BY <1>3 DEF PublishBlock
  <2>2. \A p \in lost : p \in Nat
    BY DEF Core, TypeOK, CaptureTypeOK, Positions
  <2>3. \A p \in lost : p < written + 1
    BY <2>2 DEF LossInv
  <2>4. \A s \in 0 .. Slots - 1 : tags[s] \in Nat
    BY <1>o
  <2>5. \A s \in 0 .. Slots - 1 :
          tags[s] \notin lost /\ (tags[s] # Parked => tags[s] < written + 1)
    BY <2>4 DEF LossInv
  <2> QED BY <2>1, <2>3, <2>5 DEF LossInv, Parked
<1>4. CASE UNCHANGED <<lost, tags, written>> /\ (cb = "publish" => cb' = cb)
  BY <1>4 DEF LossInv, Parked
<1>5. CASE Callback
  BY <1>1, <1>2, <1>3, <1>4, <1>5 DEF Callback, BlockBegins, LoadTap,
     CountedPending, CountedWants, LoadWant, EndTake, TakeEnded, StartTake,
     PublishTake, TakeGoesOn
<1>6. CASE Writer
  BY <1>4, <1>6, WriterLeaves
<1>7. CASE Person
  BY <1>4, <1>7, PersonLeaves
<1>8. CASE UNCHANGED vars
  BY <1>4, <1>8 DEF vars
<1> QED BY <1>5, <1>6, <1>7, <1>8 DEF Next, Off

-----------------------------------------------------------------------------
(* What the callback and the person leave of an open take.                   *)

\* While a take is open its start and what is read of it are the writer's; its
\* end may be set, once, and is then no later than where the stream is.
LEMMA OpenTakeStays ==
    ASSUME Core, Callback \/ Person, read # Parked
    PROVE  /\ UNCHANGED <<read, takeStart>> /\ UNCHANGED fileVars
           /\ UNCHANGED stepVars /\ wr' = wr
           /\ written <= written' /\ (overtaken => overtaken')
           /\ keepUntil' = keepUntil \/ (keepUntil = Parked /\ keepUntil' = written)
           /\ lost' = lost \/ lost' = lost \cup {written}
<1>c. Numbers /\ VisitInv /\ WriterInv /\ TakeInv
  BY CoreFacts
<1> USE <1>c DEF Numbers, ringVars, takeVars, endVars
<1>1. CASE Callback
  <2>1. UNCHANGED fileVars /\ UNCHANGED stepVars /\ wr' = wr
    BY <1>1, CallbackLeaves
  <2>2. ~PublishTake /\ ~StartTake
    BY DEF PublishTake, StartTake, MayStart, TakeInv
  <2>3. CASE EndTake
    <3>1. keepUntil = Parked
      BY <2>3 DEF EndTake, TakeInv
    <3> QED BY <2>1, <2>3, <3>1 DEF EndTake
  <2>4. CASE CheckSlot
    BY <2>1, <2>4 DEF CheckSlot
  <2>5. CASE PublishBlock
    <3>1. /\ UNCHANGED <<lost, read, takeStart, keepUntil>>
          /\ written' = written + 1
      BY <2>5 DEF PublishBlock
    <3>2. overtaken => overtaken'
      BY <2>5 DEF PublishBlock
    <3> QED BY <2>1, <3>1, <3>2
  <2>6. CASE \/ BlockBegins \/ LoadTap \/ CountedPending \/ CountedWants
             \/ LoadWant \/ TakeEnded \/ TakeGoesOn \/ FillSlot
    BY <2>1, <2>6 DEF BlockBegins, LoadTap, CountedPending, CountedWants,
       LoadWant, TakeEnded, TakeGoesOn, FillSlot
  <2> QED BY <1>1, <2>2, <2>3, <2>4, <2>5, <2>6 DEF Callback
<1>2. CASE Person
  <2>1. UNCHANGED <<ringVars, takeVars, stepVars, fileVars, written, read, wr,
                    overtaken>>
    BY <1>2, PersonLeaves
  <2>2. CASE CloseRing
    <3>1. CASE TakeToClose
      <4>1. recording /\ cb = "idle" /\ keepUntil' = written
        BY <2>2, <3>1 DEF CloseRing, TakeToClose, NoCallbackInside, VisitInv
      <4>2. keepUntil = Parked
        BY <4>1 DEF TakeInv
      <4> QED BY <2>1, <4>1, <4>2
    <3>2. CASE ~TakeToClose
      BY <2>1, <2>2, <3>2 DEF CloseRing
    <3> QED BY <3>1, <3>2
  <2>3. CASE ~CloseRing
    <3>1. keepUntil' = keepUntil
      BY <1>2, <2>3 DEF Person, Disarming, Record, Stop, Stopped, Disarm,
         DisarmStops, Detach, JoinWriter
    <3> QED BY <2>1, <3>1
  <2> QED BY <2>2, <2>3
<1> QED BY <1>1, <1>2

\* A take ends after it starts, and is opened where it starts.
LEMMA OpeningStep ==
    ASSUME Core, OpeningInv, [Next]_vars
    PROVE  OpeningInv'
<1>c. Numbers /\ VisitInv /\ WriterInv /\ TakeInv
  BY CoreFacts
<1> USE <1>c DEF Numbers, ringVars, takeVars, endVars, fileVars, stepVars
<1>1. CASE Callback \/ Person
  <2>1. CASE PublishTake
    <3>1. cb = "starting" /\ read' = takeStart /\ takeStart' = takeStart
          /\ keepUntil' = Parked
      BY <2>1 DEF PublishTake
    <3>2. takeStart <= written
      BY <3>1 DEF TakeInv
    <3>3. wr' = wr /\ skipping' = skipping
      BY <2>1 DEF PublishTake, CallbackFrame
    <3> QED BY <3>1, <3>2, <3>3 DEF OpeningInv
  <2>2. CASE read = Parked /\ ~PublishTake
    <3>1. read' = Parked
      <4>1. CASE Callback
        BY <4>1, <2>2 DEF Callback, BlockBegins, LoadTap, CountedPending,
           CountedWants, LoadWant, EndTake, TakeEnded, StartTake, TakeGoesOn,
           CheckSlot, FillSlot, PublishBlock
      <4>2. CASE Person
        BY <4>2, <2>2, PersonLeaves
      <4> QED BY <1>1, <4>1, <4>2
    <3>2. wr' = wr /\ skipping' = skipping
      BY <1>1, CallbackLeaves, PersonLeaves
    <3>3. Parked' = Parked
      BY DEF Parked
    <3> QED BY <3>1, <3>2, <3>3 DEF OpeningInv
  <2>3. CASE read # Parked
    <3>1. /\ UNCHANGED <<read, takeStart, open, wr, skipping>>
          /\ keepUntil' = keepUntil \/ keepUntil' = written
      BY <1>1, <2>3, OpenTakeStays
    <3>2. takeStart <= written /\ takeStart <= keepUntil
      BY <2>3 DEF TakeInv, OpeningInv
    <3> QED BY <2>3, <3>1, <3>2 DEF OpeningInv, Parked
  <2> QED BY <2>1, <2>2, <2>3
<1>2. CASE Writer
  <2>1. UNCHANGED <<takeStart, keepUntil>>
    BY <1>2, WriterLeaves
  <2>2. CASE OpenTake
    BY <2>1, <2>2 DEF OpenTake, OpeningInv, Parked
  <2>3. CASE Consume
    <3>1. open /\ open' = open /\ read # Parked /\ wr' = "drain"
      BY <2>3 DEF Consume, WriterInv, InStep
    <3> QED BY <2>1, <3>1 DEF OpeningInv, Parked
  <2>4. CASE FinishTake
    BY <2>1, <2>4 DEF FinishTake, OpeningInv, Parked
  <2>5. CASE Park
    BY <2>5 DEF Park, OpeningInv, Parked
  <2>6. CASE \/ TakeStillOpen \/ LoadEnd \/ LoadLimit \/ ReadBlock \/ WriteBlock
             \/ WriteSilence \/ LookAtDisk \/ GiveUp \/ StepAgain \/ Leave
    <3>1. /\ UNCHANGED <<read, open>> /\ wr # "park"
          /\ wr' \in {"give_up_open", "give_up_write"} => skipping'
      BY <2>6 DEF TakeStillOpen, LoadEnd, LoadLimit, ReadBlock, WriteBlock,
         WriteSilence, Write, LookAtDisk, GiveUp, StepAgain, Leave
    <3> QED BY <2>1, <3>1 DEF OpeningInv, Parked
  <2> QED BY <1>2, <2>2, <2>3, <2>4, <2>5, <2>6 DEF Writer
<1>3. CASE UNCHANGED vars
  BY <1>3 DEF vars, OpeningInv, Parked
<1> QED BY <1>1, <1>2, <1>3 DEF Next, Off

-----------------------------------------------------------------------------
(* What is in the files.                                                     *)

\* A file that is faithful stays so when its take's end comes and when another
\* block is lost, for it holds nothing that had not arrived.
LEMMA FaithfulStays ==
    ASSUME Numbers, NEW f, NEW end, NEW later, Faithful(f, end),
           later <= end, end \in Nat, later \in Nat,
           \A p \in DOMAIN f : p \in Nat /\ p < written,
           lost' = lost \/ lost' = lost \cup {written}
    PROVE  \A p \in DOMAIN f : p < later =>
               IF p \in lost' THEN f[p] = Silence ELSE f[p] = p
<1> SUFFICES ASSUME NEW p \in DOMAIN f, p < later
             PROVE  IF p \in lost' THEN f[p] = Silence ELSE f[p] = p
  OBVIOUS
<1>1. p \in lost' <=> p \in lost
  BY DEF Numbers
<1>2. p < end
  OBVIOUS
<1> QED BY <1>1, <1>2 DEF Faithful

\* The callback and the person leave the open file as it is.
LEMMA FileStepOfOthers ==
    ASSUME Core, LossInv, WindowInv, LapInv, FileInv, Callback \/ Person
    PROVE  FileInv'
<1>c. /\ Numbers /\ VisitInv /\ WriterInv /\ TakeInv
      /\ tags \in [0 .. Slots - 1 -> Optional]
  BY CoreFacts
<1> USE <1>c DEF Numbers
<1>1. CASE ~open
  <2>1. open' = open /\ wr' = wr
    BY CallbackLeaves, PersonLeaves DEF fileVars
  <2>2. wr # "copy"
    BY <1>1 DEF WriterInv, InStep
  <2> QED BY <1>1, <2>1, <2>2 DEF FileInv
<1>2. CASE open
  <2>1. read # Parked
    BY <1>2 DEF WriterInv
  <2>2. /\ UNCHANGED <<read, takeStart>> /\ UNCHANGED fileVars
        /\ UNCHANGED stepVars /\ wr' = wr
        /\ written <= written' /\ (overtaken => overtaken')
        /\ keepUntil' = keepUntil \/ (keepUntil = Parked /\ keepUntil' = written)
        /\ lost' = lost \/ lost' = lost \cup {written}
    BY <2>1, OpenTakeStays
  <2>3. UNCHANGED <<open, wStart, file, skipping, wAt>>
    BY <2>2 DEF fileVars, stepVars
  <2>4. \A p \in DOMAIN file : p \in Nat /\ p < written
    BY <1>2 DEF FileInv, Core, TypeOK, FileTypeOK, Positions
  <2>5. written' \in Nat /\ keepUntil' \in Nat /\ keepUntil' <= keepUntil
    <3>1. Core'
      BY CoreStep DEF Next
    <3>2. written' \in Positions
      BY <3>1 DEF Core, TypeOK, CaptureTypeOK
    <3> QED BY <2>2, <3>2 DEF Positions
  <2>6. /\ wStart' = takeStart'
        /\ \A p \in DOMAIN file' : p < written'
        /\ \A p \in DOMAIN file' : wStart' <= p
    <3>1. \A p \in DOMAIN file : p < written'
      BY <2>2, <2>4, <2>5
    <3> QED BY <1>2, <2>2, <2>3, <3>1 DEF FileInv
  <2>7. ~skipping' =>
          \A p \in Positions : wStart' <= p =>
              (p \in DOMAIN file' <=> p < read' \/ (wr' = "consume" /\ p = wAt'))
    BY <1>2, <2>2, <2>3 DEF FileInv
  <2>8. (wr = "copy" => tags[Slot(wAt)] = wAt \/ overtaken \/ wAt >= keepUntil)'
    <3>1. SUFFICES ASSUME wr = "copy", ~overtaken, wAt < keepUntil
                   PROVE  tags'[Slot(wAt)] = wAt
      BY <2>2, <2>3, <2>5 DEF Slot
    <3>2. tags[Slot(wAt)] = wAt
      BY <3>1 DEF FileInv
    <3>3. CASE FillSlot
      <4>1. cb = "fill" /\ tags' = [tags EXCEPT ![Slot(written)] = written]
        BY <3>3 DEF FillSlot
      <4>2. wAt = read /\ wAt < written
        BY <3>1 DEF WriterInv, InBlock, InLoop, Settled, Core, TypeOK,
           WriterTypeOK, Positions
      <4>3. written < wAt + Slots
        BY <2>1, <3>1, <4>1, <4>2 DEF LapInv
      <4>4. Slot(wAt) # Slot(written)
        BY <4>2, <4>3, SlotsApart
      <4>5. Slot(wAt) \in 0 .. Slots - 1
        BY DivisionBySlots
      <4> QED BY <3>2, <4>1, <4>4, <4>5
    <3>4. CASE ~FillSlot
      <4>1. tags' = tags
        <5>1. CASE Callback
          BY <5>1, <3>4 DEF ringVars, Callback, BlockBegins, LoadTap,
             CountedPending, CountedWants, LoadWant, EndTake, TakeEnded,
             StartTake, PublishTake, TakeGoesOn, CheckSlot, PublishBlock
        <5>2. CASE Person
          BY <5>2, PersonLeaves DEF ringVars
        <5> QED BY <5>1, <5>2
      <4> QED BY <3>2, <4>1
    <3> QED BY <3>3, <3>4
  <2>9. (~overtaken => Faithful(file, keepUntil))'
    <3>1. SUFFICES ASSUME ~overtaken
                   PROVE  Faithful(file, keepUntil)'
      BY <2>2
    <3>2. Faithful(file, keepUntil)
      BY <1>2, <3>1 DEF FileInv
    <3>3. \A p \in DOMAIN file : p < keepUntil' =>
            IF p \in lost' THEN file[p] = Silence ELSE file[p] = p
      BY <2>2, <2>4, <2>5, <3>2, FaithfulStays
    <3> QED BY <2>3, <3>3 DEF Faithful
  <2> QED BY <2>6, <2>7, <2>8, <2>9 DEF FileInv
<1> QED BY <1>1, <1>2

\* What is copied out of a slot whose tag was read is the block itself, and a
\* slot without the tag is that of a block which was lost.
LEMMA WrittenIsRight ==
    ASSUME Core, LossInv, WaitingIsHeld, FileInv,
           wr = "copy" \/ (wr = "drain" /\ MoreToDrain /\ tags[Slot(wAt)] # wAt),
           wAt < keepUntil, ~overtaken
    PROVE  IF wAt \in lost THEN wr = "drain"
           ELSE wr = "copy" /\ data[Slot(wAt)] = wAt
<1>c. Numbers /\ WriterInv
  BY CoreFacts
<1> USE <1>c DEF Numbers
<1>1. wAt = read /\ wAt < wLimit /\ wLimit <= written
  BY DEF WriterInv, InBlock, InLoop, Settled, MoreToDrain
<1>2. wAt \in Positions /\ wLimit \in Nat
  BY DEF Core, TypeOK, WriterTypeOK, Positions
<1>3. wAt \in Waiting
  BY <1>1, <1>2 DEF Waiting, Lesser
<1>4. wAt \in lost \/ Held(wAt)
  BY <1>3 DEF WaitingIsHeld
<1>5. CASE wr = "copy"
  <2>1. tags[Slot(wAt)] = wAt
    BY <1>5 DEF FileInv
  <2>2. Slot(wAt) \in 0 .. Slots - 1
    BY DivisionBySlots
  <2>3. wAt \notin lost
    BY <2>1, <2>2 DEF LossInv
  <2> QED BY <1>4, <1>5, <2>3 DEF Held
<1>6. CASE wr = "drain"
  BY <1>4, <1>6 DEF Held
<1> QED BY <1>5, <1>6

\* The writer adds the take's blocks one after another.
LEMMA FileStepOfWriter ==
    ASSUME Core, LossInv, WaitingIsHeld, OpeningInv, FileInv, Writer
    PROVE  FileInv'
<1>c. /\ Numbers /\ VisitInv /\ WriterInv /\ TakeInv
  BY CoreFacts
<1> USE <1>c DEF Numbers
<1>u. UNCHANGED <<tags, data, lost, takeStart, keepUntil, written, overtaken>>
  BY WriterLeaves DEF ringVars, takeVars, endVars
<1>f. DOMAIN file \subseteq Positions /\ wAt \in Nat /\ wLimit \in Nat
  BY DEF Core, TypeOK, FileTypeOK, WriterTypeOK, Positions
<1>1. CASE OpenTake
  <2>1. /\ read # Parked /\ ~open /\ wr = "look" /\ file' = NoFile
        /\ wStart' = takeStart /\ wr' \in {"end", "give_up_open"}
        /\ read' = read
    BY <1>1 DEF OpenTake
  <2>2. DOMAIN file' = {}
    BY <2>1 DEF NoFile
  <2>3. read = takeStart
    BY <2>1 DEF OpeningInv
  <2>4. Faithful(file, keepUntil)'
    BY <2>2 DEF Faithful
  <2>5. \A p \in Positions : wStart' <= p => ~(p < read')
    BY <2>1, <2>3 DEF Positions
  <2> QED BY <1>u, <2>1, <2>2, <2>4, <2>5 DEF FileInv
<1>2. CASE WriteBlock \/ WriteSilence
  <2>1. /\ wr = "copy" \/ (wr = "drain" /\ MoreToDrain /\ tags[Slot(wAt)] # wAt)
        /\ UNCHANGED <<read, open, wStart, wAt>>
    BY <1>2 DEF WriteBlock, WriteSilence, stepVars
  <2>2. /\ open /\ read = wAt /\ wAt < written /\ takeStart <= wAt
        /\ wr \notin {"consume"} /\ wAt < wLimit /\ read # Parked
    <3>1. open /\ read = wAt /\ wAt < wLimit /\ wLimit <= written
      BY <2>1 DEF WriterInv, InStep, InBlock, InLoop, Settled, MoreToDrain
    <3>2. read # Parked
      BY <3>1 DEF WriterInv
    <3> QED BY <1>f, <2>1, <3>1, <3>2 DEF TakeInv
  <2>3. CASE \/ skipping /\ wr' = "consume" /\ UNCHANGED <<file, skipping>>
             \/ wr' = "give_up_write" /\ skipping' /\ UNCHANGED file
    <3>1. wr' # "copy" /\ skipping'
      BY <2>3
    <3>2. UNCHANGED file
      BY <2>3
    <3>3. Faithful(file, keepUntil)' <=> Faithful(file, keepUntil)
      BY <1>u, <3>2 DEF Faithful
    <3> QED BY <1>u, <2>1, <2>2, <3>1, <3>2, <3>3 DEF FileInv
  <2>4. ASSUME NEW x, ~skipping, file' = Extended(x), wr' = "consume",
               skipping' = skipping,
               wAt < keepUntil /\ ~overtaken =>
                 x = IF wAt \in lost THEN Silence ELSE wAt
        PROVE  FileInv'
    <3>1. /\ DOMAIN file' = DOMAIN file \cup {wAt}
          /\ \A p \in DOMAIN file' :
               file'[p] = IF p = wAt THEN x ELSE file[p]
      BY <2>4 DEF Extended
    <3>2. /\ \A p \in DOMAIN file' : p < written'
          /\ \A p \in DOMAIN file' : wStart' <= p
      BY <1>u, <2>1, <2>2, <3>1 DEF FileInv
    <3>3. \A p \in Positions : wStart' <= p =>
            (p \in DOMAIN file' <=> p < read' \/ (wr' = "consume" /\ p = wAt'))
      BY <2>1, <2>2, <2>4, <3>1 DEF FileInv
    <3>4. (~overtaken => Faithful(file, keepUntil))'
      <4>1. SUFFICES ASSUME ~overtaken, NEW p \in DOMAIN file', p < keepUntil
                     PROVE  IF p \in lost THEN file'[p] = Silence
                            ELSE file'[p] = p
        BY <1>u DEF Faithful
      <4>2. CASE p = wAt
        BY <2>4, <3>1, <4>1, <4>2
      <4>3. CASE p # wAt
        <5>1. Faithful(file, keepUntil)
          BY <2>2, <4>1 DEF FileInv
        <5> QED BY <3>1, <4>1, <4>3, <5>1 DEF Faithful
      <4> QED BY <4>2, <4>3
    <3>5. wStart' = takeStart'
      BY <1>u, <2>1, <2>2 DEF FileInv
    <3> QED BY <2>4, <3>2, <3>3, <3>4, <3>5 DEF FileInv
  <2>5. CASE WriteBlock
    <3>1. Write(data[Slot(wAt)]) /\ wr = "copy"
      BY <2>5 DEF WriteBlock
    <3>2. wAt < keepUntil /\ ~overtaken =>
            data[Slot(wAt)] = IF wAt \in lost THEN Silence ELSE wAt
      BY <2>1, <3>1, WrittenIsRight
    <3> QED BY <2>3, <2>4, <3>1, <3>2 DEF Write
  <2>6. CASE WriteSilence
    <3>1. Write(Silence) /\ wr = "drain"
      BY <2>6 DEF WriteSilence
    <3>2. wAt < keepUntil /\ ~overtaken =>
            Silence = IF wAt \in lost THEN Silence ELSE wAt
      BY <2>1, <3>1, WrittenIsRight
    <3> QED BY <2>3, <2>4, <3>1, <3>2 DEF Write
  <2> QED BY <1>2, <2>5, <2>6
<1>3. CASE Consume
  <2>1. /\ wr = "consume" /\ wr' = "drain" /\ read' = wAt + 1
        /\ UNCHANGED <<open, wStart, file, skipping>>
    BY <1>3 DEF Consume, fileVars
  <2>2. read = wAt /\ open
    BY <2>1 DEF WriterInv, InStep, InLoop, Settled
  <2>3. ~skipping' => \A p \in Positions : wStart' <= p =>
          (p \in DOMAIN file' <=> p < read')
    BY <2>1, <2>2 DEF FileInv, Positions
  <2>4. Faithful(file, keepUntil)' <=> Faithful(file, keepUntil)
    BY <1>u, <2>1 DEF Faithful
  <2> QED BY <1>u, <2>1, <2>2, <2>3, <2>4 DEF FileInv
<1>4. CASE FinishTake \/ Park
  <2>1. ~open' /\ wr' # "copy"
    BY <1>4 DEF FinishTake, Park, WriterInv, fileVars
  <2> QED BY <2>1 DEF FileInv
<1>5. CASE ReadBlock
  <2>1. /\ tags[Slot(wAt)] = wAt /\ wr = "drain" /\ wr' = "copy"
        /\ UNCHANGED <<read, wAt, open, wStart, file, skipping>>
    BY <1>5 DEF ReadBlock, fileVars, stepVars
  <2>2. Faithful(file, keepUntil)' <=> Faithful(file, keepUntil)
    BY <1>u, <2>1 DEF Faithful
  <2>3. tags'[Slot(wAt)'] = wAt'
    BY <1>u, <2>1 DEF Slot
  <2> QED BY <1>u, <2>1, <2>2, <2>3 DEF FileInv
<1>6. CASE \/ TakeStillOpen \/ LoadEnd \/ LoadLimit \/ LookAtDisk \/ GiveUp
           \/ StepAgain \/ Leave
  <2>1. /\ UNCHANGED <<read, open, wStart, file, skipping>> /\ wr' # "copy"
        /\ wr # "consume" /\ (wr' = "consume" => wr = "give_up_write")
    BY <1>6 DEF TakeStillOpen, LoadEnd, LoadLimit, LookAtDisk, GiveUp,
       StepAgain, Leave, fileVars
  <2>2. Faithful(file, keepUntil)' <=> Faithful(file, keepUntil)
    BY <1>u, <2>1 DEF Faithful
  <2>3. wr' = "consume" => skipping'
    BY <2>1 DEF OpeningInv
  <2> QED BY <1>u, <2>1, <2>2, <2>3 DEF FileInv
<1> QED BY <1>1, <1>2, <1>3, <1>4, <1>5, <1>6 DEF Writer

\* Each step keeps what is in the open file right.
LEMMA FileStep ==
    ASSUME Core, LossInv, WindowInv, LapInv, WaitingIsHeld, OpeningInv,
           FileInv, [Next]_vars
    PROVE  FileInv'
<1>1. CASE Callback \/ Person
  BY <1>1, FileStepOfOthers
<1>2. CASE Writer
  BY <1>2, FileStepOfWriter
<1>3. CASE UNCHANGED vars
  <2>1. UNCHANGED <<open, wStart, takeStart, file, written, skipping, read, wr,
                    wAt, tags, overtaken, keepUntil, lost>>
    BY <1>3 DEF vars, ringVars, takeVars, endVars, stepVars, fileVars
  <2>2. Faithful(file, keepUntil)' <=> Faithful(file, keepUntil)
    BY <2>1 DEF Faithful
  <2>3. Slot(wAt)' = Slot(wAt)
    BY <2>1 DEF Slot
  <2> QED BY <2>1, <2>2, <2>3 DEF FileInv
<1> QED BY <1>1, <1>2, <1>3 DEF Next, Off

-----------------------------------------------------------------------------
(* The takes that are finished.                                              *)

\* What is kept of a finished take.
Takes ==
    [start : Positions, end : Positions, skipped : BOOLEAN, overtaken : BOOLEAN,
     file : UNION {[S -> Content] : S \in SUBSET Positions}]

DoneShape == done \in Seq(Takes)

\* A take finished is put behind the others, as they are.
LEMMA AppendTake ==
    ASSUME NEW S, NEW s \in Seq(S), NEW t \in S
    PROVE  /\ Append(s, t) \in Seq(S)
           /\ Len(s) \in Nat /\ DOMAIN s = 1 .. Len(s)
           /\ Len(Append(s, t)) = Len(s) + 1
           /\ DOMAIN Append(s, t) = 1 .. Len(s) + 1
           /\ \A i \in 1 .. Len(s) : Append(s, t)[i] = s[i]
           /\ Append(s, t)[Len(s) + 1] = t
           /\ s # <<>> => Len(s) \in DOMAIN s
           /\ Append(s, t) # <<>>
<1>1. Len(s) \in Nat /\ DOMAIN s = 1 .. Len(s)
  BY LenProperties
<1>2. /\ Append(s, t) \in Seq(S) /\ Append(s, t) # <<>>
      /\ Len(Append(s, t)) = Len(s) + 1
      /\ \A i \in 1 .. Len(s) : Append(s, t)[i] = s[i]
      /\ Append(s, t)[Len(s) + 1] = t
  BY AppendProperties
<1>3. DOMAIN Append(s, t) = 1 .. Len(s) + 1
  BY <1>2, LenProperties
<1>4. s # <<>> => Len(s) \in Nat \ {0}
  BY EmptySeq
<1> QED BY <1>1, <1>2, <1>3, <1>4

\* The take that a step of the writer finishes: its window, what was written of
\* it, and that it comes after the one before it.
Finished == [start |-> wStart, end |-> wEnd, file |-> file,
             skipped |-> skipping, overtaken |-> overtaken]

LEMMA FinishedTake ==
    ASSUME Core, OpeningInv, FileInv, DoneInv, FinishTake
    PROVE  /\ done' = Append(done, Finished) /\ Finished \in Takes
           /\ wEnd = keepUntil /\ wStart = takeStart /\ keepUntil # Parked
           /\ open /\ read # Parked /\ wEnd <= read
           /\ wStart <= wEnd /\ wEnd <= written
           /\ done # <<>> => LastDone <= wStart
<1>c. Numbers /\ WriterInv /\ TakeInv /\ TypeOK
  BY CoreFacts
<1> USE <1>c DEF Numbers
<1>1. wr = "finish" /\ Drained /\ done' = Append(done, Finished)
  BY DEF FinishTake, Finished
<1>2. open /\ read # Parked /\ read = wAt
  BY <1>1 DEF WriterInv, InStep, Settled, InLoop
<1>3. wEnd = keepUntil /\ keepUntil # Parked /\ wEnd <= wAt
  BY <1>1 DEF Drained, TakeInv, AfterLoad, TypeOK, WriterTypeOK, Optional
<1>4. wStart = takeStart
  BY <1>2 DEF FileInv
<1>5. wStart <= wEnd /\ wEnd <= written
  BY <1>2, <1>3, <1>4 DEF OpeningInv, TakeInv
<1>6. wEnd \in Positions /\ wStart \in Positions
  BY <1>3, <1>5 DEF TypeOK, WriterTypeOK, Positions
<1>7. /\ skipping \in BOOLEAN /\ overtaken \in BOOLEAN
      /\ DOMAIN file \in SUBSET Positions /\ file \in [DOMAIN file -> Content]
  BY DEF TypeOK, WriterTypeOK, CallbackTypeOK, FileTypeOK
<1>8. file \in UNION {[S -> Content] : S \in SUBSET Positions}
  BY <1>7
<1>9. Finished \in Takes
  BY <1>6, <1>7, <1>8 DEF Finished, Takes
<1>10. done # <<>> => LastDone <= wStart
  BY <1>1, <1>2, <1>4 DEF DoneInv
<1> QED BY <1>1, <1>2, <1>3, <1>4, <1>5, <1>9, <1>10

\* Only the writer's last step of a take touches what is finished.
LEMMA DoneStays ==
    ASSUME Core, [Next]_vars, ~FinishTake
    PROVE  done' = done
<1>1. CASE Callback \/ Person
  BY <1>1, CallbackLeaves, PersonLeaves DEF fileVars
<1>2. CASE Writer
  BY <1>2 DEF Writer, OpenTake, TakeStillOpen, LoadEnd, LoadLimit, ReadBlock,
     WriteBlock, WriteSilence, Consume, LookAtDisk, GiveUp, StepAgain, Park,
     Leave, fileVars
<1>3. CASE UNCHANGED vars
  BY <1>3 DEF vars, fileVars
<1> QED BY <1>1, <1>2, <1>3 DEF Next, Off

\* The takes are sequences of windows with what was written of them.
LEMMA DoneShapeStep ==
    ASSUME Core, DoneShape, OpeningInv, FileInv, DoneInv, [Next]_vars
    PROVE  DoneShape'
<1>1. CASE FinishTake
  BY <1>1, FinishedTake, AppendTake DEF DoneShape
<1>2. CASE ~FinishTake
  BY <1>2, DoneStays DEF DoneShape
<1> QED BY <1>1, <1>2

\* After the writer's last step of a take, the takes are those before it and it.
LEMMA AfterFinish ==
    ASSUME Core, DoneShape, OpeningInv, FileInv, DoneInv, FinishTake
    PROVE  /\ Len(done) \in Nat /\ DOMAIN done = 1 .. Len(done)
           /\ DOMAIN done' = 1 .. Len(done) + 1
           /\ Len(done') = Len(done) + 1
           /\ done'[Len(done) + 1] = Finished
           /\ \A i \in 1 .. Len(done) : done'[i] = done[i]
           /\ done # <<>> => Len(done) \in DOMAIN done
           /\ done' # <<>>
<1>1. done' = Append(done, Finished) /\ Finished \in Takes
  BY FinishedTake
<1> QED BY <1>1, AppendTake DEF DoneShape

\* The takes finished stay as they are, and the next one comes after them.
LEMMA OrderStep ==
    ASSUME Core, DoneShape, OpeningInv, FileInv, DoneInv, TakesInOrder,
           FinishedTakesAreWhole, [Next]_vars
    PROVE  /\ FinishedTakesAreWhole'
           /\ \A i \in DOMAIN done' :
                /\ done'[i].start <= done'[i].end
                /\ i > 1 => done'[i - 1].end <= done'[i].start
<1>1. CASE FinishTake
  <2>1. /\ Len(done) \in Nat /\ DOMAIN done = 1 .. Len(done)
        /\ DOMAIN done' = 1 .. Len(done) + 1
        /\ done'[Len(done) + 1] = Finished
        /\ \A i \in 1 .. Len(done) : done'[i] = done[i]
        /\ done # <<>> => Len(done) \in DOMAIN done
    BY <1>1, AfterFinish
  <2>2. /\ Finished.start = wStart /\ Finished.end = wEnd
        /\ Finished.file = file /\ Finished.skipped = skipping
    BY DEF Finished
  <2>3. /\ wStart <= wEnd /\ open /\ wEnd <= read /\ wEnd <= written
        /\ (done # <<>> => LastDone <= wStart) /\ wr = "finish"
        /\ Numbers /\ wEnd \in Nat /\ wStart \in Nat
    BY <1>1, FinishedTake, CoreFacts DEF Numbers, FinishTake
  <2>4. ~skipping => wStart .. (wEnd - 1) \subseteq DOMAIN file
    <3> SUFFICES ASSUME ~skipping, NEW p \in wStart .. (wEnd - 1)
                 PROVE  p \in DOMAIN file
      OBVIOUS
    <3>1. p \in Positions /\ wStart <= p /\ p < read
      BY <2>3 DEF Positions, Numbers
    <3> QED BY <2>3, <3>1 DEF FileInv
  <2>5. \A p \in DOMAIN file : p >= wStart
    BY <2>3 DEF FileInv, Core, TypeOK, FileTypeOK, Positions
  <2>6. FinishedTakesAreWhole'
    <3> SUFFICES ASSUME NEW i \in DOMAIN done', ~done'[i].skipped
                 PROVE  /\ done'[i].start .. (done'[i].end - 1)
                             \subseteq DOMAIN done'[i].file
                        /\ \A p \in DOMAIN done'[i].file : p >= done'[i].start
      BY DEF FinishedTakesAreWhole
    <3>1. CASE i = Len(done) + 1
      BY <2>1, <2>2, <2>4, <2>5, <3>1
    <3>2. CASE i \in DOMAIN done
      BY <2>1, <3>2 DEF FinishedTakesAreWhole
    <3> QED BY <2>1, <3>1, <3>2
  <2>7. ASSUME NEW i \in DOMAIN done'
        PROVE  /\ done'[i].start <= done'[i].end
               /\ i > 1 => done'[i - 1].end <= done'[i].start
    <3>1. CASE i = Len(done) + 1
      <4>1. i > 1 => done # <<>> /\ i - 1 \in 1 .. Len(done)
        <5>1. Len(<<>>) = 0
          OBVIOUS
        <5> QED BY <2>1, <3>1, <5>1
      <4>2. i > 1 => done'[i - 1].end = LastDone
        BY <2>1, <3>1, <4>1 DEF LastDone
      <4> QED BY <2>1, <2>2, <2>3, <3>1, <4>1, <4>2
    <3>2. CASE i \in DOMAIN done
      <4>1. done'[i] = done[i] /\ (i > 1 => done'[i - 1] = done[i - 1])
        BY <2>1, <3>2
      <4> QED BY <3>2, <4>1 DEF TakesInOrder
    <3> QED BY <2>1, <3>1, <3>2
  <2> QED BY <2>6, <2>7
<1>2. CASE ~FinishTake
  <2>1. done' = done
    BY <1>2, DoneStays
  <2> QED BY <2>1 DEF FinishedTakesAreWhole, TakesInOrder
<1> QED BY <1>1, <1>2

\* The stream only goes on, and what is lost is lost as it arrives.
LEMMA StreamGoesOn ==
    ASSUME Core, [Next]_vars
    PROVE  /\ written' \in Nat /\ written <= written'
           /\ lost' = lost \/ lost' = lost \cup {written}
<1>c. Numbers
  BY CoreFacts
<1> USE <1>c DEF Numbers, ringVars
<1>1. CASE PublishBlock
  BY <1>1 DEF PublishBlock
<1>2. CASE CheckSlot
  BY <1>2 DEF CheckSlot
<1>3. CASE Callback /\ ~PublishBlock /\ ~CheckSlot
  BY <1>3 DEF Callback, BlockBegins, LoadTap, CountedPending, CountedWants,
     LoadWant, EndTake, TakeEnded, StartTake, PublishTake, TakeGoesOn, FillSlot
<1>4. CASE Writer \/ Person
  BY <1>4, WriterLeaves, PersonLeaves
<1>5. CASE UNCHANGED vars
  BY <1>5 DEF vars
<1> QED BY <1>1, <1>2, <1>3, <1>4, <1>5 DEF Next, Off

\* Whatever a step does, what is finished stays as it was written, and the
\* audio of the next take begins where that of the last one ended.
LEMMA DoneStep ==
    ASSUME Core, DoneShape, OpeningInv, FileInv, DoneInv, [Next]_vars
    PROVE  DoneInv'
<1>c. Numbers /\ VisitInv /\ WriterInv /\ TakeInv
  BY CoreFacts
<1> USE <1>c DEF Numbers
<1>s. /\ written' \in Nat /\ written <= written'
      /\ lost' = lost \/ lost' = lost \cup {written}
  BY StreamGoesOn
<1>p. Parked' = Parked
  BY DEF Parked
<1>t. floor \in Nat /\ (done # <<>> => LastDone \in Nat /\ LastDone <= written)
  <2>1. floor \in Nat
    BY DEF Core, TypeOK, CaptureTypeOK, Positions
  <2>2. done # <<>> => Len(done) \in DOMAIN done
    BY EmptySeq, LenProperties DEF DoneShape
  <2>3. \A i \in DOMAIN done : done[i].end \in Nat
    <3>1. \A i \in DOMAIN done : done[i] \in Takes
      BY LenProperties DEF DoneShape
    <3> QED BY <3>1 DEF Takes, Positions
  <2> QED BY <2>1, <2>2, <2>3 DEF LastDone, DoneInv
<1>1. \A i \in DOMAIN done :
        /\ \A p \in DOMAIN done[i].file : p \in Nat /\ p < written
        /\ done[i].end \in Nat
  <2> SUFFICES ASSUME NEW i \in DOMAIN done
               PROVE  /\ \A p \in DOMAIN done[i].file : p \in Nat
                      /\ done[i].end \in Nat
    BY DEF DoneInv
  <2>1. done[i] \in Takes
    BY LenProperties DEF DoneShape
  <2> QED BY <2>1 DEF Takes, Positions
<1>2. \A i \in DOMAIN done :
        /\ \A p \in DOMAIN done[i].file : p < written'
        /\ ~done[i].overtaken =>
             \A p \in DOMAIN done[i].file : p < done[i].end =>
               IF p \in lost' THEN done[i].file[p] = Silence
               ELSE done[i].file[p] = p
        /\ done[i].end <= written'
  <2> SUFFICES ASSUME NEW i \in DOMAIN done
               PROVE  /\ \A p \in DOMAIN done[i].file : p < written'
                      /\ ~done[i].overtaken =>
                           \A p \in DOMAIN done[i].file : p < done[i].end =>
                             IF p \in lost' THEN done[i].file[p] = Silence
                             ELSE done[i].file[p] = p
                      /\ done[i].end <= written'
    OBVIOUS
  <2>1. \A p \in DOMAIN done[i].file : p < written'
    BY <1>1, <1>s
  <2>2. done[i].end \in Nat /\ done[i].end <= written
    BY <1>1 DEF DoneInv
  <2>3. ASSUME ~done[i].overtaken
        PROVE  \A p \in DOMAIN done[i].file : p < done[i].end =>
                 IF p \in lost' THEN done[i].file[p] = Silence
                 ELSE done[i].file[p] = p
    <3>1. Faithful(done[i].file, done[i].end)
      BY <2>3 DEF DoneInv
    <3>2. done[i].end <= done[i].end
      BY <2>2
    <3> QED BY <1>1, <1>s, <2>2, <3>1, <3>2, FaithfulStays
  <2> QED BY <1>s, <2>1, <2>2, <2>3
<1>3. CASE FinishTake
  <2>1. /\ Len(done) \in Nat /\ DOMAIN done = 1 .. Len(done)
        /\ DOMAIN done' = 1 .. Len(done) + 1 /\ Len(done') = Len(done) + 1
        /\ done'[Len(done) + 1] = Finished
        /\ \A i \in 1 .. Len(done) : done'[i] = done[i]
    BY <1>3, AfterFinish
  <2>2. /\ Finished.end = wEnd /\ Finished.file = file
        /\ Finished.overtaken = overtaken
    BY DEF Finished
  <2>3. /\ open /\ wEnd = keepUntil /\ keepUntil # Parked /\ wEnd <= written
        /\ wr' = "park"
    BY <1>3, FinishedTake DEF FinishTake
  <2>4. UNCHANGED <<written, lost, keepUntil, floor, cb, takeStart>>
    BY <1>3 DEF FinishTake, WriterFrame, ringVars, takeVars, endVars
  <2>5. /\ \A p \in DOMAIN file : p < written
        /\ ~overtaken => Faithful(file, wEnd)
    BY <2>3 DEF FileInv
  <2>6. ASSUME NEW i \in DOMAIN done'
        PROVE  /\ \A p \in DOMAIN done'[i].file : p < written'
               /\ (~done[i].overtaken => Faithful(done[i].file, done[i].end))'
               /\ done'[i].end <= written'
    <3>1. CASE i = Len(done) + 1
      BY <2>1, <2>2, <2>3, <2>4, <2>5, <3>1 DEF Faithful
    <3>2. CASE i \in DOMAIN done
      <4>1. done'[i] = done[i]
        BY <2>1, <3>2
      <4> QED BY <1>2, <3>2, <4>1 DEF Faithful
    <3> QED BY <2>1, <3>1, <3>2
  <2>7. LastDone' = keepUntil
    BY <2>1, <2>2, <2>3 DEF LastDone
  <2>8. keepUntil <= floor \/ cb = "ending"
    BY <2>3 DEF DoneInv
  <2> QED BY <1>p, <2>3, <2>4, <2>6, <2>7, <2>8 DEF DoneInv
<1>4. CASE ~FinishTake
  <2>1. done' = done
    BY <1>4, DoneStays
  <2>2. LastDone' = LastDone
    BY <2>1 DEF LastDone
  <2>3. \A i \in DOMAIN done' :
          /\ \A p \in DOMAIN done'[i].file : p < written'
          /\ (~done[i].overtaken => Faithful(done[i].file, done[i].end))'
          /\ done'[i].end <= written'
    BY <1>2, <2>1 DEF Faithful
  <2>4. /\ done # <<>> =>
             LastDone <= floor' \/ (cb' = "ending" /\ LastDone = keepUntil')
        /\ keepUntil' # Parked /\ cb' # "ending" => keepUntil' <= floor'
        /\ done # <<>> /\ read' # Parked /\ wr' # "park" => LastDone <= takeStart'
    <3>1. CASE EndTake
      <4>1. /\ cb = "unwanted" /\ cb' = "ending"
            /\ UNCHANGED <<floor, read, takeStart, wr>>
        BY <3>1 DEF EndTake, takeVars, CallbackFrame
      <4> QED BY <4>1 DEF DoneInv
    <3>2. CASE TakeEnded
      <4>1. /\ cb = "ending" /\ floor' = written /\ cb' = "check"
            /\ UNCHANGED <<keepUntil, read, takeStart, wr>>
        BY <3>2 DEF TakeEnded, takeVars, CallbackFrame
      <4>2. keepUntil = written
        BY <4>1 DEF TakeInv
      <4> QED BY <1>t, <4>1, <4>2 DEF DoneInv
    <3>3. CASE StartTake
      <4>1. /\ read = Parked /\ cb = "wanted" /\ cb' = "starting"
            /\ UNCHANGED <<keepUntil, read, floor>>
        BY <3>3 DEF StartTake, MayStart, endVars
      <4> QED BY <4>1 DEF DoneInv
    <3>4. CASE PublishTake
      <4>1. /\ cb = "starting" /\ cb' = "check" /\ keepUntil' = Parked
            /\ UNCHANGED <<takeStart, floor>>
        BY <3>4 DEF PublishTake
      <4>2. floor <= takeStart
        BY <4>1 DEF TakeInv
      <4>3. done # <<>> => LastDone <= floor
        BY <4>1 DEF DoneInv
      <4> QED BY <1>t, <4>1, <4>2, <4>3
    <3>5. CASE CloseRing
      <4>1. cb = "idle" /\ UNCHANGED <<cb, read, takeStart, wr>>
        BY <3>5 DEF CloseRing, NoCallbackInside, VisitInv, PersonFrame, takeVars
      <4>2. CASE TakeToClose
        <5>1. keepUntil' = written /\ floor' = written
          BY <3>5, <4>2 DEF CloseRing
        <5> QED BY <1>t, <4>1, <5>1 DEF DoneInv
      <4>3. CASE ~TakeToClose
        <5>1. UNCHANGED <<keepUntil, floor>>
          BY <3>5, <4>3 DEF CloseRing
        <5> QED BY <4>1, <5>1 DEF DoneInv
      <4> QED BY <4>2, <4>3
    <3>6. CASE Park
      <4>1. /\ read' = Parked /\ UNCHANGED <<keepUntil, floor, cb>>
        BY <3>6 DEF Park, WriterFrame, endVars
      <4> QED BY <4>1 DEF DoneInv
    <3>7. CASE /\ UNCHANGED <<keepUntil, floor, takeStart>>
               /\ cb' = "ending" <=> cb = "ending"
               /\ read' # Parked /\ wr' # "park" => read # Parked /\ wr # "park"
      BY <3>7 DEF DoneInv
    <3>8. CASE Callback
      BY <3>1, <3>2, <3>3, <3>4, <3>7, <3>8 DEF Callback, BlockBegins, LoadTap,
         CountedPending, CountedWants, LoadWant, TakeGoesOn, CheckSlot,
         FillSlot, PublishBlock, CallbackFrame, endVars, takeVars
    <3>9. CASE Writer
      <4>1. UNCHANGED <<keepUntil, floor, takeStart, cb>>
        BY <3>9, WriterLeaves DEF endVars, takeVars
      <4>2. CASE ~Park
        <5>1. read' # Parked /\ wr' # "park" => read # Parked /\ wr # "park"
          <6>1. CASE Consume
            BY <6>1 DEF Consume, WriterInv, InStep
          <6>2. CASE \/ OpenTake \/ TakeStillOpen \/ LoadEnd \/ LoadLimit
                     \/ ReadBlock \/ WriteBlock \/ WriteSilence \/ LookAtDisk
                     \/ GiveUp \/ StepAgain \/ Leave
            BY <6>2 DEF OpenTake, TakeStillOpen, LoadEnd, LoadLimit, ReadBlock,
               WriteBlock, WriteSilence, LookAtDisk, GiveUp, StepAgain, Leave
          <6> QED BY <1>4, <3>9, <4>2, <6>1, <6>2 DEF Writer
        <5> QED BY <3>7, <4>1, <5>1
      <4> QED BY <3>6, <4>2
    <3>10. CASE Person
      <4>1. UNCHANGED <<read, wr, takeStart, cb>>
        BY <3>10, PersonLeaves DEF takeVars
      <4>2. ~CloseRing => UNCHANGED <<keepUntil, floor>>
        BY <3>10 DEF Person, Disarming, Record, Stop, Stopped, Disarm,
           DisarmStops, Detach, JoinWriter, endVars
      <4> QED BY <3>5, <3>7, <4>1, <4>2
    <3>11. CASE UNCHANGED vars
      BY <3>7, <3>11 DEF vars, endVars, takeVars
    <3> QED BY <3>8, <3>9, <3>10, <3>11 DEF Next, Off
  <2> QED BY <1>p, <2>1, <2>2, <2>3, <2>4 DEF DoneInv
<1> QED BY <1>3, <1>4

-----------------------------------------------------------------------------
(* The theorems.                                                             *)

\* IInv, with the shape of the sequence of takes.
Ring == IInv /\ DoneShape

\* At first there is no file and no take.
LEMMA RingInit == Init => Ring
<1> SUFFICES ASSUME Init PROVE Ring
  OBVIOUS
<1>1. Window /\ TypeOK /\ VisitInv /\ WriterInv /\ TakeInv
  BY WindowInit DEF Window, Core
<1>2. /\ read = Parked /\ keepUntil = 0 /\ takeStart = 0 /\ wr = "look"
      /\ ~open /\ done = <<>> /\ lost = {} /\ cb = "idle" /\ written = 0
  BY DEF Init
<1>3. DOMAIN done = {}
  <2>1. DOMAIN <<>> = {}
    OBVIOUS
  <2> QED BY <1>2, <2>1
<1>4. LossInv
  BY <1>2 DEF Init, LossInv
<1>5. OpeningInv /\ FileInv
  BY <1>2 DEF OpeningInv, FileInv
<1>6. DoneInv
  <2>1. done = <<>> /\ floor = 0 /\ keepUntil = 0
    BY DEF Init
  <2> QED BY <1>3, <2>1 DEF DoneInv
<1>7. FinishedTakesAreWhole /\ TakesInOrder
  BY <1>2, <1>3 DEF FinishedTakesAreWhole, TakesInOrder
<1>8. DoneShape
  BY <1>2, EmptySeq DEF DoneShape
<1> QED BY <1>1, <1>4, <1>5, <1>6, <1>7, <1>8 DEF Window, IInv, Ring

\* Every step of the callback, the writer and the person keeps it all.
LEMMA RingStep == Ring /\ [Next]_vars => Ring'
<1> SUFFICES ASSUME Ring, [Next]_vars PROVE Ring'
  OBVIOUS
<1>1. /\ TypeOK /\ VisitInv /\ WriterInv /\ TakeInv /\ LossInv /\ WindowInv
      /\ LapInv /\ WaitingIsHeld /\ OpeningInv /\ FileInv /\ DoneInv
      /\ FinishedTakesAreWhole /\ TakesInOrder /\ DoneShape
  BY DEF Ring, IInv
<1>2. Core
  BY <1>1 DEF Core
<1>3. Core' /\ WindowInv' /\ LapInv' /\ WaitingIsHeld'
  BY <1>1, <1>2, CoreStep, WindowStep, LapStep, WaitingStep
<1>4. LossInv' /\ OpeningInv' /\ FileInv' /\ DoneInv' /\ DoneShape'
  BY <1>1, <1>2, LossStep, OpeningStep, FileStep, DoneStep, DoneShapeStep
<1>5. FinishedTakesAreWhole'
      /\ \A i \in DOMAIN done' :
           /\ done'[i].start <= done'[i].end
           /\ i > 1 => done'[i - 1].end <= done'[i].start
  BY <1>1, <1>2, OrderStep
<1>6. (open /\ done # <<>> => done[Len(done)].end <= wStart)'
  <2>1. (open => read # Parked /\ wr # "park")'
    BY <1>3 DEF Core, WriterInv
  <2>2. (open => wStart = takeStart)'
    BY <1>4 DEF FileInv
  <2>3. (done # <<>> /\ read # Parked /\ wr # "park" => LastDone <= takeStart)'
    BY <1>4 DEF DoneInv
  <2> QED BY <2>1, <2>2, <2>3 DEF LastDone
<1>7. TakesInOrder'
  BY <1>5, <1>6 DEF TakesInOrder
<1> QED BY <1>3, <1>4, <1>5, <1>7 DEF Core, Ring, IInv

\* The whole inductive invariant of the ring, for every instance of it.
THEOREM RingInvariant == Spec => []IInv
<1>1. Spec => []Ring
  BY RingInit, RingStep, PTL DEF Spec
<1>2. Ring => IInv
  BY DEF Ring
<1> QED BY <1>1, <1>2, PTL

\* What the recorder is for: a file has at each position of its take the block
\* that arrived there, and silence exactly where the callback counted an
\* overrun, while it is written and once it is finished; unless the writer was
\* still at it a lap of the ring after the take's end.
THEOREM FilesFaithful == Spec => []FilesAreFaithful
<1>1. IInv => FilesAreFaithful
  BY DEF IInv, FileInv, DoneInv, FilesAreFaithful
<1> QED BY <1>1, RingInvariant, PTL

\* A finished take that the disk did not fail lacks no block between its start
\* and its end, and has none before its start.
THEOREM TakesWhole == Spec => []FinishedTakesAreWhole
<1>1. IInv => FinishedTakesAreWhole
  BY DEF IInv
<1> QED BY <1>1, RingInvariant, PTL

\* However far a pre-roll would reach, no take begins before the end of the one
\* before it, finished or not.
THEOREM TakesOrdered == Spec => []TakesInOrder
<1>1. IInv => TakesInOrder
  BY DEF IInv
<1> QED BY <1>1, RingInvariant, PTL

-----------------------------------------------------------------------------
(* The ring and the timeline.                                                *)

\* Everything known of a reachable state of the ring.
All == Ring /\ FloorInv /\ EarlyInv

LEMMA AllFacts ==
    ASSUME All
    PROVE  /\ Core /\ Numbers /\ TypeOK /\ VisitInv /\ WriterInv /\ TakeInv
           /\ LossInv /\ WindowInv /\ LapInv /\ WaitingIsHeld
           /\ OpeningInv /\ FileInv /\ DoneInv /\ DoneShape
           /\ FloorInv /\ EarlyInv
           /\ floor \in Nat
<1>1. Core
  BY DEF All, Ring, IInv, Core
<1> QED BY <1>1, CoreFacts DEF All, Ring, IInv, TypeOK, CaptureTypeOK, Positions

-----------------------------------------------------------------------------
(* Where the last take ended.                                                *)

\* The take that is finished ends where its end was set.
LEMMA LastEndSteps ==
    ASSUME All, [Next]_vars
    PROVE  /\ FinishTake => LastEnd' = keepUntil
           /\ ~FinishTake => LastEnd' = LastEnd
<1>c. Core /\ OpeningInv /\ FileInv /\ DoneInv /\ DoneShape
  BY AllFacts
<1>1. CASE FinishTake
  <2>1. /\ Len(done') = Len(done) + 1 /\ done' # <<>>
        /\ done'[Len(done) + 1] = Finished /\ wEnd = keepUntil
    BY <1>c, <1>1, AfterFinish, FinishedTake
  <2> QED BY <1>1, <2>1 DEF LastEnd, Finished
<1>2. CASE ~FinishTake
  BY <1>c, <1>2, DoneStays DEF LastEnd
<1> QED BY <1>1, <1>2

LEMMA FloorStep ==
    ASSUME All, [Next]_vars
    PROVE  FloorInv'
<1>c. /\ Core /\ Numbers /\ VisitInv /\ WriterInv /\ TakeInv /\ FloorInv
      /\ OpeningInv /\ FileInv /\ DoneInv
  BY AllFacts
<1> USE <1>c DEF Numbers
<1>p. Parked' = Parked
  BY DEF Parked
<1>1. CASE Callback
  <2>1. UNCHANGED <<wr, LastEnd>>
    BY <1>1, CallbackLeaves DEF fileVars, LastEnd
  <2>2. CASE EndTake
    <3>1. /\ cb = "unwanted" /\ cb' = "ending" /\ recording
          /\ keepUntil' = written /\ UNCHANGED <<read, floor>>
      BY <2>2 DEF EndTake
    <3>2. UnderWay'
      BY <1>p, <2>1, <3>1 DEF UnderWay, TakeInv
    <3> QED BY <1>p, <3>1, <3>2 DEF FloorInv
  <2>3. CASE TakeEnded
    <3>1. /\ cb = "ending" /\ cb' = "check" /\ floor' = written
          /\ UNCHANGED <<read, keepUntil>>
      BY <2>3 DEF TakeEnded
    <3>2. keepUntil = written
      BY <3>1 DEF TakeInv
    <3>3. UnderWay' = UnderWay
      BY <1>p, <2>1, <3>1 DEF UnderWay
    <3> QED BY <1>p, <2>1, <3>1, <3>2, <3>3 DEF FloorInv
  <2>4. CASE PublishTake
    <3>1. /\ cb = "starting" /\ cb' = "check" /\ keepUntil' = Parked
          /\ read' = takeStart /\ UNCHANGED floor
      BY <2>4 DEF PublishTake
    <3>2. read = Parked /\ takeStart <= written
      BY <3>1 DEF TakeInv
    <3>3. ~UnderWay /\ UnderWay'
      BY <1>p, <2>1, <3>1, <3>2 DEF UnderWay, WriterInv
    <3> QED BY <1>p, <2>1, <3>1, <3>3 DEF FloorInv
  <2>5. CASE /\ UNCHANGED <<read, keepUntil, floor>>
             /\ cb' = "ending" <=> cb = "ending"
    <3>1. UnderWay' = UnderWay
      BY <1>p, <2>1, <2>5 DEF UnderWay
    <3> QED BY <1>p, <2>1, <2>5, <3>1 DEF FloorInv
  <2> QED
    BY <1>1, <2>2, <2>3, <2>4, <2>5 DEF Callback, BlockBegins, LoadTap,
       CountedPending, CountedWants, LoadWant, StartTake, TakeGoesOn,
       CheckSlot, FillSlot, PublishBlock, endVars
<1>2. CASE Writer
  <2>1. UNCHANGED <<keepUntil, floor, cb>>
    BY <1>2, WriterLeaves DEF endVars
  <2>2. CASE FinishTake
    <3>1. LastEnd' = keepUntil
      BY <2>2, LastEndSteps
    <3>2. keepUntil # Parked /\ UnderWay /\ ~UnderWay'
      BY <1>p, <2>2, FinishedTake DEF UnderWay, FinishTake
    <3> QED BY <1>p, <2>1, <3>1, <3>2 DEF FloorInv
  <2>3. CASE Park
    <3>1. ~UnderWay /\ ~UnderWay'
      BY <1>p, <2>3 DEF UnderWay, Park
    <3>2. LastEnd' = LastEnd
      BY <2>3 DEF Park, fileVars, LastEnd
    <3> QED BY <1>p, <2>1, <3>1, <3>2 DEF FloorInv
  <2>4. CASE ~FinishTake /\ ~Park
    <3>1. LastEnd' = LastEnd
      BY <2>4, LastEndSteps DEF All
    <3>2. UnderWay' = UnderWay
      <4>1. CASE Consume
        <5>1. read # Parked /\ wAt < wLimit /\ wLimit <= written
          BY <4>1 DEF Consume, WriterInv, InStep, InBlock, InLoop
        <5>2. wLimit \in Nat
          BY DEF Core, TypeOK, WriterTypeOK, Positions
        <5>3. read' # Parked
          BY <1>p, <4>1, <5>1, <5>2 DEF Consume
        <5> QED BY <1>p, <4>1, <5>1, <5>3 DEF Consume, UnderWay
      <4>2. CASE \/ OpenTake \/ TakeStillOpen \/ LoadEnd \/ LoadLimit
                 \/ ReadBlock \/ WriteBlock \/ WriteSilence \/ LookAtDisk
                 \/ GiveUp \/ StepAgain \/ Leave
        BY <1>p, <4>2 DEF OpenTake, TakeStillOpen, LoadEnd, LoadLimit,
           ReadBlock, WriteBlock, WriteSilence, Write, LookAtDisk, GiveUp,
           StepAgain, Leave, UnderWay
      <4> QED BY <1>2, <2>4, <4>1, <4>2 DEF Writer
    <3> QED BY <1>p, <2>1, <3>1, <3>2 DEF FloorInv
  <2> QED BY <2>2, <2>3, <2>4
<1>3. CASE Person
  <2>1. UNCHANGED <<read, wr, cb, LastEnd>>
    BY <1>3, PersonLeaves DEF fileVars, LastEnd
  <2>2. UnderWay' = UnderWay
    BY <1>p, <2>1 DEF UnderWay
  <2>3. CASE CloseRing /\ TakeToClose
    <3>1. /\ keepUntil' = written /\ floor' = written /\ recording
          /\ cb = "idle"
      BY <2>3 DEF CloseRing, TakeToClose, NoCallbackInside, VisitInv
    <3>2. UnderWay
      BY <3>1 DEF TakeInv, UnderWay
    <3> QED BY <1>p, <2>1, <2>2, <3>1, <3>2 DEF FloorInv
  <2>4. CASE ~(CloseRing /\ TakeToClose)
    <3>1. UNCHANGED <<keepUntil, floor>>
      BY <1>3, <2>4 DEF Person, Disarming, Record, Stop, Stopped, Disarm,
         DisarmStops, Detach, CloseRing, JoinWriter, endVars
    <3> QED BY <1>p, <2>1, <2>2, <3>1 DEF FloorInv
  <2> QED BY <2>3, <2>4
<1>4. CASE UNCHANGED vars
  <2>1. UNCHANGED <<read, wr, cb, done, keepUntil, floor>>
    BY <1>4 DEF vars, fileVars, endVars
  <2> QED BY <1>p, <2>1 DEF FloorInv, UnderWay, LastEnd
<1> QED BY <1>1, <1>2, <1>3, <1>4 DEF Next, Off

LEMMA EarlyStep ==
    ASSUME All, [Next]_vars
    PROVE  EarlyInv'
<1>c. /\ Core /\ Numbers /\ VisitInv /\ WriterInv /\ TakeInv /\ EarlyInv
  BY AllFacts
<1> USE <1>c DEF Numbers
<1>p. Parked' = Parked
  BY DEF Parked
<1>1. CASE Callback
  <2>1. CASE EndTake
    <3>1. /\ keepUntil = Parked /\ cb' = "ending"
          /\ UNCHANGED <<overtaken, read>>
      BY <2>1 DEF EndTake, TakeInv
    <3> QED BY <1>p, <3>1 DEF EarlyInv
  <2>2. CASE StartTake
    <3>1. /\ takeStart' = TakeBegins /\ read' = Parked
          /\ UNCHANGED <<floor, written>>
      BY <2>2 DEF StartTake, MayStart, endVars
    <3> QED BY <1>p, <3>1 DEF EarlyInv, TakeBegins
  <2>3. CASE PublishTake
    BY <2>3 DEF PublishTake, EarlyInv
  <2>4. CASE PublishBlock
    <3>1. /\ written' = written + 1 /\ cb' = "idle"
          /\ overtaken' = (overtaken \/ RoundAgain)
          /\ UNCHANGED <<read, keepUntil>>
      BY <2>4 DEF PublishBlock, endVars
    <3>2. SUFFICES ASSUME overtaken', read' # Parked
                   PROVE  keepUntil' # Parked /\ written' >= keepUntil' + Slots
      BY <1>p, <3>1 DEF EarlyInv
    <3>3. CASE overtaken
      BY <3>1, <3>2, <3>3 DEF EarlyInv
    <3>4. CASE RoundAgain
      BY <3>1, <3>4 DEF RoundAgain
    <3> QED BY <3>1, <3>2, <3>3, <3>4
  <2>5. CASE /\ UNCHANGED <<overtaken, read, keepUntil, takeStart, floor, written>>
             /\ cb' # "starting"
    BY <1>p, <2>5 DEF EarlyInv
  <2>6. CASE TakeEnded
    BY <1>p, <2>6 DEF TakeEnded, EarlyInv
  <2> QED
    BY <1>1, <2>1, <2>2, <2>3, <2>4, <2>5, <2>6 DEF Callback, BlockBegins,
       LoadTap, CountedPending, CountedWants, LoadWant, TakeGoesOn,
       CheckSlot, FillSlot, endVars, takeVars
<1>2. CASE Writer
  <2>1. UNCHANGED <<keepUntil, floor, cb, takeStart, written, overtaken>>
    BY <1>2, WriterLeaves DEF endVars, takeVars
  <2>2. TakeBegins' = TakeBegins
    BY <2>1 DEF TakeBegins
  <2>3. read' # Parked => read # Parked
    BY <1>2 DEF Writer, OpenTake, TakeStillOpen, LoadEnd, LoadLimit, ReadBlock,
       WriteBlock, WriteSilence, Consume, LookAtDisk, GiveUp, FinishTake,
       StepAgain, Park, Leave, WriterInv, InStep
  <2> QED BY <1>p, <2>1, <2>2, <2>3 DEF EarlyInv
<1>3. CASE Person
  <2>1. UNCHANGED <<read, cb, takeStart, written, overtaken>>
    BY <1>3, PersonLeaves DEF takeVars
  <2>2. CASE CloseRing /\ TakeToClose
    <3>1. cb = "idle" /\ keepUntil = Parked
      BY <2>2 DEF CloseRing, TakeToClose, NoCallbackInside, VisitInv, TakeInv
    <3> QED BY <1>p, <2>1, <3>1 DEF EarlyInv
  <2>3. CASE ~(CloseRing /\ TakeToClose)
    <3>1. UNCHANGED <<keepUntil, floor>>
      BY <1>3, <2>3 DEF Person, Disarming, Record, Stop, Stopped, Disarm,
         DisarmStops, Detach, CloseRing, JoinWriter, endVars
    <3>2. TakeBegins' = TakeBegins
      BY <2>1, <3>1 DEF TakeBegins
    <3> QED BY <1>p, <2>1, <3>1, <3>2 DEF EarlyInv
  <2> QED BY <2>2, <2>3
<1>4. CASE UNCHANGED vars
  <2>1. UNCHANGED <<read, cb, keepUntil, floor, takeStart, written, overtaken>>
    BY <1>4 DEF vars, takeVars, endVars
  <2> QED BY <1>p, <2>1 DEF EarlyInv, TakeBegins
<1> QED BY <1>1, <1>2, <1>3, <1>4 DEF Next, Off

\* Every reachable state of the ring is one the refinement can be argued from.
LEMMA AllInvariant == Spec => []All
<1>1. Init => All
  <2> SUFFICES ASSUME Init PROVE All
    OBVIOUS
  <2>1. Ring
    BY RingInit
  <2>2. FloorInv /\ EarlyInv
    BY DEF Init, FloorInv, EarlyInv, UnderWay, LastEnd, Parked
  <2> QED BY <2>1, <2>2 DEF All
<1>2. All /\ [Next]_vars => All'
  BY RingStep, FloorStep, EarlyStep DEF All
<1> QED BY <1>1, <1>2, PTL DEF Spec

-----------------------------------------------------------------------------
(* The steps, as the timeline sees them.                                     *)

\* An open take that is not given up is written up to `read`.
LEMMA WrittenSoFar ==
    ASSUME All, open, ~skipping, wr \in {"drain", "copy", "finish"}
    PROVE  /\ UnderWay /\ Opened /\ TheFile = file /\ ~GivenUp
           /\ takeStart + Cardinality(DOMAIN file) = wAt /\ read = wAt
<1>c. /\ Core /\ Numbers /\ TypeOK /\ WriterInv /\ TakeInv /\ FileInv
  BY AllFacts
<1> USE <1>c DEF Numbers
<1>1. read # Parked /\ wr # "park" /\ read = wAt
  BY DEF WriterInv, Settled, InLoop
<1>2. takeStart <= read /\ read <= written
  BY <1>1 DEF TakeInv
<1>3. DOMAIN file = takeStart .. (read - 1)
  <2>1. DOMAIN file \subseteq Positions
    BY DEF TypeOK, FileTypeOK
  <2>2. wStart = takeStart
    BY DEF FileInv
  <2>3. \A p \in Positions : takeStart <= p => (p \in DOMAIN file <=> p < read)
    BY <2>2 DEF FileInv
  <2>4. \A p \in DOMAIN file : takeStart <= p
    BY <2>2 DEF FileInv
  <2>5. ASSUME NEW p \in DOMAIN file PROVE p \in takeStart .. (read - 1)
    BY <2>1, <2>3, <2>4 DEF Positions
  <2>6. ASSUME NEW p \in takeStart .. (read - 1) PROVE p \in DOMAIN file
    <3>1. p \in Positions
      BY <1>2 DEF Positions
    <3> QED BY <2>3, <3>1
  <2> QED BY <2>5, <2>6
<1>4. Cardinality(takeStart .. (read - 1)) = read - takeStart
  <2>1. takeStart \in Int /\ read - 1 \in Int
    OBVIOUS
  <2>2. Cardinality(takeStart .. (read - 1)) =
          IF takeStart > read - 1 THEN 0 ELSE (read - 1) - takeStart + 1
    BY <2>1, FS_Interval
  <2> QED BY <1>2, <2>2
<1> QED BY <1>1, <1>3, <1>4 DEF UnderWay, Opened, TheFile, GivenUp

\* With the takes finished unchanged, so is what is past.
LEMMA PastStays ==
    ASSUME UNCHANGED done
    PROVE  Past' = Past
  BY DEF Past, AsPast

\* A take's window is what it was when its start and its end are.
LEMMA TakeStays ==
    ASSUME UNCHANGED <<takeStart, keepUntil>>, UnderWay' = UnderWay
    PROVE  TheTake' = TheTake
  BY DEF TheTake, TakeWindow

\* The timeline does not see a step that leaves what it is read off alone.
LEMMA Unseen ==
    ASSUME UNCHANGED <<written, lost, done, takeStart, keepUntil, file,
                       skipping, open>>, UnderWay' = UnderWay
    PROVE  UNCHANGED Timeline!vars
<1>1. TheTake' = TheTake /\ Past' = Past
  BY TakeStays, PastStays
<1>2. Opened' = Opened
  BY DEF Opened
<1>3. NoFile' = NoFile
  BY DEF NoFile
<1>4. TheFile' = TheFile /\ GivenUp' = GivenUp /\ Gone' = Gone
  BY <1>2, <1>3 DEF TheFile, GivenUp, Gone
<1> QED BY <1>1, <1>4 DEF Timeline!vars

\* The timeline counts as the ring does.
LEMMA SameCount ==
    ASSUME NEW S
    PROVE  Timeline!Cardinality(S) = Cardinality(S)
  BY DEF Timeline!Cardinality, Cardinality

\* What is past is the takes finished, one for one.
LEMMA PastFacts ==
    ASSUME DoneShape
    PROVE  /\ Past \in Seq({AsPast(t) : t \in Takes})
           /\ Len(Past) = Len(done) /\ Len(done) \in Nat
           /\ \A i \in 1 .. Len(done) : Past[i] = AsPast(done[i])
           /\ Timeline!LastEnd = LastEnd
<1> DEFINE n == Len(done)
<1>1. n \in Nat /\ done \in [1 .. n -> Takes] /\ DOMAIN done = 1 .. n
  BY LenProperties DEF DoneShape
<1> HIDE DEF n
<1>2. \A i \in 1 .. n : AsPast(done[i]) \in {AsPast(t) : t \in Takes}
  BY <1>1
<1>3. Past = [i \in 1 .. n |-> AsPast(done[i])]
  BY <1>1 DEF Past
<1>4. Past \in Seq({AsPast(t) : t \in Takes}) /\ Len(Past) = n
  BY <1>1, <1>2, <1>3
<1>5. \A i \in 1 .. n : Past[i] = AsPast(done[i])
  BY <1>3
<1>6. Past = <<>> <=> n = 0
  BY <1>4, EmptySeq
<1>7. done = <<>> <=> n = 0
  BY <1>1, EmptySeq DEF DoneShape, n
<1>8. Timeline!LastEnd = LastEnd
  <2>1. CASE n = 0
    BY <1>6, <1>7, <2>1 DEF Timeline!LastEnd, LastEnd
  <2>2. CASE n # 0
    <3>1. Past[n].end = done[n].end
      <4>1. n \in 1 .. n
        BY <1>1, <2>2
      <4>2. Past[n] = AsPast(done[n])
        BY <1>5, <4>1 DEF n
      <4> QED BY <4>2 DEF AsPast
    <3>2. LastEnd = done[n].end
      BY <1>7, <2>2 DEF LastEnd, n
    <3>3. Timeline!LastEnd = Past[n].end
      BY <1>4, <1>6, <2>2 DEF Timeline!LastEnd
    <3> QED BY <3>1, <3>2, <3>3
  <2> QED BY <2>1, <2>2
<1> QED BY <1>1, <1>4, <1>5, <1>8 DEF n

\* A take finished is one more that is past.
LEMMA PastGrows ==
    ASSUME DoneShape, NEW t \in Takes, done' = Append(done, t)
    PROVE  Past' = Append(Past, AsPast(t))
<1> DEFINE S == {AsPast(u) : u \in Takes}
<1>1. /\ Past \in Seq(S) /\ Len(Past) = Len(done) /\ Len(done) \in Nat
      /\ \A i \in 1 .. Len(done) : Past[i] = AsPast(done[i])
  BY PastFacts
<1>2. AsPast(t) \in S
  OBVIOUS
<1>3. DoneShape'
  BY AppendTake DEF DoneShape
<1>4. /\ Past' \in Seq(S) /\ Len(Past') = Len(done')
      /\ \A i \in 1 .. Len(done') : Past'[i] = AsPast(done'[i])
  <2>1. Len(done') \in Nat /\ done' \in [1 .. Len(done') -> Takes]
    BY <1>3, LenProperties DEF DoneShape
  <2>2. Past' = [i \in 1 .. Len(done') |-> AsPast(done'[i])]
    BY <2>1 DEF Past, AsPast
  <2>3. \A i \in 1 .. Len(done') : AsPast(done'[i]) \in S
    BY <2>1
  <2> HIDE DEF S
  <2> QED BY <2>1, <2>2, <2>3
<1> HIDE DEF S
<1>5. /\ Append(Past, AsPast(t)) \in Seq(S)
      /\ Len(Append(Past, AsPast(t))) = Len(Past) + 1
      /\ \A i \in 1 .. Len(Past) : Append(Past, AsPast(t))[i] = Past[i]
      /\ Append(Past, AsPast(t))[Len(Past) + 1] = AsPast(t)
  BY <1>1, <1>2, AppendTake
<1>6. /\ Len(done') = Len(done) + 1
      /\ \A i \in 1 .. Len(done) : done'[i] = done[i]
      /\ done'[Len(done) + 1] = t
  BY AppendTake DEF DoneShape
<1>7. Len(Past') = Len(Append(Past, AsPast(t)))
  BY <1>1, <1>4, <1>5, <1>6
<1>8. \A i \in 1 .. Len(Past') : Past'[i] = Append(Past, AsPast(t))[i]
  BY <1>1, <1>4, <1>5, <1>6
<1> QED BY <1>4, <1>5, <1>7, <1>8, SeqEqual

\* The end of a take that runs is set where the stream is: End, on the timeline.
LEMMA TakeEnds ==
    ASSUME All, recording, cb # "ending", keepUntil' = written,
           UNCHANGED <<written, lost, takeStart, read, wr, done, open, skipping,
                       file>>
    PROVE  Timeline!Next
<1>c. Numbers /\ TakeInv
  BY AllFacts
<1>1. keepUntil = Parked /\ UnderWay
  BY <1>c DEF TakeInv, UnderWay
<1>2. Parked' = Parked /\ NoFile' = NoFile
  BY DEF Parked, NoFile
<1>3. UnderWay'
  BY <1>1, <1>2 DEF UnderWay
<1>4. /\ TheTake = {[start |-> takeStart, end |-> Parked]}
      /\ TheTake' = {[start |-> takeStart, end |-> written]}
  BY <1>1, <1>3 DEF TheTake, TakeWindow
<1>5. TheFile' = TheFile /\ GivenUp' = GivenUp
  BY <1>1, <1>2, <1>3 DEF TheFile, GivenUp, Opened
<1>6. Gone' = Gone /\ Past' = Past
  BY PastStays DEF Gone
<1>7. Timeline!End
  BY <1>4, <1>5, <1>6 DEF Timeline!End, Timeline!Unended, Parked
<1> QED BY <1>7 DEF Timeline!Next

\* The writer's write of a block: the next block of the take as it arrived, or,
\* past its end or a lap after it, anything; or the take is given up.
LEMMA BlockWritten ==
    ASSUME All, NEW x \in Content, Write(x), wr \in {"copy", "drain"},
           wAt < wLimit,
           wAt < keepUntil /\ ~overtaken =>
             x = IF wAt \in lost THEN Silence ELSE wAt,
           UNCHANGED <<lost, takeStart, keepUntil, written, read, open, done, wAt>>
    PROVE  [Timeline!Next]_Timeline!vars
<1>c. /\ Core /\ Numbers /\ TypeOK /\ WriterInv /\ EarlyInv
  BY AllFacts
<1> USE <1>c DEF Numbers
<1>1. /\ open /\ read # Parked /\ read = wAt /\ wAt < written
  <2>1. open /\ read = wAt /\ wLimit <= written
    BY DEF WriterInv, InStep, InLoop, Settled
  <2>2. wLimit \in Nat
    BY DEF TypeOK, WriterTypeOK, Positions
  <2> QED BY <2>1, <2>2 DEF WriterInv
<1>2. wr' \in {"consume", "give_up_write"}
  BY DEF Write
<1>3. UnderWay /\ UnderWay' /\ Opened /\ Opened'
  BY <1>1, <1>2 DEF UnderWay, Opened, Parked
<1>4. /\ TheTake' = TheTake /\ Past' = Past /\ Gone' = Gone
      /\ TheTake = {TakeWindow}
  BY <1>3, TakeStays, PastStays DEF Gone, TheTake
<1>5. /\ TheFile = file /\ TheFile' = file'
      /\ GivenUp = skipping /\ GivenUp' = skipping'
  <2>1. Opened = TRUE /\ Opened' = TRUE
    BY <1>3 DEF Opened, UnderWay
  <2>2. skipping \in BOOLEAN /\ skipping' \in BOOLEAN
    BY DEF TypeOK, WriterTypeOK, Write
  <2>3. GivenUp = skipping /\ GivenUp' = skipping'
    BY <2>1, <2>2 DEF GivenUp
  <2> QED BY <2>1, <2>3 DEF TheFile
<1>6. CASE skipping
  <2>1. UNCHANGED <<file, skipping>>
    BY <1>6 DEF Write
  <2> QED BY <1>4, <1>5, <2>1 DEF Timeline!vars
<1>7. CASE ~skipping /\ file' = Extended(x) /\ skipping' = skipping
  <2>1. takeStart + Cardinality(DOMAIN file) = wAt
    BY <1>1, <1>7, WrittenSoFar
  <2>2. TakeWindow.start = takeStart /\ TakeWindow.end = keepUntil
    BY DEF TakeWindow
  <2>3. file' = Timeline!Add(wAt, x)
    BY <1>5, <1>7 DEF Timeline!Add, Extended
  <2>4. CASE wAt < keepUntil /\ ~overtaken
    <3>1. wAt \in Gone <=> wAt \in lost
      BY <1>1 DEF Gone
    <3>2. x = IF wAt \in Gone THEN Timeline!Silence ELSE wAt
      BY <2>4, <3>1 DEF Timeline!Silence, Silence
    <3>3. TheFile' = Timeline!Add(wAt, IF wAt \in Gone THEN Timeline!Silence
                                       ELSE wAt)
      BY <1>5, <2>3, <3>2
    <3>4. \E t \in TheTake : LET p == t.start + Cardinality(DOMAIN TheFile) IN
             /\ p < written /\ p < t.end
             /\ TheFile' = Timeline!Add(p, IF p \in Gone THEN Timeline!Silence
                                           ELSE p)
      <4>1. TakeWindow.start + Cardinality(DOMAIN TheFile) = wAt
        BY <1>5, <2>1, <2>2
      <4>2. TakeWindow \in TheTake
        BY <1>4
      <4>3. LET p == TakeWindow.start + Cardinality(DOMAIN TheFile) IN
               /\ p < written /\ p < TakeWindow.end
               /\ TheFile' = Timeline!Add(p, IF p \in Gone THEN Timeline!Silence
                                             ELSE p)
        BY <1>1, <2>2, <2>4, <3>3, <4>1
      <4> QED BY <4>2, <4>3
    <3>5. ~GivenUp /\ GivenUp' = GivenUp
      BY <1>5, <1>7
    <3>6. Timeline!Write
      BY <1>4, <3>4, <3>5, SameCount DEF Timeline!Write
    <3> QED BY <3>6 DEF Timeline!Next
  <2>5. CASE ~(wAt < keepUntil /\ ~overtaken)
    <3>1. wAt >= keepUntil \/ written >= keepUntil + Slots
      BY <1>1, <2>5 DEF EarlyInv
    <3>2. x \in Timeline!Content
      BY DEF Timeline!Content, Content, Torn
    <3>3. \E t \in TheTake : LET p == t.start + Cardinality(DOMAIN TheFile) IN
             /\ p < written
             /\ p >= t.end \/ written >= t.end + Slots
             /\ \E y \in Timeline!Content : TheFile' = Timeline!Add(p, y)
      <4>1. TakeWindow.start + Cardinality(DOMAIN TheFile) = wAt
        BY <1>5, <2>1, <2>2
      <4>2. \E y \in Timeline!Content : TheFile' = Timeline!Add(wAt, y)
        BY <1>5, <2>3, <3>2
      <4>3. TakeWindow \in TheTake
        BY <1>4
      <4>4. LET p == TakeWindow.start + Cardinality(DOMAIN TheFile) IN
               /\ p < written
               /\ p >= TakeWindow.end \/ written >= TakeWindow.end + Slots
               /\ \E y \in Timeline!Content : TheFile' = Timeline!Add(p, y)
        BY <1>1, <2>2, <3>1, <4>1, <4>2
      <4> QED BY <4>3, <4>4
    <3>4. ~GivenUp /\ GivenUp' = GivenUp
      BY <1>5, <1>7
    <3>5. Timeline!WriteLoosely
      BY <1>4, <3>3, <3>4, SameCount DEF Timeline!WriteLoosely
    <3> QED BY <3>5 DEF Timeline!Next
  <2> QED BY <2>4, <2>5
<1>8. CASE ~skipping /\ skipping' /\ file' = file
  <2>1. skipping' = TRUE
    BY <1>8 DEF Write
  <2>2. Timeline!GiveUp
    BY <1>4, <1>5, <1>8, <2>1 DEF Timeline!GiveUp
  <2> QED BY <2>2 DEF Timeline!Next
<1> QED BY <1>6, <1>7, <1>8 DEF Write

\* The callback: a block arrives, a take begins or ends.
LEMMA CallbackRefines ==
    ASSUME All, Callback
    PROVE  [Timeline!Next]_Timeline!vars
<1>c. /\ Core /\ Numbers /\ TypeOK /\ VisitInv /\ WriterInv /\ TakeInv
      /\ DoneInv /\ FloorInv /\ EarlyInv /\ LossInv /\ floor \in Nat
  BY AllFacts
<1> USE <1>c DEF Numbers
<1>p. Parked' = Parked /\ NoFile' = NoFile
  BY DEF Parked, NoFile
<1>w. UNCHANGED <<done, open, skipping, file, wr>>
  BY CallbackLeaves DEF fileVars
<1>1. CASE PublishBlock
  <2>1. /\ written' = written + 1 /\ cb = "publish"
        /\ UNCHANGED <<lost, takeStart, keepUntil, read>>
    BY <1>1 DEF PublishBlock, ringVars, takeVars, endVars
  <2>2. UnderWay' = UnderWay
    BY <1>p, <1>w, <2>1 DEF UnderWay
  <2>3. TheTake' = TheTake /\ Past' = Past
    BY <1>w, <2>1, <2>2, TakeStays, PastStays
  <2>4. TheFile' = TheFile /\ GivenUp' = GivenUp
    BY <1>p, <1>w, <2>2 DEF TheFile, GivenUp, Opened
  <2>5. Gone' = Gone \/ Gone' = Gone \cup {written}
    <3>1. \A p \in lost : p \in Nat
      BY DEF TypeOK, CaptureTypeOK, Positions
    <3>2. \A p : p \in Gone' <=> p \in lost /\ p < written + 1
      BY <2>1 DEF Gone
    <3>3. \A p : p \in Gone <=> p \in lost /\ p < written
      BY DEF Gone
    <3>4. \A p : p \in Gone' <=> p \in Gone \/ (p \in lost /\ p = written)
      BY <3>1, <3>2, <3>3
    <3>5. CASE written \in lost
      BY <3>4, <3>5
    <3>6. CASE written \notin lost
      BY <3>4, <3>6
    <3> QED BY <3>5, <3>6
  <2>6. written < Horizon
    BY <2>1 DEF VisitInv
  <2> QED BY <2>1, <2>3, <2>4, <2>5, <2>6 DEF Timeline!Next, Timeline!Arrive
<1>2. CASE CheckSlot
  <2>1. /\ UNCHANGED <<written, takeStart, keepUntil, read>>
        /\ lost' = lost \/ lost' = lost \cup {written}
    BY <1>2 DEF CheckSlot, ringVars, takeVars, endVars
  <2>2. UnderWay' = UnderWay
    BY <1>p, <1>w, <2>1 DEF UnderWay
  <2>3. TheTake' = TheTake /\ Past' = Past
    BY <1>w, <2>1, <2>2, TakeStays, PastStays
  <2>4. TheFile' = TheFile /\ GivenUp' = GivenUp
    BY <1>p, <1>w, <2>2 DEF TheFile, GivenUp, Opened
  <2>5. Gone' = Gone
    BY <2>1 DEF Gone
  <2> QED BY <2>1, <2>3, <2>4, <2>5 DEF Timeline!vars
<1>3. CASE PublishTake
  <2>1. /\ cb = "starting" /\ keepUntil' = Parked /\ read' = takeStart
        /\ UNCHANGED <<written, lost, takeStart>>
    BY <1>3 DEF PublishTake, ringVars
  <2>2. /\ read = Parked /\ floor <= takeStart /\ takeStart <= written
        /\ written <= takeStart + Preroll
    BY <2>1 DEF TakeInv
  <2>3. ~UnderWay /\ UnderWay' /\ ~open
    BY <1>p, <1>w, <2>1, <2>2 DEF UnderWay, WriterInv
  <2>4. /\ TheTake = {} /\ TheTake' = {[start |-> takeStart, end |-> Parked]}
    BY <2>1, <2>3 DEF TheTake, TakeWindow
  <2>5. /\ TheFile = NoFile /\ TheFile' = NoFile /\ ~GivenUp /\ ~GivenUp'
    BY <1>p, <1>w, <2>3 DEF TheFile, GivenUp, Opened
  <2>6. Gone' = Gone /\ Past' = Past
    BY <1>w, <2>1, PastStays DEF Gone
  <2>7. floor = LastEnd
    BY <2>1, <2>3 DEF FloorInv
  <2>8. takeStart = LastEnd \/ takeStart + Preroll = written \/ takeStart = 0
    BY <2>1, <2>7 DEF EarlyInv, TakeBegins, Greater, Back
  <2>9. Timeline!LastEnd = LastEnd
    BY AllFacts, PastFacts
  <2>10. takeStart \in 0 .. written /\ LastEnd <= takeStart
    BY <2>2, <2>7
  <2>11. Timeline!Begin
    BY <2>1, <2>2, <2>4, <2>5, <2>6, <2>8, <2>9, <2>10
       DEF Timeline!Begin, Timeline!Unended, Timeline!NoFile, NoFile, Parked,
           Timeline!Silence, Silence
  <2> QED BY <2>11 DEF Timeline!Next
<1>4. CASE EndTake
  <2>1. /\ recording /\ cb = "unwanted" /\ keepUntil' = written
        /\ UNCHANGED <<written, lost, takeStart, read>>
    BY <1>4 DEF EndTake, ringVars, takeVars
  <2> QED BY <1>w, <2>1, TakeEnds
<1>5. CASE StartTake
  <2>1. /\ read = Parked /\ read' = Parked
        /\ UNCHANGED <<written, lost, keepUntil>>
    BY <1>5 DEF StartTake, MayStart, ringVars, endVars
  <2>2. ~UnderWay /\ ~UnderWay'
    BY <1>p, <2>1 DEF UnderWay
  <2>3. TheTake' = TheTake /\ TheFile' = TheFile /\ GivenUp' = GivenUp
    BY <1>p, <2>2 DEF TheTake, TheFile, GivenUp, Opened
  <2>4. Gone' = Gone /\ Past' = Past
    BY <1>w, <2>1, PastStays DEF Gone
  <2> QED BY <2>1, <2>3, <2>4 DEF Timeline!vars
<1>6. CASE UNCHANGED <<written, lost, takeStart, keepUntil, read>>
  <2>1. UnderWay' = UnderWay
    BY <1>p, <1>w, <1>6 DEF UnderWay
  <2> QED BY <1>w, <1>6, <2>1, Unseen
<1> QED
  BY <1>1, <1>2, <1>3, <1>4, <1>5, <1>6 DEF Callback, BlockBegins, LoadTap,
     CountedPending, CountedWants, LoadWant, TakeEnded, TakeGoesOn, FillSlot,
     ringVars, takeVars, endVars

\* The person: only the close of the ring ends a take.
LEMMA PersonRefines ==
    ASSUME All, Person
    PROVE  [Timeline!Next]_Timeline!vars
<1>c. /\ Core /\ Numbers /\ VisitInv
  BY AllFacts
<1>1. /\ UNCHANGED <<written, lost, takeStart, read, wr, done, open, skipping,
                     file>>
  BY PersonLeaves DEF ringVars, takeVars, fileVars
<1>2. CASE CloseRing /\ TakeToClose
  <2>1. recording /\ cb = "idle" /\ keepUntil' = written
    BY <1>c, <1>2 DEF CloseRing, TakeToClose, NoCallbackInside, VisitInv
  <2> QED BY <1>1, <2>1, TakeEnds
<1>3. CASE ~(CloseRing /\ TakeToClose)
  <2>1. keepUntil' = keepUntil
    BY <1>3 DEF Person, Disarming, Record, Stop, Stopped, Disarm, DisarmStops,
       Detach, CloseRing, JoinWriter, endVars
  <2>2. UnderWay' = UnderWay
    BY <1>1 DEF UnderWay, Parked
  <2> QED BY <1>1, <2>1, <2>2, Unseen
<1> QED BY <1>2, <1>3

\* The writer: a take is given up, written a block further, or finished.
LEMMA WriterRefines ==
    ASSUME All, Writer
    PROVE  [Timeline!Next]_Timeline!vars
<1>c. /\ Core /\ Numbers /\ TypeOK /\ VisitInv /\ WriterInv /\ TakeInv
      /\ FileInv /\ EarlyInv /\ LossInv /\ WaitingIsHeld /\ OpeningInv
      /\ DoneInv /\ DoneShape
  BY AllFacts
<1> USE <1>c DEF Numbers
<1>p. Parked' = Parked /\ NoFile' = NoFile
  BY DEF Parked, NoFile
<1>u. UNCHANGED <<tags, data, lost, takeStart, keepUntil, written, overtaken>>
  BY WriterLeaves DEF ringVars, takeVars, endVars
<1>g. Gone' = Gone
  BY <1>u DEF Gone
<1>1. CASE OpenTake
  <2>1. /\ wr = "look" /\ read # Parked /\ ~open /\ open' /\ file' = NoFile
        /\ UNCHANGED <<read, done>> /\ wr' # "park"
    BY <1>1 DEF OpenTake
  <2>2. UnderWay /\ UnderWay' /\ ~Opened /\ Opened'
    BY <1>p, <2>1 DEF UnderWay, Opened
  <2>3. TheTake' = TheTake /\ Past' = Past
    BY <1>u, <2>1, <2>2, TakeStays, PastStays
  <2>4. TheFile' = TheFile /\ ~GivenUp
    BY <1>p, <2>1, <2>2 DEF TheFile, GivenUp
  <2>5. TheTake # {}
    BY <2>2 DEF TheTake
  <2>6. CASE skipping' = FALSE
    <3>1. GivenUp' = GivenUp
      BY <2>4, <2>6 DEF GivenUp
    <3> QED BY <1>g, <1>u, <2>3, <2>4, <3>1 DEF Timeline!vars
  <2>7. CASE skipping' = TRUE
    <3>1. GivenUp' = TRUE
      BY <2>2, <2>7 DEF GivenUp
    <3> QED BY <1>g, <1>u, <2>3, <2>4, <2>5, <3>1 DEF Timeline!Next, Timeline!GiveUp
  <2> QED BY <1>1, <2>6, <2>7 DEF OpenTake
<1>2. CASE WriteBlock
  <2>1. Write(data[Slot(wAt)]) /\ wr = "copy"
        /\ UNCHANGED <<read, open, done, wAt>>
    BY <1>2 DEF WriteBlock, stepVars
  <2>2. data[Slot(wAt)] \in Content
    <3>1. Slot(wAt) \in 0 .. Slots - 1
      BY DivisionBySlots
    <3> QED BY <3>1 DEF TypeOK, CaptureTypeOK
  <2>3. wAt < keepUntil /\ ~overtaken =>
          data[Slot(wAt)] = IF wAt \in lost THEN Silence ELSE wAt
    BY <2>1, WrittenIsRight
  <2>4. wAt < wLimit
    BY <2>1 DEF WriterInv, InBlock
  <2> QED BY <1>u, <2>1, <2>2, <2>3, <2>4, BlockWritten
<1>3. CASE WriteSilence
  <2>1. /\ Write(Silence) /\ wr = "drain" /\ MoreToDrain
        /\ tags[Slot(wAt)] # wAt
        /\ UNCHANGED <<read, open, done, wAt>>
    BY <1>3 DEF WriteSilence, stepVars
  <2>2. Silence \in Content
    BY DEF Content, Silence, Torn
  <2>3. wAt < keepUntil /\ ~overtaken =>
          Silence = IF wAt \in lost THEN Silence ELSE wAt
    BY <2>1, WrittenIsRight
  <2>4. wAt < wLimit
    BY <2>1 DEF MoreToDrain
  <2> QED BY <1>u, <2>1, <2>2, <2>3, <2>4, BlockWritten
<1>4. CASE FinishTake
  <2>1. /\ wr = "finish" /\ open /\ read # Parked /\ wEnd <= read
        /\ wEnd = keepUntil /\ keepUntil # Parked /\ wStart = takeStart
        /\ done' = Append(done, Finished) /\ Finished \in Takes
    BY <1>4, FinishedTake DEF FinishTake
  <2>2. UnderWay /\ Opened /\ ~UnderWay' /\ ~Opened'
    BY <1>4, <1>p, <2>1 DEF FinishTake, UnderWay, Opened
  <2>3. /\ TheTake = {TakeWindow} /\ TheTake' = {} /\ TheFile = file
        /\ TheFile' = NoFile /\ GivenUp = skipping /\ ~GivenUp'
    <3>1. skipping \in BOOLEAN
      BY DEF TypeOK, WriterTypeOK
    <3> QED BY <1>p, <2>2, <3>1 DEF TheTake, TheFile, GivenUp
  <2>4. Past' = Append(Past, [start |-> takeStart, end |-> keepUntil,
                              file |-> file, skipped |-> skipping])
    BY <2>1, PastGrows DEF Finished, AsPast
  <2>5. ~skipping => takeStart + Cardinality(DOMAIN file) >= keepUntil
    BY <2>1, WrittenSoFar
  <2>6. TheFile' = Timeline!NoFile
    BY <2>3 DEF Timeline!NoFile, NoFile, Timeline!Silence, Silence
  <2>7. \E t \in TheTake :
           /\ t.end # Timeline!Unended
           /\ GivenUp \/ t.start + Cardinality(DOMAIN TheFile) >= t.end
           /\ Past' = Append(Past, [start |-> t.start, end |-> t.end,
                                   file |-> TheFile, skipped |-> GivenUp])
    <3>1. /\ TakeWindow.start = takeStart /\ TakeWindow.end = keepUntil
          /\ Timeline!Unended = Parked
      BY DEF TakeWindow, Timeline!Unended, Parked
    <3>2. TakeWindow \in TheTake
      BY <2>3
    <3>3. /\ TakeWindow.end # Timeline!Unended
          /\ GivenUp \/ TakeWindow.start + Cardinality(DOMAIN TheFile)
                          >= TakeWindow.end
      BY <2>1, <2>3, <2>5, <3>1
    <3>4. Past' = Append(Past, [start |-> TakeWindow.start,
                                end |-> TakeWindow.end,
                                file |-> TheFile, skipped |-> GivenUp])
      <4>1. TheFile = file /\ GivenUp = skipping
        BY <2>3
      <4> QED BY <2>4, <3>1, <4>1
    <3> QED BY <3>2, <3>3, <3>4
  <2>8. GivenUp' = FALSE
    BY <2>3 DEF GivenUp
  <2>9. Timeline!Finish
    BY <1>g, <1>u, <2>3, <2>6, <2>7, <2>8, SameCount
    DEF Timeline!Finish
  <2> QED BY <2>9 DEF Timeline!Next
<1>5. CASE Park
  <2>1. ~UnderWay /\ ~UnderWay' /\ done' = done
    BY <1>5, <1>p DEF Park, UnderWay, fileVars
  <2>2. TheTake' = TheTake /\ TheFile' = TheFile /\ GivenUp' = GivenUp
    BY <1>p, <2>1 DEF TheTake, TheFile, GivenUp, Opened
  <2> QED BY <1>g, <1>u, <2>1, <2>2, PastStays DEF Timeline!vars
<1>6. CASE Consume
  <2>1. /\ UNCHANGED <<done, file, skipping, open>> /\ wr = "consume"
        /\ wr' = "drain" /\ read' = wAt + 1
    BY <1>6 DEF Consume, fileVars
  <2>2. read # Parked /\ wAt < wLimit /\ wLimit <= written
    BY <2>1 DEF WriterInv, InStep, InBlock, InLoop
  <2>3. wLimit \in Nat
    BY DEF TypeOK, WriterTypeOK, Positions
  <2>4. UnderWay /\ UnderWay'
    BY <1>p, <2>1, <2>2, <2>3 DEF UnderWay
  <2> QED BY <1>u, <2>1, <2>4, Unseen
<1>7. CASE \/ TakeStillOpen \/ LoadEnd \/ LoadLimit \/ ReadBlock \/ LookAtDisk
           \/ GiveUp \/ StepAgain \/ Leave
  <2>1. /\ UNCHANGED <<done, file, skipping, open, read>>
        /\ wr # "park" /\ wr' # "park"
    BY <1>7 DEF TakeStillOpen, LoadEnd, LoadLimit, ReadBlock, LookAtDisk,
       GiveUp, StepAgain, Leave, fileVars
  <2>2. UnderWay' = UnderWay
    BY <1>p, <2>1 DEF UnderWay
  <2> QED BY <1>u, <2>1, <2>2, Unseen
<1> QED BY <1>1, <1>2, <1>3, <1>4, <1>5, <1>6, <1>7 DEF Writer

-----------------------------------------------------------------------------
\* The ring with its three threads implements the timeline of takes: whatever
\* they interleave, each take is an exact window, begun as early as the pre-roll
\* and the take before it allow, and written block by block in order, silence
\* for what was lost, to its end unless the disk failed it.
THEOREM RingIsTimeline == Spec => TimelineSpec
<1>1. Init => Timeline!Init
  <2> SUFFICES ASSUME Init PROVE Timeline!Init
    OBVIOUS
  <2>1. /\ written = 0 /\ lost = {} /\ read = Parked /\ ~open /\ done = <<>>
    BY DEF Init
  <2>2. ~UnderWay /\ ~Opened
    BY <2>1 DEF UnderWay, Opened
  <2>3. DOMAIN done = {}
    <3>1. DOMAIN <<>> = {}
      OBVIOUS
    <3> QED BY <2>1, <3>1
  <2>4. Past = <<>>
    BY <2>1, <2>3 DEF Past
  <2>5. Gone = {}
    BY <2>1 DEF Gone
  <2> QED
    BY <2>1, <2>2, <2>4, <2>5 DEF Timeline!Init, TheTake, TheFile, GivenUp,
       Timeline!NoFile, NoFile, Timeline!Silence, Silence
<1>2. All /\ [Next]_vars => [Timeline!Next]_Timeline!vars
  <2> SUFFICES ASSUME All, [Next]_vars
               PROVE  [Timeline!Next]_Timeline!vars
    OBVIOUS
  <2>1. CASE UNCHANGED vars
    <3>1. UNCHANGED <<written, lost, done, takeStart, keepUntil, file,
                      skipping, open, read, wr>>
      BY <2>1 DEF vars, ringVars, takeVars, endVars, fileVars
    <3>2. UnderWay' = UnderWay
      BY <3>1 DEF UnderWay, Parked
    <3> QED BY <3>1, <3>2, Unseen
  <2> QED BY <2>1, CallbackRefines, PersonRefines, WriterRefines DEF Next, Off
<1> QED BY <1>1, <1>2, AllInvariant, PTL DEF Spec, TimelineSpec, Timeline!Spec

-----------------------------------------------------------------------------
(* What a snapshot tells of the take.                                        *)

\* A take that runs was pressed where it starts or within the pre-roll of it.
PressedInv ==
    recording => takeStart <= pressedAt /\ pressedAt <= takeStart + Preroll

\* A snapshot that found a take running, with none begun since, has loaded what
\* is still that take's, whether the take still runs or has ended meanwhile.
SnapshotInv ==
    sRecording /\ sn \in {"start", "pressed", "held", "told"} /\ ~began =>
        /\ cb # "starting"
        /\ takeStart <= pressedAt /\ pressedAt <= takeStart + Preroll
        /\ sn # "start" => sStart = takeStart
        /\ sn \in {"held", "told"} => sPressed = pressedAt
        /\ sn = "told" => sHeld = pressedAt - takeStart

\* The subtraction does not wrap when the press is no earlier than the start.
LEMMA LessWithoutWrap ==
    ASSUME NEW a \in Positions, NEW b \in Positions, b <= a
    PROVE  (Wrap + a - b) % Wrap = a - b
<1> DEFINE d == a - b
           W == Wrap
           q == (W + d) \div W
           r == (W + d) % W
<1>1. W \in Nat /\ W > 0 /\ d \in Nat /\ d < W
  BY DEF Wrap, Torn, Positions
<1>2. Wrap + a - b = W + d
  BY DEF Wrap, Torn, Positions
<1> HIDE DEF d, W
<1>3. q \in Nat /\ r \in 0 .. W - 1 /\ W + d = (W * q) + r
  BY <1>1, SMT
<1> HIDE DEF q, r
<1>4. q = 1
  <2>1. CASE q = 0
    <3>1. W * q = 0
      BY <1>1, <2>1
    <3> QED BY <1>1, <1>3, <3>1
  <2>2. CASE q >= 2
    <3>1. q - 2 \in Nat
      BY <1>3, <2>2
    <3>2. W * q = W + W + (W * (q - 2))
      BY <1>1, <1>3
    <3>3. W * (q - 2) \in Nat
      BY <1>1, <3>1
    <3>4. W * q >= W + W
      BY <1>1, <3>2, <3>3
    <3> QED BY <1>1, <1>3, <3>4
  <2> QED BY <1>3, <2>1, <2>2
<1>5. r = d
  BY <1>1, <1>3, <1>4
<1> QED BY <1>2, <1>5 DEF r, d, W

\* A take is published with its press inside its window, and while it runs
\* nothing of the window changes.
LEMMA PressedStep ==
    ASSUME Core, PressedInv, [Next]_vars
    PROVE  PressedInv'
<1>1. /\ takeStart \in Nat /\ written \in Nat /\ cbPressed \in Nat
      /\ TakeInv
  BY DEF Core, TypeOK, CaptureTypeOK, CallbackTypeOK, Positions, Optional,
     Parked
<1>2. CASE Callback
  <2>1. CASE StartTake
    BY <2>1 DEF StartTake, MayStart, endVars, PressedInv
  <2>2. CASE PublishTake
    <3>1. /\ cb = "starting" /\ takeStart' = takeStart
          /\ pressedAt' = IF cbPressed = Parked THEN written
                          ELSE Lesser(Greater(cbPressed, takeStart), written)
      BY <2>2 DEF PublishTake
    <3>2. takeStart <= written /\ written <= takeStart + Preroll
      BY <1>1, <3>1 DEF TakeInv
    <3> QED BY <1>1, <3>1, <3>2 DEF PressedInv, Lesser, Greater
  <2>3. CASE TakeEnded
    BY <2>3 DEF TakeEnded, PressedInv
  <2>4. CASE UNCHANGED <<takeVars, recording>>
    BY <2>4 DEF takeVars, PressedInv
  <2> QED
    BY <1>2, <2>1, <2>2, <2>3, <2>4 DEF Callback, BlockBegins, LoadTap,
       CountedPending, CountedWants, LoadWant, EndTake, TakeGoesOn, CheckSlot,
       FillSlot, PublishBlock, endVars
<1>3. CASE Writer
  BY <1>3, WriterLeaves DEF takeVars, endVars, PressedInv
<1>4. CASE Person
  <2>1. UNCHANGED takeVars
    BY <1>4, PersonLeaves
  <2>2. recording' => recording
    BY <1>4 DEF Person, Disarming, Record, Stop, Stopped, Disarm,
       DisarmStops, Detach, CloseRing, JoinWriter, endVars
  <2> QED BY <2>1, <2>2 DEF takeVars, PressedInv
<1>5. CASE UNCHANGED vars
  BY <1>5 DEF vars, takeVars, endVars, PressedInv
<1> QED BY <1>2, <1>3, <1>4, <1>5 DEF Next, Off

\* A take's window changes only as it begins, and a step that begins one is
\* seen to.
LEMMA WindowOfTheTake ==
    ASSUME Callback \/ Writer \/ Off
    PROVE  /\ cb # "starting" => UNCHANGED pressedAt
           /\ cb' # "starting" => UNCHANGED takeStart
<1>1. CASE Callback
  BY <1>1 DEF Callback, BlockBegins, LoadTap, CountedPending, CountedWants,
     LoadWant, EndTake, TakeEnded, StartTake, PublishTake, TakeGoesOn,
     CheckSlot, FillSlot, PublishBlock, takeVars
<1>2. CASE Writer
  BY <1>2, WriterLeaves DEF takeVars
<1>3. CASE Off
  BY <1>3 DEF Off, vars, takeVars
<1> QED BY <1>1, <1>2, <1>3

\* A step of the snapshot, of the threads beside it, or of the person when no
\* snapshot is being taken, is a step of the ring or none.
LEMMA RingMoves ==
    ASSUME [StatusNext]_statusVars
    PROVE  [Next]_vars
  BY DEF StatusNext, Snapshot, Look, LoadRecording, LoadStart, LoadPressed,
     TellHeld, Told, statusVars, Next

LEMMA SnapshotStep ==
    ASSUME Core, PressedInv, SnapshotInv, sStart \in Positions,
           sPressed \in Positions, [StatusNext]_statusVars
    PROVE  SnapshotInv'
<1>1. takeStart \in Positions /\ pressedAt \in Positions /\ TakeInv
  BY DEF Core, TypeOK, CaptureTypeOK
<1>2. CASE UNCHANGED vars /\ Snapshot
  <2>1. UNCHANGED <<cb, takeStart, pressedAt, recording>>
    BY <1>2 DEF vars, takeVars, endVars
  <2>2. CASE Look
    BY <2>2 DEF Look, SnapshotInv
  <2>3. CASE LoadRecording
    BY <1>1, <2>1, <2>3 DEF LoadRecording, SnapshotInv, PressedInv, TakeInv
  <2>4. CASE LoadStart
    BY <2>1, <2>4 DEF LoadStart, SnapshotInv
  <2>5. CASE LoadPressed
    BY <2>1, <2>5 DEF LoadPressed, SnapshotInv
  <2>6. CASE TellHeld
    <3>1. /\ sn = "held" /\ sn' = "told" /\ sHeld' = HeldFrames
          /\ UNCHANGED <<sRecording, sStart, sPressed, began>>
      BY <2>6 DEF TellHeld
    <3>2. SUFFICES ASSUME sRecording, ~began
                   PROVE  SnapshotInv'
      BY <3>1 DEF SnapshotInv
    <3>3. /\ cb # "starting" /\ sStart = takeStart /\ sPressed = pressedAt
          /\ takeStart <= pressedAt /\ pressedAt <= takeStart + Preroll
      BY <3>1, <3>2 DEF SnapshotInv
    <3>4. sHeld' = (Wrap + sPressed - sStart) % Wrap
      BY <3>1, <3>2 DEF HeldFrames, PressedLessStart
    <3>5. sHeld' = pressedAt - takeStart
      BY <1>1, <3>3, <3>4, LessWithoutWrap
    <3> QED BY <2>1, <3>1, <3>3, <3>5 DEF SnapshotInv
  <2>7. CASE Told
    BY <2>7 DEF Told, SnapshotInv
  <2> QED BY <1>2, <2>2, <2>3, <2>4, <2>5, <2>6, <2>7 DEF Snapshot
<1>3. CASE /\ Callback \/ Writer \/ Off
           /\ began' = (began \/ cb' = "starting")
           /\ UNCHANGED <<sn, sWritten, sRecording, sStart, sPressed, sHeld>>
  <2>1. SUFFICES ASSUME sRecording, ~began, cb' # "starting",
                        sn \in {"start", "pressed", "held", "told"}
                 PROVE  SnapshotInv'
    BY <1>3 DEF SnapshotInv
  <2>2. UNCHANGED <<takeStart, pressedAt>>
    BY <1>3, <2>1, WindowOfTheTake DEF SnapshotInv
  <2> QED BY <1>3, <2>1, <2>2 DEF SnapshotInv
<1>4. CASE Person /\ sn = "idle" /\ UNCHANGED snVars
  BY <1>4 DEF snVars, SnapshotInv
<1>5. CASE UNCHANGED statusVars
  BY <1>5 DEF statusVars, snVars, vars, takeVars, SnapshotInv
<1> QED
  BY <1>2, <1>3, <1>4, <1>5 DEF StatusNext, Snapshot, Look, LoadRecording,
     LoadStart, LoadPressed, TellHeld, Told

\* What the snapshot loads is a position, as what it is loaded from.
LEMMA LoadedStep ==
    ASSUME Core, sStart \in Positions, sPressed \in Positions,
           [StatusNext]_statusVars
    PROVE  sStart' \in Positions /\ sPressed' \in Positions
<1>1. takeStart \in Positions /\ pressedAt \in Positions
  BY DEF Core, TypeOK, CaptureTypeOK
<1> QED
  BY <1>1 DEF StatusNext, Snapshot, Look, LoadRecording, LoadStart,
     LoadPressed, TellHeld, Told, statusVars, snVars

StatusInv ==
    /\ Core /\ PressedInv /\ SnapshotInv
    /\ sStart \in Positions /\ sPressed \in Positions

\* As long as no take begins while a snapshot is being taken, the page is told
\* what the running take reached back, though the callback may end that take
\* between two loads; and never more than the pre-roll.
THEOREM HeldOfTheTake == StatusSpec => []HeldIsOfTheTake
<1>1. StatusInit => StatusInv
  <2> SUFFICES ASSUME StatusInit PROVE StatusInv
    OBVIOUS
  <2>1. Core
    BY CoreInit DEF StatusInit
  <2>2. ~recording /\ ~sRecording /\ sStart = 0 /\ sPressed = 0
    BY DEF StatusInit, Init
  <2> QED BY <2>1, <2>2 DEF StatusInv, PressedInv, SnapshotInv, Positions
<1>2. StatusInv /\ [StatusNext]_statusVars => StatusInv'
  <2> SUFFICES ASSUME StatusInv, [StatusNext]_statusVars PROVE StatusInv'
    OBVIOUS
  <2>1. [Next]_vars
    BY RingMoves
  <2>2. Core'
    BY <2>1, CoreStep DEF StatusInv
  <2>3. PressedInv'
    BY <2>1, PressedStep DEF StatusInv
  <2>4. SnapshotInv'
    BY SnapshotStep DEF StatusInv
  <2>5. sStart' \in Positions /\ sPressed' \in Positions
    BY LoadedStep DEF StatusInv
  <2> QED BY <2>2, <2>3, <2>4, <2>5 DEF StatusInv
<1>3. StatusInv => HeldIsOfTheTake
  <2> SUFFICES ASSUME StatusInv, sn = "told", sRecording, ~began
               PROVE  sHeld = pressedAt - takeStart /\ sHeld <= Preroll
    BY DEF HeldIsOfTheTake
  <2>1. takeStart \in Nat /\ pressedAt \in Nat
    BY DEF StatusInv, Core, TypeOK, CaptureTypeOK, Positions
  <2>2. /\ pressedAt <= takeStart + Preroll
        /\ sHeld = pressedAt - takeStart
    BY DEF StatusInv, SnapshotInv
  <2> QED BY <2>1, <2>2
<1> QED BY <1>1, <1>2, <1>3, PTL DEF StatusSpec
=============================================================================

------------------------- MODULE CaptureRing_proofs -------------------------
(***************************************************************************)
(* Proofs about the capture ring, for every size of the ring and of the    *)
(* pre-roll, every batch and every bound: its types and where its threads  *)
(* are, how it closes, and that what waits in it is held.                  *)
(***************************************************************************)
EXTENDS CaptureRingInv, Integers, TLAPS

USE SlotsAssumption, PrerollAssumption, BlocksAStepAssumption,
    HorizonAssumption, CommandsAssumption, CountInsAssumption,
    FailuresAssumption

-----------------------------------------------------------------------------
(* Arithmetic of the ring.                                                   *)

\* Division with remainder by the number of slots.
LEMMA DivisionBySlots ==
    ASSUME NEW p \in Nat
    PROVE  /\ p \div Slots \in Nat
           /\ Slot(p) \in 0 .. Slots - 1
           /\ p = (Slots * (p \div Slots)) + Slot(p)
  BY SMT DEF Slot

\* Two positions less than a lap apart are in different slots.
LEMMA SlotsApart ==
    ASSUME NEW p \in Nat, NEW q \in Nat, p < q, q < p + Slots
    PROVE  Slot(p) # Slot(q)
<1> DEFINE a == p \div Slots
           b == q \div Slots
<1>1. a \in Nat /\ b \in Nat /\ Slot(p) \in Nat /\ Slot(q) \in Nat
  <2>1. Slot(p) \in 0 .. Slots - 1 /\ Slot(q) \in 0 .. Slots - 1
    BY DivisionBySlots
  <2> HIDE DEF Slot
  <2> QED BY <2>1, DivisionBySlots
<1>2. p = (Slots * a) + Slot(p) /\ q = (Slots * b) + Slot(q)
  BY DivisionBySlots
<1>3. SUFFICES ASSUME Slot(p) = Slot(q) PROVE FALSE
  OBVIOUS
<1> HIDE DEF a, b
<1>4. q - p = Slots * (b - a)
  <2>1. q - p = (Slots * b) - (Slots * a)
    BY <1>1, <1>2, <1>3
  <2>2. (Slots * b) - (Slots * a) = Slots * (b - a)
    BY <1>1
  <2> QED BY <2>1, <2>2
<1>5. CASE b - a <= 0
  <2>1. Slots * (b - a) <= 0
    BY <1>1, <1>5
  <2> QED BY <2>1, <1>4
<1>6. CASE b - a >= 1
  <2>1. Slots * (b - a) >= Slots
    BY <1>1, <1>6
  <2> QED BY <2>1, <1>4
<1> QED BY <1>1, <1>5, <1>6

-----------------------------------------------------------------------------
(* Type correctness and the places of the threads.                           *)

\* What every step of the callback leaves alone: the writer's state, the files
\* and the person's.
LEMMA CallbackLeaves ==
    ASSUME Callback
    PROVE  UNCHANGED <<stepVars, fileVars, uiVars, wr>>
  BY DEF Callback, BlockBegins, LoadTap, CountedPending, CountedWants,
     LoadWant, EndTake, TakeEnded, StartTake, PublishTake, TakeGoesOn,
     CheckSlot, FillSlot, PublishBlock, CallbackFrame

\* What every step of the writer leaves alone: the ring, the take's window and
\* the callback.
LEMMA WriterLeaves ==
    ASSUME Writer
    PROVE  UNCHANGED <<ringVars, takeVars, endVars, uiVars, written, cb,
                       cbPressed, inTap, counting, overtaken>>
  BY DEF Writer, OpenTake, TakeStillOpen, LoadEnd, LoadLimit, ReadBlock,
     WriteBlock, WriteSilence, Consume, LookAtDisk, GiveUp, FinishTake,
     StepAgain, Park, Leave, WriterFrame

\* What Record, Stop and Disarm leave alone: the ring, the reader and both
\* other threads.
LEMMA PersonLeaves ==
    ASSUME Person
    PROVE  /\ UNCHANGED <<ringVars, takeVars, stepVars, fileVars, written,
                          read, cb, cbPressed, inTap, wr, overtaken>>
           /\ leave => leave'
<1>1. leave => leave'
  BY DEF Person, Record, Stop, Stopped, Disarm, Disarming, DisarmStops,
     Detach, CloseRing, JoinWriter
<1>2. PersonFrame
  BY DEF Person, Record, Stop, Stopped, Disarm, Disarming, DisarmStops,
     Detach, CloseRing, JoinWriter
<1> QED BY <1>1, <1>2 DEF PersonFrame

\* A failure of the disk is counted within its bound.
LEMMA FailTypes ==
    ASSUME failures \in 0 .. Failures, stopped \in BOOLEAN,
           Fail \/ UNCHANGED <<failures, stopped>>
    PROVE  failures' \in 0 .. Failures /\ stopped' \in BOOLEAN
<1>1. CASE Fail
  <2>1. failures' \in 0 .. Failures
    BY <1>1 DEF Fail
  <2>2. stopped' \in BOOLEAN
    BY <1>1 DEF Fail
  <2> QED BY <2>1, <2>2
<1>2. CASE UNCHANGED <<failures, stopped>>
  BY <1>2
<1> QED BY <1>1, <1>2

\* Each action keeps the types of the capture's atomics.
LEMMA CaptureTypeStep ==
    ASSUME CaptureTypeOK, CallbackTypeOK, WriterTypeOK, FileTypeOK,
           PersonTypeOK,
           VisitInv, WriterInv, TakeInv, [Next]_vars
    PROVE  CaptureTypeOK'
<1> USE DEF CaptureTypeOK, ringVars, takeVars, endVars, stepVars, fileVars,
    uiVars
<1>1. CASE Callback
  <2>1. CASE CountedPending
    BY <2>1 DEF CountedPending, CallbackTypeOK, CallbackFrame
  <2>2. CASE CountedWants
    BY <2>2 DEF CountedWants, CallbackFrame
  <2>3. CASE EndTake
    BY <2>3 DEF EndTake, Optional, Positions, Parked, CallbackFrame
  <2>4. CASE TakeEnded
    BY <2>4 DEF TakeEnded, CallbackFrame
  <2>5. CASE StartTake
    BY <2>5 DEF StartTake, MayStart, TakeBegins, Greater, Back, Optional,
       Positions, Parked, CallbackFrame
  <2>6. CASE PublishTake
    BY <2>6 DEF PublishTake, Greater, Lesser, CallbackTypeOK, Optional,
       Positions, Parked, CallbackFrame
  <2>7. CASE CheckSlot
    <3>1. written \in Nat
      BY DEF Positions
    <3>4. Slot(written) \in 0 .. Slots - 1
      BY <3>1, DivisionBySlots
    <3>2. Torn \in Content
      BY DEF Content, Torn
    <3>3. data' \in [0 .. Slots - 1 -> Content] /\ lost' \in SUBSET Positions
      BY <2>7, <3>1, <3>4, <3>2 DEF CheckSlot
    <3> QED
      BY <2>7, <3>3 DEF CheckSlot, CallbackFrame
  <2>8. CASE FillSlot
    <3>1. written \in Nat
      BY DEF Positions
    <3>4. Slot(written) \in 0 .. Slots - 1
      BY <3>1, DivisionBySlots
    <3>2. written \in Optional /\ written \in Content
      BY DEF Positions, Optional, Content, Parked, Torn
    <3>3. /\ data' \in [0 .. Slots - 1 -> Content]
          /\ tags' \in [0 .. Slots - 1 -> Optional]
      BY <2>8, <3>1, <3>4, <3>2 DEF FillSlot
    <3> QED
      BY <2>8, <3>3 DEF FillSlot, CallbackFrame
  <2>9. CASE PublishBlock
    BY <2>9 DEF PublishBlock, VisitInv, Positions, CallbackFrame
  <2>10. CASE BlockBegins \/ LoadTap \/ LoadWant \/ TakeGoesOn
    BY <2>10 DEF BlockBegins, LoadTap, LoadWant, TakeGoesOn, CallbackFrame
  <2> QED
    BY <1>1, <2>1, <2>2, <2>3, <2>4, <2>5, <2>6, <2>7, <2>8, <2>9, <2>10 DEF
       Callback
<1>2. CASE Writer
  <2>1. CASE OpenTake
    BY <2>1 DEF OpenTake, Fail, ClearPending, Optional, Positions, Parked,
       WriterFrame
  <2>2. CASE WriteBlock
    BY <2>2 DEF WriteBlock, Write, Fail, ClearPending, Optional, Positions,
       Parked, WriterFrame
  <2>3. CASE WriteSilence
    BY <2>3 DEF WriteSilence, Write, Fail, ClearPending, Optional, Positions,
       Parked, WriterFrame
  <2>4. CASE Consume
    BY <2>4 DEF Consume, WriterInv, InBlock, WriterTypeOK, Optional,
       Positions, Parked, WriterFrame
  <2>5. CASE LookAtDisk
    BY <2>5 DEF LookAtDisk, Fail, ClearPending, Optional, Positions, Parked,
       WriterFrame
  <2>6. CASE GiveUp
    BY <2>6 DEF GiveUp, WriterFrame
  <2>7. CASE Park
    BY <2>7 DEF Park, Optional, Positions, Parked, WriterFrame
  <2>8. CASE TakeStillOpen \/ LoadEnd \/ LoadLimit \/ ReadBlock \/
             FinishTake \/ StepAgain \/ Leave
    BY <2>8 DEF TakeStillOpen, LoadEnd, LoadLimit, ReadBlock, FinishTake,
       StepAgain, Leave, WriterFrame
  <2> QED
    BY <1>2, <2>1, <2>2, <2>3, <2>4, <2>5, <2>6, <2>7, <2>8 DEF Writer
<1>3. CASE Person
  <2>1. CASE Record
    BY <2>1 DEF Record, Command, PersonFrame
  <2>2. CASE Stop
    BY <2>2 DEF Stop, ClearPending, Optional, Positions, Parked, PersonFrame
  <2>3. CASE Stopped
    BY <2>3 DEF Stopped, PersonFrame
  <2>4. CASE Disarm
    BY <2>4 DEF Disarm, ClearPending, Optional, Positions, Parked,
       PersonFrame
  <2>5. CASE DisarmStops
    BY <2>5 DEF DisarmStops, PersonFrame
  <2>6. CASE CloseRing
    <3>1. CASE TakeToClose
      <4>1. keepUntil' \in Optional /\ floor' \in Positions
        BY <2>6, <3>1 DEF CloseRing, Optional, Positions, Parked
      <4> QED
        BY <2>6, <3>1, <4>1 DEF CloseRing, PersonFrame
    <3>2. CASE ~TakeToClose
      BY <2>6, <3>2 DEF CloseRing, PersonFrame
    <3> QED
      BY <3>1, <3>2
  <2>7. CASE Detach \/ JoinWriter
    BY <2>7 DEF Detach, JoinWriter, PersonFrame
  <2> QED
    BY <1>3, <2>1, <2>2, <2>3, <2>4, <2>5, <2>6, <2>7 DEF Person, Disarming
<1>4. CASE UNCHANGED vars
  BY <1>4 DEF vars
<1> QED
  BY <1>1, <1>2, <1>3, <1>4 DEF Next, Off

\* Each action keeps the types of the callback's places.
LEMMA CallbackTypeStep ==
    ASSUME CaptureTypeOK, CallbackTypeOK, WriterTypeOK, FileTypeOK,
           PersonTypeOK,
           VisitInv, WriterInv, TakeInv, [Next]_vars
    PROVE  CallbackTypeOK'
<1> USE DEF CallbackTypeOK, ringVars, takeVars, endVars, stepVars, fileVars,
    uiVars
<1>1. CASE Callback
  <2>1. CASE BlockBegins
    BY <2>1 DEF BlockBegins, PersonTypeOK, CallbackFrame
  <2>2. CASE LoadTap
    <3>1. cbPressed' \in Optional
      BY <2>2 DEF LoadTap, Optional, Positions, Parked
    <3> QED
      BY <2>2, <3>1 DEF LoadTap, CallbackFrame
  <2>3. CASE CountedPending
    BY <2>3 DEF CountedPending, Optional, Positions, Parked, CallbackFrame
  <2>4. CASE CountedWants
    BY <2>4 DEF CountedWants, CallbackFrame
  <2>5. CASE EndTake
    BY <2>5 DEF EndTake, CallbackFrame
  <2>6. CASE TakeEnded
    BY <2>6 DEF TakeEnded, CallbackFrame
  <2>7. CASE StartTake
    BY <2>7 DEF StartTake, CaptureTypeOK, CallbackFrame
  <2>8. CASE PublishTake
    <3>1. cbPressed' \in Optional
      BY <2>8 DEF PublishTake, Optional, Positions, Parked
    <3> QED
      BY <2>8, <3>1 DEF PublishTake, CallbackFrame
  <2>9. CASE TakeGoesOn
    BY <2>9 DEF TakeGoesOn, CallbackFrame
  <2>10. CASE CheckSlot
    BY <2>10 DEF CheckSlot, CallbackFrame
  <2>11. CASE FillSlot
    BY <2>11 DEF FillSlot, CallbackFrame
  <2>12. CASE PublishBlock
    BY <2>12 DEF PublishBlock, CallbackFrame
  <2>13. CASE LoadWant
    BY <2>13 DEF LoadWant, CallbackFrame
  <2> QED
    BY <1>1, <2>1, <2>2, <2>3, <2>4, <2>5, <2>6, <2>7, <2>8, <2>9, <2>10,
       <2>11, <2>12, <2>13 DEF Callback
<1>2. CASE Writer
  BY <1>2, WriterLeaves
<1>3. CASE Person
  BY <1>3, PersonLeaves
<1>4. CASE UNCHANGED vars
  BY <1>4 DEF vars
<1> QED
  BY <1>1, <1>2, <1>3, <1>4 DEF Next, Off

\* Each action keeps the types of the writer's locals.
LEMMA WriterTypeStep ==
    ASSUME CaptureTypeOK, CallbackTypeOK, WriterTypeOK, FileTypeOK,
           PersonTypeOK,
           VisitInv, WriterInv, TakeInv, [Next]_vars
    PROVE  WriterTypeOK'
<1> USE DEF WriterTypeOK, ringVars, takeVars, endVars, stepVars, fileVars,
    uiVars
<1>1. CASE Callback
  BY <1>1, CallbackLeaves
<1>2. CASE Writer
  <2>1. CASE OpenTake
    <3>1. CASE Fail
      <4>1. failures' \in 0 .. Failures /\ stopped' \in BOOLEAN
        BY <3>1, FailTypes
      <4>2. wStart' \in Positions
        BY <2>1 DEF OpenTake, CaptureTypeOK
      <4> QED
        BY <2>1, <3>1, <4>1, <4>2 DEF OpenTake, WriterFrame
    <3>2. CASE ~Fail
      BY <2>1, <3>2 DEF OpenTake, CaptureTypeOK, WriterFrame
    <3> QED
      BY <3>1, <3>2
  <2>2. CASE TakeStillOpen
    BY <2>2 DEF TakeStillOpen, WriterFrame
  <2>3. CASE LoadEnd
    BY <2>3 DEF LoadEnd, CaptureTypeOK, WriterFrame
  <2>4. CASE LoadLimit
    BY <2>4 DEF LoadLimit, CaptureTypeOK, WriterInv, InStep, Lesser,
       Optional, Positions, Parked, WriterFrame
  <2>5. CASE ReadBlock
    BY <2>5 DEF ReadBlock, WriterFrame
  <2>6. CASE WriteBlock
    <3>2. Fail \/ UNCHANGED <<failures, stopped>>
      BY <2>6 DEF WriteBlock, Write
    <3>1. failures' \in 0 .. Failures /\ stopped' \in BOOLEAN
      BY <3>2, FailTypes
    <3> QED
      BY <2>6, <3>1 DEF WriteBlock, Write, Fail, WriterFrame
  <2>7. CASE WriteSilence
    <3>2. Fail \/ UNCHANGED <<failures, stopped>>
      BY <2>7 DEF WriteSilence, Write
    <3>1. failures' \in 0 .. Failures /\ stopped' \in BOOLEAN
      BY <3>2, FailTypes
    <3> QED
      BY <2>7, <3>1 DEF WriteSilence, Write, Fail, WriterFrame
  <2>8. CASE Consume
    BY <2>8 DEF Consume, WriterInv, InBlock, Optional, Positions, Parked,
       WriterFrame
  <2>9. CASE LookAtDisk
    <3>2. Fail \/ UNCHANGED <<failures, stopped>>
      BY <2>9 DEF LookAtDisk, Write
    <3>1. failures' \in 0 .. Failures /\ stopped' \in BOOLEAN
      BY <3>2, FailTypes
    <3> QED
      BY <2>9, <3>1 DEF LookAtDisk, Write, Fail, WriterFrame
  <2>10. CASE GiveUp
    BY <2>10 DEF GiveUp, WriterFrame
  <2>11. CASE FinishTake
    BY <2>11 DEF FinishTake, WriterFrame
  <2>12. CASE StepAgain
    BY <2>12 DEF StepAgain, WriterFrame
  <2>13. CASE Park
    BY <2>13 DEF Park, WriterFrame
  <2>14. CASE Leave
    BY <2>14 DEF Leave, WriterFrame
  <2> QED
    BY <1>2, <2>1, <2>2, <2>3, <2>4, <2>5, <2>6, <2>7, <2>8, <2>9, <2>10,
       <2>11, <2>12, <2>13, <2>14 DEF Writer
<1>3. CASE Person
  BY <1>3, PersonLeaves
<1>4. CASE UNCHANGED vars
  BY <1>4 DEF vars
<1> QED
  BY <1>1, <1>2, <1>3, <1>4 DEF Next, Off

\* Each action keeps the file a function from positions to contents.
LEMMA FileTypeStep ==
    ASSUME CaptureTypeOK, CallbackTypeOK, WriterTypeOK, FileTypeOK,
           PersonTypeOK,
           VisitInv, WriterInv, TakeInv, [Next]_vars
    PROVE  FileTypeOK'
<1> USE DEF FileTypeOK, ringVars, takeVars, endVars, stepVars, fileVars, uiVars
<1>1. CASE Callback
  BY <1>1, CallbackLeaves
<1>2. CASE Writer
  <2>1. CASE OpenTake
    BY <2>1 DEF OpenTake, NoFile, WriterFrame
  <2>2. CASE WriteBlock
    <3>1. data[Slot(wAt)] \in Content
      <4>1. wAt \in Nat /\ Slot(wAt) \in 0 .. Slots - 1
        BY DivisionBySlots DEF WriterTypeOK, Positions
      <4> HIDE DEF Slot
      <4> QED BY <4>1 DEF CaptureTypeOK
    <3>2. file' = file \/ file' = Extended(data[Slot(wAt)])
      BY <2>2 DEF WriteBlock, Write
    <3> QED
      BY <3>1, <3>2 DEF Extended, WriterTypeOK
  <2>3. CASE WriteSilence
    <3>1. Silence \in Content
      BY DEF Content, Silence, Torn
    <3>2. file' = file \/ file' = Extended(Silence)
      BY <2>3 DEF WriteSilence, Write
    <3> QED
      BY <3>1, <3>2 DEF Extended, WriterTypeOK
  <2>4. CASE TakeStillOpen \/ LoadEnd \/ LoadLimit \/ ReadBlock \/
             Consume \/ LookAtDisk \/ GiveUp \/ FinishTake
             \/ StepAgain \/ Park \/ Leave
    BY <2>4 DEF TakeStillOpen, LoadEnd, LoadLimit, ReadBlock, Consume,
       LookAtDisk, GiveUp, FinishTake, StepAgain, Park, Leave, WriterFrame
  <2> QED
    BY <1>2, <2>1, <2>2, <2>3, <2>4 DEF Writer
<1>3. CASE Person
  BY <1>3, PersonLeaves
<1>4. CASE UNCHANGED vars
  BY <1>4 DEF vars
<1> QED
  BY <1>1, <1>2, <1>3, <1>4 DEF Next, Off

\* Each action keeps the types of the person's state.
LEMMA PersonTypeStep ==
    ASSUME CaptureTypeOK, CallbackTypeOK, WriterTypeOK, FileTypeOK,
           PersonTypeOK,
           VisitInv, WriterInv, TakeInv, [Next]_vars
    PROVE  PersonTypeOK'
<1> USE DEF PersonTypeOK, ringVars, takeVars, endVars, stepVars, fileVars,
    uiVars
<1>1. CASE Callback
  <2>1. CASE BlockBegins
    BY <2>1 DEF BlockBegins, Optional, Positions, Parked, CallbackFrame
  <2>2. CASE LoadTap \/ CountedPending \/ CountedWants \/ LoadWant \/
             EndTake \/ TakeEnded \/ StartTake \/ PublishTake \/
             TakeGoesOn \/ CheckSlot \/ FillSlot \/
             PublishBlock
    BY <2>2 DEF LoadTap, CountedPending, CountedWants, LoadWant, EndTake,
       TakeEnded, StartTake, PublishTake, TakeGoesOn, CheckSlot, FillSlot,
       PublishBlock, CallbackFrame
  <2> QED
    BY <1>1, <2>1, <2>2 DEF Callback
<1>2. CASE Writer
  BY <1>2, WriterLeaves
<1>3. Command => commands' \in 0 .. Commands
  <2>1. failures \in Nat
    BY FailuresAssumption DEF WriterTypeOK
  <2> QED BY <2>1, CommandsAssumption DEF Command
<1>4. CASE Person
  <2>1. CASE Record
    <3>1. commands' \in 0 .. Commands
      BY <1>3, <2>1 DEF Record
    <3>2. counting' \in Optional
      <4>1. counting' = written \/ counting' = counting
        BY <2>1 DEF Record
      <4> QED BY <4>1 DEF CaptureTypeOK, Optional, Positions, Parked
    <3>3. asked' \in Optional
      BY <2>1 DEF Record, Lesser, CaptureTypeOK, Optional, Positions, Parked
    <3> QED
      BY <2>1, <3>1, <3>2, <3>3 DEF Record, Command, PersonFrame
  <2>2. CASE Stop
    BY <1>3, <2>2 DEF Stop, Optional, Positions, Parked, PersonFrame
  <2>3. CASE Stopped
    BY <2>3 DEF Stopped, Optional, Positions, Parked, PersonFrame
  <2>4. CASE Disarm
    BY <2>4 DEF Disarm, Optional, Positions, Parked, PersonFrame
  <2>5. CASE DisarmStops
    BY <2>5 DEF DisarmStops, PersonFrame
  <2>6. CASE Detach
    BY <2>6 DEF Detach, PersonFrame
  <2>7. CASE CloseRing
    BY <2>7 DEF CloseRing, PersonFrame
  <2>8. CASE JoinWriter
    BY <2>8 DEF JoinWriter, PersonFrame
  <2> QED
    BY <1>4, <2>1, <2>2, <2>3, <2>4, <2>5, <2>6, <2>7, <2>8 DEF Person,
       Disarming
<1>5. CASE UNCHANGED vars
  BY <1>5 DEF vars
<1> QED
  BY <1>1, <1>2, <1>4, <1>5 DEF Next, Off

\* Each action keeps the callback's visits and detach in step.
LEMMA VisitStep ==
    ASSUME TypeOK, VisitInv, [Next]_vars
    PROVE  VisitInv'
<1> USE DEF VisitInv, ringVars, takeVars, endVars, stepVars, fileVars, uiVars
<1>1. CASE Callback
  <2>1. CASE BlockBegins
    BY <2>1 DEF BlockBegins, TypeOK, CaptureTypeOK, Positions, CallbackFrame
  <2>2. CASE LoadTap
    BY <2>2 DEF LoadTap, CallbackFrame
  <2>3. CASE CountedPending
    BY <2>3 DEF CountedPending, CallbackFrame
  <2>4. CASE CountedWants
    BY <2>4 DEF CountedWants, CallbackFrame
  <2>5. CASE EndTake
    BY <2>5 DEF EndTake, CallbackFrame
  <2>6. CASE TakeEnded
    BY <2>6 DEF TakeEnded, CallbackFrame
  <2>7. CASE StartTake
    BY <2>7 DEF StartTake, MayStart, CallbackFrame
  <2>8. CASE PublishTake
    BY <2>8 DEF PublishTake, CallbackFrame
  <2>9. CASE TakeGoesOn
    BY <2>9 DEF TakeGoesOn, CallbackFrame
  <2>10. CASE CheckSlot
    BY <2>10 DEF CheckSlot, CallbackFrame
  <2>11. CASE FillSlot
    BY <2>11 DEF FillSlot, CallbackFrame
  <2>12. CASE PublishBlock
    BY <2>12 DEF PublishBlock, TypeOK, CaptureTypeOK, Positions,
       CallbackFrame
  <2>13. CASE LoadWant
    BY <2>13 DEF LoadWant, CallbackFrame
  <2> QED
    BY <1>1, <2>1, <2>2, <2>3, <2>4, <2>5, <2>6, <2>7, <2>8, <2>9, <2>10,
       <2>11, <2>12, <2>13 DEF Callback
<1>2. CASE Writer
  BY <1>2, WriterLeaves
<1>3. CASE Person
  <2>1. CASE Record
    BY <2>1 DEF Record, Command, PersonFrame
  <2>2. CASE Stop
    BY <2>2 DEF Stop, Command, PersonFrame
  <2>3. CASE Stopped
    BY <2>3 DEF Stopped, PersonFrame
  <2>4. CASE Disarm
    BY <2>4 DEF Disarm, PersonFrame
  <2>5. CASE DisarmStops
    BY <2>5 DEF DisarmStops, PersonFrame
  <2>6. CASE Detach
    BY <2>6 DEF Detach, PersonFrame
  <2>7. CASE CloseRing
    BY <2>7 DEF CloseRing, NoCallbackInside, PersonFrame
  <2>8. CASE JoinWriter
    BY <2>8 DEF JoinWriter, PersonFrame
  <2> QED
    BY <1>3, <2>1, <2>2, <2>3, <2>4, <2>5, <2>6, <2>7, <2>8 DEF Person,
       Disarming
<1>4. CASE UNCHANGED vars
  BY <1>4 DEF vars
<1> QED
  BY <1>1, <1>2, <1>3, <1>4 DEF Next, Off

\* Each action keeps the writer at its place.
LEMMA WriterStep ==
    ASSUME TypeOK, VisitInv, WriterInv, TakeInv, [Next]_vars
    PROVE  WriterInv'
<1> USE DEF WriterInv, InStep, InLoop, InBlock, Settled, ringVars, takeVars,
    endVars, stepVars, fileVars, uiVars
<1>1. CASE Callback
  <2>1. CASE PublishTake
    <3>1. ~open /\ wr # "park" /\ wr \notin InStep /\ read = Parked
      BY <2>1 DEF PublishTake, TakeInv
    <3>2. UNCHANGED <<wr, open, wAt, wLimit, wWrote, written>>
      BY <2>1 DEF PublishTake, CallbackFrame
    <3>3. wr # "gone"
      BY <2>1, <3>1 DEF PublishTake, TakeInv, VisitInv
    <3> QED
      BY <3>1, <3>2, <3>3
  <2>2. CASE PublishBlock
    BY <2>2 DEF PublishBlock, TypeOK, CaptureTypeOK, WriterTypeOK, Optional,
       Positions, Parked, CallbackFrame
  <2>3. CASE BlockBegins \/ LoadTap \/ CountedPending \/ CountedWants \/
             LoadWant \/ EndTake \/ TakeEnded \/ StartTake \/
             TakeGoesOn \/ CheckSlot \/ FillSlot
    BY <2>3 DEF BlockBegins, LoadTap, CountedPending, CountedWants, LoadWant,
       EndTake, TakeEnded, StartTake, TakeGoesOn, CheckSlot, FillSlot,
       CallbackFrame
  <2> QED
    BY <1>1, <2>1, <2>2, <2>3 DEF Callback
<1>2. CASE Writer
  <2>1. CASE OpenTake
    BY <2>1 DEF OpenTake, WriterFrame
  <2>2. CASE TakeStillOpen
    BY <2>2 DEF TakeStillOpen, WriterFrame
  <2>3. CASE LoadEnd
    BY <2>3 DEF LoadEnd, WriterFrame
  <2>4. CASE LoadLimit
    BY <2>4 DEF LoadLimit, Lesser, TakeInv, TypeOK, CaptureTypeOK,
       WriterTypeOK, Optional, Positions, Parked, WriterFrame
  <2>5. CASE ReadBlock
    BY <2>5 DEF ReadBlock, MoreToDrain, TypeOK, CaptureTypeOK, WriterTypeOK,
       Optional, Positions, Parked, WriterFrame
  <2>6. CASE WriteBlock
    BY <2>6 DEF WriteBlock, Write, WriterFrame
  <2>7. CASE WriteSilence
    BY <2>7 DEF WriteSilence, Write, MoreToDrain, WriterFrame
  <2>8. CASE Consume
    BY <2>8 DEF Consume, TypeOK, CaptureTypeOK, WriterTypeOK, Optional,
       Positions, Parked, WriterFrame
  <2>9. CASE LookAtDisk
    BY <2>9 DEF LookAtDisk, MoreToDrain, TypeOK, CaptureTypeOK, WriterTypeOK,
       Optional, Positions, Parked, WriterFrame
  <2>10. CASE GiveUp
    BY <2>10 DEF GiveUp, WriterFrame
  <2>11. CASE FinishTake
    BY <2>11 DEF FinishTake, Drained, TypeOK, CaptureTypeOK, WriterTypeOK,
       Optional, Positions, Parked, WriterFrame
  <2>12. CASE StepAgain
    BY <2>12 DEF StepAgain, WriterFrame
  <2>13. CASE Park
    BY <2>13 DEF Park, WriterFrame
  <2>14. CASE Leave
    BY <2>14 DEF Leave, MayLeave, WriterFrame
  <2> QED
    BY <1>2, <2>1, <2>2, <2>3, <2>4, <2>5, <2>6, <2>7, <2>8, <2>9, <2>10,
       <2>11, <2>12, <2>13, <2>14 DEF Writer
<1>3. CASE Person
  BY <1>3, PersonLeaves
<1>4. CASE UNCHANGED vars
  BY <1>4 DEF vars
<1> QED
  BY <1>1, <1>2, <1>3, <1>4 DEF Next, Off

\* Each action keeps the take, and what `read` says of it, in step.
LEMMA TakeStep ==
    ASSUME TypeOK, VisitInv, WriterInv, TakeInv, [Next]_vars
    PROVE  TakeInv'
<1> USE DEF TakeInv, AfterLoad, InLoop, ringVars, takeVars, endVars,
    stepVars, fileVars, uiVars
<1>1. CASE Callback
  <2>1. CASE BlockBegins
    BY <2>1 DEF BlockBegins, CallbackFrame
  <2>2. CASE LoadTap
    BY <2>2 DEF LoadTap, CallbackFrame
  <2>3. CASE CountedPending
    BY <2>3 DEF CountedPending, CallbackFrame
  <2>4. CASE CountedWants
    BY <2>4 DEF CountedWants, CallbackFrame
  <2>5. CASE EndTake
    BY <2>5 DEF EndTake, TypeOK, CaptureTypeOK, WriterTypeOK, Optional,
       Positions, Parked, CallbackFrame
  <2>6. CASE TakeEnded
    BY <2>6 DEF TakeEnded, TypeOK, CaptureTypeOK, WriterTypeOK, Optional,
       Positions, Parked, CallbackFrame
  <2>7. CASE StartTake
    BY <2>7 DEF StartTake, MayStart, TakeBegins, Greater, Back, TypeOK,
       CaptureTypeOK, WriterTypeOK, Optional, Positions, Parked,
       CallbackFrame
  <2>8. CASE PublishTake
    BY <2>8 DEF PublishTake, WriterInv, InStep, TypeOK, CaptureTypeOK,
       WriterTypeOK, Optional, Positions, Parked, CallbackFrame
  <2>9. CASE TakeGoesOn
    BY <2>9 DEF TakeGoesOn, CallbackFrame
  <2>10. CASE CheckSlot
    BY <2>10 DEF CheckSlot, CallbackFrame
  <2>11. CASE FillSlot
    BY <2>11 DEF FillSlot, CallbackFrame
  <2>12. CASE PublishBlock
    BY <2>12 DEF PublishBlock, TypeOK, CaptureTypeOK, WriterTypeOK, Optional,
       Positions, Parked, CallbackFrame
  <2>13. CASE LoadWant
    BY <2>13 DEF LoadWant, CallbackFrame
  <2> QED
    BY <1>1, <2>1, <2>2, <2>3, <2>4, <2>5, <2>6, <2>7, <2>8, <2>9, <2>10,
       <2>11, <2>12, <2>13 DEF Callback
<1>2. CASE Writer
  <2>1. CASE OpenTake
    BY <2>1 DEF OpenTake, WriterFrame
  <2>2. CASE TakeStillOpen
    BY <2>2 DEF TakeStillOpen, WriterFrame
  <2>3. CASE LoadEnd
    BY <2>3 DEF LoadEnd, WriterFrame
  <2>4. CASE LoadLimit
    BY <2>4 DEF LoadLimit, WriterFrame
  <2>5. CASE ReadBlock
    BY <2>5 DEF ReadBlock, WriterFrame
  <2>6. CASE WriteBlock
    BY <2>6 DEF WriteBlock, Write, WriterFrame
  <2>7. CASE WriteSilence
    BY <2>7 DEF WriteSilence, Write, WriterFrame
  <2>8. CASE Consume
    BY <2>8 DEF Consume, WriterInv, InBlock, InLoop, Settled, TypeOK,
       CaptureTypeOK, WriterTypeOK, Optional, Positions, Parked, WriterFrame
  <2>9. CASE LookAtDisk
    BY <2>9 DEF LookAtDisk, WriterFrame
  <2>10. CASE GiveUp
    BY <2>10 DEF GiveUp, WriterFrame
  <2>11. CASE FinishTake
    BY <2>11 DEF FinishTake, Drained, TypeOK, CaptureTypeOK, WriterTypeOK,
       Optional, Positions, Parked, WriterFrame
  <2>12. CASE StepAgain
    BY <2>12 DEF StepAgain, WriterFrame
  <2>13. CASE Park
    BY <2>13 DEF Park, TypeOK, CaptureTypeOK, WriterTypeOK, Optional,
       Positions, Parked, WriterFrame
  <2>14. CASE Leave
    BY <2>14 DEF Leave, WriterFrame
  <2> QED
    BY <1>2, <2>1, <2>2, <2>3, <2>4, <2>5, <2>6, <2>7, <2>8, <2>9, <2>10,
       <2>11, <2>12, <2>13, <2>14 DEF Writer
<1>3. CASE Person
  <2>1. CASE Record
    BY <2>1 DEF Record, PersonFrame
  <2>2. CASE Stop
    BY <2>2 DEF Stop, PersonFrame
  <2>3. CASE Stopped
    BY <2>3 DEF Stopped, PersonFrame
  <2>4. CASE Disarm
    BY <2>4 DEF Disarm, PersonFrame
  <2>5. CASE DisarmStops
    BY <2>5 DEF DisarmStops, PersonFrame
  <2>6. CASE Detach
    BY <2>6 DEF Detach, PersonFrame
  <2>7. CASE CloseRing
    BY <2>7 DEF CloseRing, TakeToClose, NoCallbackInside, VisitInv, TypeOK,
       CaptureTypeOK, WriterTypeOK, Optional, Positions, Parked, PersonFrame
  <2>8. CASE JoinWriter
    BY <2>8 DEF JoinWriter, PersonFrame
  <2> QED
    BY <1>3, <2>1, <2>2, <2>3, <2>4, <2>5, <2>6, <2>7, <2>8 DEF Person,
       Disarming
<1>4. CASE UNCHANGED vars
  BY <1>4 DEF vars
<1> QED
  BY <1>1, <1>2, <1>3, <1>4 DEF Next, Off

-----------------------------------------------------------------------------
(* The theorems.                                                             *)

Core == TypeOK /\ VisitInv /\ WriterInv /\ TakeInv

\* The initial state is well typed, with everyone at rest.
LEMMA CoreInit == Init => Core
<1> SUFFICES ASSUME Init PROVE Core
  OBVIOUS
<1> USE DEF Init
<1>1. CaptureTypeOK
  <2>1. 0 \in Positions /\ Parked \in Optional /\ Silence \in Content
    BY DEF Positions, Optional, Content, Parked, Silence, Torn
  <2>2. 0 \in Optional
    BY DEF Optional, Parked
  <2> QED BY <2>1, <2>2 DEF CaptureTypeOK
<1>2. CallbackTypeOK /\ PersonTypeOK
  BY DEF CallbackTypeOK, PersonTypeOK, Optional, Positions, Parked
<1>3. WriterTypeOK
  BY DEF WriterTypeOK, Optional, Positions, Parked
<1>4. FileTypeOK
  BY DEF FileTypeOK, NoFile
<1>5. VisitInv /\ WriterInv
  BY DEF VisitInv, WriterInv, InStep, InLoop, InBlock, Settled
<1>6. TakeInv
  BY DEF TakeInv, AfterLoad, InLoop, Parked
<1> QED BY <1>1, <1>2, <1>3, <1>4, <1>5, <1>6 DEF Core, TypeOK

\* Every step keeps the types, and each thread at its place.
LEMMA CoreStep == Core /\ [Next]_vars => Core'
<1> SUFFICES ASSUME Core, [Next]_vars PROVE Core'
  OBVIOUS
<1>1. /\ CaptureTypeOK /\ CallbackTypeOK /\ WriterTypeOK /\ FileTypeOK
      /\ PersonTypeOK /\ TypeOK /\ VisitInv /\ WriterInv /\ TakeInv
  BY DEF Core, TypeOK
<1>2. CaptureTypeOK' /\ CallbackTypeOK' /\ WriterTypeOK'
  BY <1>1, CaptureTypeStep, CallbackTypeStep, WriterTypeStep
<1>3. FileTypeOK' /\ PersonTypeOK'
  BY <1>1, FileTypeStep, PersonTypeStep
<1>4. VisitInv' /\ WriterInv' /\ TakeInv'
  BY <1>1, VisitStep, WriterStep, TakeStep
<1> QED BY <1>2, <1>3, <1>4 DEF Core, TypeOK

\* The invariant every other theorem about the ring rests on.
THEOREM CoreInvariant == Spec => []Core
  BY CoreInit, CoreStep, PTL DEF Spec

\* Every atomic, every local and every file stays in its range: positions never
\* pass the stream's end, and a batch never its limit.
THEOREM TypeCorrect == Spec => []TypeOK
<1>1. Core => TypeOK
  BY DEF Core
<1> QED BY <1>1, CoreInvariant, PTL

\* No callback is inside the ring once detach has answered, however the
\* callback, the writer and the person interleave.
THEOREM ClosedAlone == Spec => []RingIsClosedAlone
<1>1. Core => RingIsClosedAlone
  BY DEF Core, VisitInv, RingIsClosedAlone
<1> QED BY <1>1, CoreInvariant, PTL

\* What close_after_stream_stopped settled stays settled: nobody asks for a
\* take any more, and the writer that was joined is gone.
Answered ==
    /\ ui \in {"joining", "off"} => ~want
    /\ ui = "off" => wr = "gone"

\* Of the steps that ask for a take, none is left to the callback or the person
\* once detach has answered.
LEMMA AnsweredStep == Core /\ Answered /\ [Next]_vars => Answered'
<1> SUFFICES ASSUME Core, Answered, [Next]_vars, ui' \in {"joining", "off"}
             PROVE  ~want' /\ (ui' = "off" => wr' = "gone")
  BY DEF Answered
<1>1. CASE Callback
  <2>1. UNCHANGED <<ui, wr>> /\ cb \in {"idle", "tap"}
    BY <1>1, CallbackLeaves DEF uiVars, Core, VisitInv
  <2>2. UNCHANGED want
    BY <1>1, <2>1 DEF Callback, BlockBegins, LoadTap, CountedPending,
       CountedWants, LoadWant, EndTake, TakeEnded, StartTake, PublishTake,
       TakeGoesOn, CheckSlot, FillSlot, PublishBlock
  <2> QED BY <2>1, <2>2 DEF Answered
<1>2. CASE Writer
  <2>1. UNCHANGED ui /\ wr # "gone"
    BY <1>2, WriterLeaves DEF uiVars, Writer, OpenTake, TakeStillOpen,
       LoadEnd, LoadLimit, ReadBlock, WriteBlock, WriteSilence, Consume,
       LookAtDisk, GiveUp, FinishTake, StepAgain, Park, Leave
  <2>2. UNCHANGED want \/ want' = FALSE
    BY <1>2 DEF Writer, OpenTake, TakeStillOpen, LoadEnd, LoadLimit,
       ReadBlock, WriteBlock, WriteSilence, Consume, LookAtDisk, GiveUp,
       FinishTake, StepAgain, Park, Leave
  <2> QED BY <2>1, <2>2 DEF Answered
<1>3. CASE Person
  <2>1. CASE Record
    BY <2>1 DEF Record, Command
  <2>2. CASE Stop \/ Stopped \/ Disarm \/ DisarmStops \/ Detach
    BY <2>2 DEF Stop, Stopped, Disarm, DisarmStops, Detach
  <2>3. CASE CloseRing
    BY <2>3 DEF CloseRing
  <2>4. CASE JoinWriter
    BY <2>4 DEF JoinWriter, Answered, PersonFrame
  <2> QED BY <1>3, <2>1, <2>2, <2>3, <2>4 DEF Person, Disarming
<1>4. CASE UNCHANGED vars
  BY <1>4 DEF vars, uiVars, Answered
<1> QED BY <1>1, <1>2, <1>3, <1>4 DEF Next, Off

\* Once Disarm has answered the last take is finished and parked, no take runs
\* and none is asked for, whatever Disarm interrupted.
THEOREM NothingLeft == Spec => []NothingLeftWhenOff
<1>1. Init => Answered
  BY DEF Init, Answered
<1>2. Spec => []Answered
  BY <1>1, CoreInvariant, AnsweredStep, PTL DEF Spec
<1>3. Core /\ Answered => NothingLeftWhenOff
  <2> SUFFICES ASSUME Core, Answered, ui = "off"
               PROVE  read = Parked /\ ~open /\ ~recording /\ ~want
    BY DEF NothingLeftWhenOff
  <2>1. VisitInv /\ WriterInv /\ TakeInv
    BY DEF Core
  <2>2. ~want /\ wr = "gone"
    BY DEF Answered
  <2> QED
    BY <2>1, <2>2 DEF WriterInv, TakeInv, VisitInv
<1> QED BY <1>2, <1>3, CoreInvariant, PTL

-----------------------------------------------------------------------------
(* What waits in the ring is held there: the argument is about the last lap. *)
(* A block less than a lap old is in another slot than the one being filled; *)
(* an older one that waits is what push_with's test refuses to overwrite, as *)
(* long as the take that is draining ended less than a lap ago.              *)

\* The positions the proofs compare are numbers, and the stream's bound.
Numbers ==
    /\ written \in Nat /\ read \in Nat /\ keepUntil \in Nat
    /\ wAt \in Nat /\ takeStart \in Nat
    /\ written <= Horizon /\ Horizon < Parked /\ Parked \in Nat

\* The core invariant, taken apart.
LEMMA CoreFacts ==
    ASSUME Core
    PROVE  /\ Numbers
           /\ TypeOK /\ VisitInv /\ WriterInv /\ TakeInv
           /\ tags \in [0 .. Slots - 1 -> Optional]
           /\ data \in [0 .. Slots - 1 -> Content]
<1>1. TypeOK /\ VisitInv /\ WriterInv /\ TakeInv
  BY DEF Core
<1>2. CaptureTypeOK /\ WriterTypeOK
  BY <1>1 DEF TypeOK
<1>3. Horizon < Parked /\ Parked \in Nat
  BY DEF Parked
<1>4. written \in Positions /\ wAt \in Positions /\ takeStart \in Positions
  BY <1>2 DEF CaptureTypeOK, WriterTypeOK
<1>5. read \in Optional /\ keepUntil \in Optional
  BY <1>2 DEF CaptureTypeOK
<1>6. Numbers
  BY <1>3, <1>4, <1>5 DEF Positions, Optional, Numbers
<1> QED BY <1>1, <1>2, <1>6 DEF CaptureTypeOK

\* A slot that is not the one written to holds what it held.
LEMMA HeldElsewhere ==
    ASSUME NEW p \in Nat, Held(p), Slot(p) # Slot(written),
           tags' = tags \/ tags' = [tags EXCEPT ![Slot(written)] = written],
           \E x : data' = [data EXCEPT ![Slot(written)] = x],
           tags \in [0 .. Slots - 1 -> Optional],
           data \in [0 .. Slots - 1 -> Content]
    PROVE  Held(p)'
<1>1. Slot(p) \in 0 .. Slots - 1
  BY DivisionBySlots
<1>2. Held(p)' <=> tags'[Slot(p)] = p /\ data'[Slot(p)] = p
  BY DEF Held, Slot
<1>3. tags[Slot(p)] = p /\ data[Slot(p)] = p
  BY DEF Held
<1>4. tags'[Slot(p)] = tags[Slot(p)] /\ data'[Slot(p)] = data[Slot(p)]
  BY <1>1
<1> QED BY <1>2, <1>3, <1>4

\* With the slots and the losses unchanged, so is what is held.
LEMMA HeldStays ==
    ASSUME NEW p, UNCHANGED <<tags, data>>
    PROVE  Held(p)' <=> Held(p)
  BY DEF Held, Slot

-----------------------------------------------------------------------------
(* The last lap.                                                             *)

\* A block the callback leaves out of the ring, or puts in its slot, disturbs
\* no block less than a lap old.
LEMMA WindowStep ==
    ASSUME Core, WindowInv, [Next]_vars
    PROVE  WindowInv'
<1>c. /\ Numbers /\ VisitInv /\ WriterInv /\ TakeInv
      /\ tags \in [0 .. Slots - 1 -> Optional]
      /\ data \in [0 .. Slots - 1 -> Content]
  BY CoreFacts
<1> USE <1>c DEF Numbers
<1> USE DEF ringVars
<1>1. CASE CheckSlot
  <2>1. written' = written /\ tags' = tags /\ cb = "check"
    BY <1>1 DEF CheckSlot, CallbackFrame
  <2>2. CASE Needed
    <3>1. lost' = lost \cup {written} /\ data' = data
      BY <1>1, <2>2 DEF CheckSlot
    <3> QED BY <2>1, <3>1, HeldStays DEF WindowInv
  <2>3. CASE ~Needed
    <3>1. lost' = lost /\ data' = [data EXCEPT ![Slot(written)] = Torn]
          /\ cb' = "fill"
      BY <1>1, <2>3 DEF CheckSlot
    <3>2. ASSUME NEW p \in Positions, p < written, written < p + Slots
          PROVE  p \in lost' \/ Held(p)'
      <4>1. p \in Nat
        BY DEF Positions
      <4>2. Slot(p) # Slot(written)
        BY <3>2, <4>1, SlotsApart
      <4>3. CASE Held(p)
        BY <2>1, <3>1, <4>1, <4>2, <4>3, HeldElsewhere
      <4> QED BY <3>1, <3>2, <4>3 DEF WindowInv
    <3> QED BY <2>1, <3>1, <3>2 DEF WindowInv
  <2> QED BY <2>2, <2>3
<1>2. CASE FillSlot
  <2>1. /\ written' = written /\ lost' = lost
        /\ tags' = [tags EXCEPT ![Slot(written)] = written]
        /\ data' = [data EXCEPT ![Slot(written)] = written]
    BY <1>2 DEF FillSlot, CallbackFrame
  <2>2. ASSUME NEW p \in Positions, p < written, written < p + Slots
        PROVE  p \in lost' \/ Held(p)'
    <3>1. p \in Nat
      BY DEF Positions
    <3>2. Slot(p) # Slot(written)
      BY <2>2, <3>1, SlotsApart
    <3>3. CASE Held(p)
      BY <2>1, <3>1, <3>2, <3>3, HeldElsewhere
    <3> QED BY <2>1, <2>2, <3>3 DEF WindowInv
  <2>3. Held(written)'
    <3>1. Slot(written) \in 0 .. Slots - 1
      BY DivisionBySlots
    <3>2. tags'[Slot(written)] = written /\ data'[Slot(written)] = written
      BY <2>1, <3>1
    <3> QED BY <2>1, <3>2 DEF Held, Slot
  <2> QED BY <2>1, <2>2, <2>3 DEF WindowInv
<1>3. CASE PublishBlock
  <2>1. /\ written' = written + 1 /\ cb = "publish" /\ cb' = "idle"
        /\ UNCHANGED <<tags, data, lost>>
    BY <1>3 DEF PublishBlock, CallbackFrame
  <2>2. ASSUME NEW p \in Positions, p < written + 1, written + 1 < p + Slots
        PROVE  p \in lost' \/ Held(p)'
    <3>1. p \in Nat
      BY DEF Positions
    <3>2. p = written \/ (p < written /\ written < p + Slots)
      BY <2>2, <3>1
    <3>3. p \in lost \/ Held(p)
      BY <2>1, <3>2 DEF WindowInv
    <3> QED BY <2>1, <3>3, HeldStays
  <2> QED BY <2>1, <2>2 DEF WindowInv
<1>4. CASE /\ UNCHANGED <<tags, data, lost, written>>
           /\ cb' = "publish" => cb = "publish"
  BY <1>4, HeldStays DEF WindowInv
<1>5. CASE Callback
  BY <1>1, <1>2, <1>3, <1>4, <1>5 DEF Callback, BlockBegins, LoadTap,
     CountedPending, CountedWants, LoadWant, EndTake, TakeEnded, StartTake,
     PublishTake, TakeGoesOn, CallbackFrame
<1> QED
  BY <1>4, <1>5, WriterLeaves, PersonLeaves DEF Next, Off, vars

-----------------------------------------------------------------------------
(* The lap behind the block being written.                                   *)

\* What push_with's test lets through is a slot the reader is past.
LEMMA NotNeeded ==
    ASSUME Core, LapInv, ~Needed, read # Parked, ~overtaken
    PROVE  written < read + Slots
<1>c. /\ Numbers /\ VisitInv /\ WriterInv /\ TakeInv
      /\ tags \in [0 .. Slots - 1 -> Optional]
      /\ data \in [0 .. Slots - 1 -> Content]
  BY CoreFacts
<1> USE <1>c DEF Numbers
<1>1. keepUntil # Parked => written < keepUntil + Slots
  BY DEF LapInv
<1>2. keepUntil = Parked => written < keepUntil + Slots
  OBVIOUS
<1> QED BY <1>1, <1>2 DEF Needed

\* The reader stays within a lap of the slot being filled, and the take's end
\* until the callback has gone round.
LEMMA LapStep ==
    ASSUME Core, LapInv, [Next]_vars
    PROVE  LapInv'
<1> USE DEF LapInv, ringVars, takeVars, endVars, stepVars, fileVars, uiVars
<1>c. /\ Numbers /\ VisitInv /\ WriterInv /\ TakeInv
      /\ tags \in [0 .. Slots - 1 -> Optional]
      /\ data \in [0 .. Slots - 1 -> Content]
  BY CoreFacts
<1> USE <1>c DEF Numbers
<1>1. CASE Callback
  <2>1. CASE BlockBegins
    BY <2>1 DEF BlockBegins, CallbackFrame
  <2>2. CASE LoadTap
    BY <2>2 DEF LoadTap, CallbackFrame
  <2>3. CASE CountedPending
    BY <2>3 DEF CountedPending, CallbackFrame
  <2>4. CASE CountedWants
    BY <2>4 DEF CountedWants, CallbackFrame
  <2>5. CASE EndTake
    <3>1. written < written + Slots
      OBVIOUS
    <3> QED
      BY <2>5, <3>1 DEF EndTake, CallbackFrame
  <2>6. CASE TakeEnded
    BY <2>6 DEF TakeEnded, CallbackFrame
  <2>7. CASE StartTake
    BY <2>7 DEF StartTake, CallbackFrame
  <2>8. CASE PublishTake
    BY <2>8 DEF PublishTake, CallbackFrame
  <2>9. CASE TakeGoesOn
    BY <2>9 DEF TakeGoesOn, CallbackFrame
  <2>10. CASE CheckSlot
    <3>1. CASE Needed
      BY <2>10, <3>1 DEF CheckSlot, CallbackFrame
    <3>2. CASE ~Needed
      BY <2>10, <3>2, NotNeeded DEF CheckSlot, CallbackFrame
    <3> QED
      BY <3>1, <3>2
  <2>11. CASE FillSlot
    BY <2>11 DEF FillSlot, CallbackFrame
  <2>12. CASE PublishBlock
    <3>1. written' = written + 1 /\ cb' = "idle"
          /\ UNCHANGED <<read, keepUntil>>
      BY <2>12 DEF PublishBlock, CallbackFrame
    <3>2. ~overtaken' /\ read # Parked /\ keepUntil # Parked
            => written + 1 < keepUntil + Slots
      <4>1. ~overtaken' => ~RoundAgain
        BY <2>12 DEF PublishBlock
      <4> QED BY <4>1 DEF RoundAgain
    <3> QED
      BY <3>1, <3>2
  <2>13. CASE LoadWant
    BY <2>13 DEF LoadWant, CallbackFrame
  <2> QED
    BY <1>1, <2>1, <2>2, <2>3, <2>4, <2>5, <2>6, <2>7, <2>8, <2>9, <2>10,
       <2>11, <2>12, <2>13 DEF Callback
<1>2. CASE Writer
  <2>1. CASE Consume
    <3>1. read = wAt /\ read # Parked
      BY <2>1 DEF Consume, WriterInv, Settled, InLoop, InStep
    <3> QED
      BY <2>1, <3>1 DEF Consume, WriterFrame
  <2>2. CASE Park
    BY <2>2 DEF Park, WriterFrame
  <2>3. CASE OpenTake \/ TakeStillOpen \/ LoadEnd \/ LoadLimit \/
             ReadBlock \/ WriteBlock \/ WriteSilence \/
             LookAtDisk \/ GiveUp \/ FinishTake \/ StepAgain
             \/ Leave
    BY <2>3 DEF OpenTake, TakeStillOpen, LoadEnd, LoadLimit, ReadBlock,
       WriteBlock, WriteSilence, LookAtDisk, GiveUp, FinishTake, StepAgain,
       Leave, WriterFrame
  <2> QED
    BY <1>2, <2>1, <2>2, <2>3 DEF Writer
<1>3. CASE Person
  <2>1. CASE Record
    BY <2>1 DEF Record, PersonFrame
  <2>2. CASE CloseRing
    <3>1. cb = "idle" /\ cb' = cb
      BY <2>2 DEF CloseRing, NoCallbackInside, VisitInv, PersonFrame
    <3>2. CASE TakeToClose
      BY <2>2, <3>1, <3>2 DEF CloseRing, PersonFrame
    <3>3. CASE ~TakeToClose
      BY <2>2, <3>1, <3>3 DEF CloseRing, PersonFrame
    <3> QED
      BY <3>2, <3>3
  <2>3. CASE Stop \/ Stopped \/ Disarm \/ DisarmStops \/ Detach \/
             JoinWriter
    BY <2>3 DEF Stop, Stopped, Disarm, DisarmStops, Detach, JoinWriter,
       PersonFrame
  <2> QED
    BY <1>3, <2>1, <2>2, <2>3 DEF Person, Disarming
<1>4. CASE UNCHANGED vars
  BY <1>4 DEF vars
<1> QED
  BY <1>1, <1>2, <1>3, <1>4 DEF Next, Off

-----------------------------------------------------------------------------
(* What waits is held.                                                       *)

\* Where a slot is filled without being needed, no block that waits is in it.
LEMMA WaitingApart ==
    ASSUME Core, NEW p \in Waiting, written < read + Slots
    PROVE  p \in Nat /\ Slot(p) # Slot(written)
<1>c. /\ Numbers /\ VisitInv /\ WriterInv /\ TakeInv
      /\ tags \in [0 .. Slots - 1 -> Optional]
      /\ data \in [0 .. Slots - 1 -> Content]
  BY CoreFacts
<1> USE <1>c DEF Numbers
<1>1. p \in Nat /\ read <= p /\ p < written
  BY DEF Waiting, Lesser, Positions
<1>2. written < p + Slots
  BY <1>1
<1> QED BY <1>1, <1>2, SlotsApart

\* Each action keeps every block that waits in its slot.
LEMMA WaitingStep ==
    ASSUME Core, WindowInv, LapInv, WaitingIsHeld, [Next]_vars
    PROVE  WaitingIsHeld'
<1>c. /\ Numbers /\ VisitInv /\ WriterInv /\ TakeInv
      /\ tags \in [0 .. Slots - 1 -> Optional]
      /\ data \in [0 .. Slots - 1 -> Content]
  BY CoreFacts
<1> USE <1>c DEF Numbers
<1> SUFFICES ASSUME ~overtaken', NEW p \in Waiting'
             PROVE  p \in lost' \/ Held(p)'
  BY DEF WaitingIsHeld
<1>w. p \in Waiting' <=> p \in Positions /\ read' <= p
                          /\ p < Lesser(keepUntil', written')
  BY DEF Waiting, Lesser, Positions
<1>n. p \in Nat /\ p <= Horizon
  BY <1>w DEF Positions
<1> USE DEF ringVars, takeVars, endVars, stepVars, fileVars, uiVars
<1>1. ASSUME p \in Waiting, ~overtaken, UNCHANGED <<tags, data, lost>>
      PROVE  p \in lost' \/ Held(p)'
  BY <1>1, HeldStays DEF WaitingIsHeld
<1>2. CASE CheckSlot
  <2>1. /\ UNCHANGED <<tags, written, read, keepUntil, overtaken>>
        /\ lost \subseteq lost'
    BY <1>2 DEF CheckSlot, CallbackFrame
  <2>2. p \in Waiting /\ read # Parked /\ (p \in lost \/ Held(p))
    BY <2>1, <1>w, <1>n DEF Waiting, WaitingIsHeld
  <2>3. CASE Needed
    <3>1. data' = data
      BY <1>2, <2>3 DEF CheckSlot
    <3> QED BY <2>1, <2>2, <3>1, HeldStays
  <2>4. CASE ~Needed
    <3>1. data' = [data EXCEPT ![Slot(written)] = Torn]
      BY <1>2, <2>4 DEF CheckSlot
    <3>2. Slot(p) # Slot(written)
      BY <2>1, <2>2, <2>4, NotNeeded, WaitingApart
    <3>3. CASE Held(p)
      BY <2>1, <1>n, <3>1, <3>2, <3>3, HeldElsewhere
    <3> QED BY <2>1, <2>2, <3>3
  <2> QED BY <2>3, <2>4
<1>3. CASE FillSlot
  <2>1. /\ UNCHANGED <<lost, written, read, keepUntil, overtaken>>
        /\ tags' = [tags EXCEPT ![Slot(written)] = written]
        /\ data' = [data EXCEPT ![Slot(written)] = written]
        /\ cb = "fill"
    BY <1>3 DEF FillSlot, CallbackFrame
  <2>2. p \in Waiting /\ read # Parked /\ (p \in lost \/ Held(p))
    BY <2>1, <1>w, <1>n DEF Waiting, WaitingIsHeld
  <2>3. Slot(p) # Slot(written)
    BY <2>1, <2>2, WaitingApart DEF LapInv
  <2>4. CASE Held(p)
    BY <2>1, <1>n, <2>3, <2>4, HeldElsewhere
  <2> QED BY <2>1, <2>2, <2>4
<1>4. CASE PublishBlock
  <2>1. /\ written' = written + 1 /\ cb = "publish" /\ ~overtaken
        /\ UNCHANGED <<tags, data, lost, read, keepUntil>>
    BY <1>4 DEF PublishBlock, CallbackFrame
  <2>2. p = written \/ p \in Waiting
    BY <2>1, <1>w, <1>n DEF Waiting, Lesser
  <2> QED BY <2>1, <2>2, <1>1, HeldStays DEF WindowInv
<1>5. CASE PublishTake
  <2>1. /\ read' = takeStart /\ cb = "starting"
        /\ UNCHANGED <<tags, data, lost, written>>
    BY <1>5 DEF PublishTake, CallbackFrame
  <2>2. p \in Positions /\ p < written /\ written < p + Slots
    <3>1. written <= takeStart + Preroll
      BY <2>1 DEF TakeInv
    <3>2. p < written /\ takeStart <= p
      <4>1. keepUntil' = Parked
        BY <1>5 DEF PublishTake
      <4> QED BY <2>1, <4>1, <1>w, <1>n DEF Lesser
    <3> QED BY <1>w, <1>n, <3>1, <3>2
  <2> QED BY <2>1, <2>2, HeldStays DEF WindowInv
<1>6. CASE EndTake
  <2>1. UNCHANGED <<tags, data, lost, read, written, overtaken>>
        /\ keepUntil' = written /\ recording /\ cb = "unwanted"
    BY <1>6 DEF EndTake, CallbackFrame
  <2>2. p \in Waiting
    BY <2>1, <1>w, <1>n DEF Waiting, Lesser, TakeInv
  <2> QED BY <2>1, <2>2, <1>1
<1>7. CASE Consume
  <2>1. UNCHANGED <<tags, data, lost, written, keepUntil, overtaken>>
        /\ read' = read + 1
    BY <1>7 DEF Consume, WriterFrame, WriterInv, Settled, InLoop
  <2>2. p \in Waiting
    BY <2>1, <1>w, <1>n DEF Waiting
  <2> QED BY <2>1, <2>2, <1>1
<1>8. CASE Park
  BY <1>8, <1>w, <1>n DEF Park
<1>9. CASE CloseRing
  <2>1. UNCHANGED <<tags, data, lost, read, written, overtaken>>
    BY <1>9 DEF CloseRing, PersonFrame
  <2>2. p \in Waiting
    <3>1. CASE TakeToClose
      <4>1. keepUntil' = written /\ recording /\ cb = "idle"
        BY <1>9, <3>1 DEF CloseRing, TakeToClose, NoCallbackInside, VisitInv
      <4> QED BY <2>1, <4>1, <1>w, <1>n DEF Waiting, Lesser, TakeInv
    <3>2. CASE ~TakeToClose
      BY <1>9, <2>1, <3>2, <1>w DEF CloseRing, Waiting
    <3> QED BY <3>1, <3>2
  <2> QED BY <2>1, <2>2, <1>1
<1>10. CASE UNCHANGED <<tags, data, lost, written, read, keepUntil, overtaken>>
  <2>1. p \in Waiting
    BY <1>10, <1>w DEF Waiting
  <2> QED BY <1>10, <2>1, <1>1
<1>11. CASE Callback
  BY <1>2, <1>3, <1>4, <1>5, <1>6, <1>10, <1>11 DEF Callback, BlockBegins,
     LoadTap, CountedPending, CountedWants, LoadWant, TakeEnded, StartTake,
     TakeGoesOn, CallbackFrame
<1>12. CASE Writer
  BY <1>7, <1>8, <1>10, <1>12 DEF Writer, OpenTake, TakeStillOpen, LoadEnd,
     LoadLimit, ReadBlock, WriteBlock, WriteSilence, LookAtDisk, GiveUp,
     FinishTake, StepAgain, Leave, WriterFrame
<1>13. CASE Person
  BY <1>9, <1>10, <1>13 DEF Person, Disarming, Record, Stop, Stopped, Disarm,
     DisarmStops, Detach, JoinWriter, PersonFrame
<1> QED
  BY <1>10, <1>11, <1>12, <1>13 DEF Next, Off, vars

-----------------------------------------------------------------------------
(* The theorems.                                                             *)

Window == Core /\ WindowInv /\ LapInv /\ WaitingIsHeld

\* At first nothing has arrived, and nothing waits.
LEMMA WindowInit == Init => Window
<1> SUFFICES ASSUME Init PROVE Window
  OBVIOUS
<1>1. Core
  BY CoreInit
<1>2. written = 0 /\ cb = "idle" /\ read = Parked
  BY DEF Init
<1>3. WindowInv /\ LapInv
  BY <1>2 DEF WindowInv, LapInv, Positions
<1>4. Waiting = {}
  BY <1>2 DEF Waiting, Parked, Positions
<1> QED BY <1>1, <1>3, <1>4 DEF Window, WaitingIsHeld

\* Everything that waits is held, in every reachable state.
THEOREM WindowInvariant == Spec => []Window
<1>1. Window /\ [Next]_vars => Window'
  BY CoreStep, WindowStep, LapStep, WaitingStep DEF Window
<1> QED BY WindowInit, <1>1, PTL DEF Spec

\* No block of a take is overwritten while it waits, for every ring, pre-roll
\* and batch: until the callback has gone round the ring since the take's end.
THEOREM WaitingHeld == Spec => []WaitingIsHeld
<1>1. Window => WaitingIsHeld
  BY DEF Window
<1> QED BY <1>1, WindowInvariant, PTL

\* The callback's write into a slot and the writer's copy out of one never
\* meet in a take's own block: the rule push_with's unsafe slices rest on.
THEOREM WritesApart == Spec => []CallbackAndWriterApart
<1>1. ASSUME Window PROVE CallbackAndWriterApart
  <2>c. Core /\ LapInv /\ Numbers /\ TypeOK /\ WriterInv
    BY <1>1, CoreFacts DEF Window
  <2> USE <2>c DEF Numbers
  <2>1. SUFFICES ASSUME wr = "copy", ~overtaken, cb = "fill"
                 PROVE  Slot(wAt) # Slot(written)
    BY DEF CallbackAndWriterApart
  <2>2. read = wAt /\ wAt < written /\ read # Parked
    BY <2>1 DEF WriterInv, InStep, InBlock, InLoop, Settled, TypeOK,
       WriterTypeOK, Positions
  <2>3. written < wAt + Slots
    BY <2>1, <2>2 DEF LapInv
  <2> QED BY <2>2, <2>3, SlotsApart
<1> QED BY <1>1, WindowInvariant, PTL
=============================================================================

--------------------------- MODULE CaptureRingInv ---------------------------
(***************************************************************************)
(* The inductive invariant of the capture ring: what each thread can rely  *)
(* on at each point of its code.  TLC checks it like any invariant, and    *)
(* CaptureTimeline_proofs proves it inductive for every size of the ring.  *)
(***************************************************************************)
EXTENDS CaptureRing

\* Where the writer is inside a step of a take.
InStep ==
    {"end", "limit", "drain", "copy", "consume", "finish", "give_up_open",
     "give_up_write", "give_up_disk"}
InLoop    == {"drain", "copy", "consume", "give_up_write"}
InBlock   == {"copy", "consume", "give_up_write"}
AfterLoad == InLoop \cup {"limit", "finish", "give_up_disk"}
Settled   == InLoop \cup {"finish", "give_up_disk"}

\* inTap covers the callback's whole visit, a visit has a block to write, and
\* detach and close come in this order around it.
VisitInv ==
    /\ inTap <=> cb # "idle"
    /\ cb # "idle" => written < Horizon
    /\ ui \in {"detached", "joining", "off"} => ~tap
    /\ ui \in {"joining", "off"} => cb \in {"idle", "tap"}
    /\ leave => ui \in {"joining", "off"}

\* The writer works on a take from its first look until it parks, and within a
\* batch it is at `read` and short of the limit.
WriterInv ==
    /\ wr \in InStep => open
    /\ open => read # Parked
    /\ wr = "park" => ~open /\ read # Parked
    /\ wr = "gone" => leave /\ read = Parked /\ ~open
    /\ wr \in InBlock => wAt < wLimit /\ wWrote < BlocksAStep
    /\ wr \in InLoop => wLimit <= written /\ wAt <= written
    /\ wr \in Settled => read = wAt

\* When a take runs, ends and starts; what `read` points at; and that the end
\* a step loaded stays the take's end once there is one.
TakeInv ==
    /\ keepUntil = Parked <=> recording /\ cb # "ending"
    /\ keepUntil = Parked => read # Parked /\ wr # "park"
    /\ keepUntil # Parked => keepUntil <= written
    /\ cb = "ending" => recording /\ keepUntil = written
    /\ floor <= written
    /\ cb = "starting" =>
        /\ read = Parked /\ ~recording
        /\ floor <= takeStart /\ takeStart <= written
        /\ written <= takeStart + Preroll
    /\ read # Parked => takeStart <= read /\ read <= written
    /\ wr \in AfterLoad => wEnd = Parked \/ wEnd = keepUntil

\* A slot never says it holds a block that was lost, nor one yet to come.
LossInv ==
    /\ \A p \in lost : p < written \/ (p = written /\ cb = "publish")
    /\ \A s \in 0 .. Slots - 1 :
         /\ tags[s] \notin lost
         /\ tags[s] # Parked =>
              tags[s] < written \/ (tags[s] = written /\ cb = "publish")

\* The slots hold the last lap, and the block about to be published.
WindowInv ==
    /\ \A p \in Positions :
         p < written /\ written < p + Slots => p \in lost \/ Held(p)
    /\ cb = "publish" => written \in lost \/ Held(written)

\* Where a slot is being filled the reader is within a lap, and so is the end
\* of a take that is draining, until it is overtaken.
LapInv ==
    /\ cb = "fill" /\ read # Parked /\ ~overtaken => written < read + Slots
    /\ read # Parked /\ keepUntil # Parked /\ ~overtaken
         => written < keepUntil + Slots

\* A take's end is no earlier than its start, what is published and not yet
\* opened is to be written from its start, and a take being given up is skipped.
OpeningInv ==
    /\ read # Parked => takeStart <= keepUntil
    /\ read # Parked /\ ~open /\ wr # "park" => read = takeStart
    /\ wr \in {"give_up_open", "give_up_write"} => skipping

\* What is in the files.
FileInv ==
    /\ open => wStart = takeStart
    /\ open => \A p \in DOMAIN file : p < written
    /\ open => \A p \in DOMAIN file : wStart <= p
    /\ open /\ ~skipping =>
         \A p \in Positions : wStart <= p =>
             (p \in DOMAIN file <=> p < read \/ (wr = "consume" /\ p = wAt))
    /\ wr = "copy" => tags[Slot(wAt)] = wAt \/ overtaken \/ wAt >= keepUntil
    /\ open /\ ~overtaken => Faithful(file, keepUntil)

\* The takes finished, in their order.
LastDone == done[Len(done)].end
DoneInv ==
    /\ \A i \in DOMAIN done :
         /\ \A p \in DOMAIN done[i].file : p < written
         /\ ~done[i].overtaken => Faithful(done[i].file, done[i].end)
         /\ done[i].end <= written
    /\ done # <<>> =>
         LastDone <= floor \/ (cb = "ending" /\ LastDone = keepUntil)
    /\ keepUntil # Parked /\ cb # "ending" => keepUntil <= floor
    /\ done # <<>> /\ read # Parked /\ wr # "park" => LastDone <= takeStart

IInv ==
    /\ TypeOK /\ VisitInv /\ WriterInv /\ TakeInv
    /\ LossInv /\ WindowInv /\ LapInv /\ WaitingIsHeld
    /\ OpeningInv /\ FileInv /\ DoneInv
    /\ FinishedTakesAreWhole /\ TakesInOrder
=============================================================================

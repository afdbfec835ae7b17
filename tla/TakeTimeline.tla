---------------------------- MODULE TakeTimeline ----------------------------
(***************************************************************************)
(* What the capture ring promises (crates/gazelle-audio-record), with no   *)
(* ring, no threads and no atomics: blocks arrive on one timeline, each is *)
(* kept or lost as it arrives, and a take is a window on that timeline     *)
(* whose blocks are written one after another, the lost ones as silence.   *)
(*                                                                         *)
(* The window is exact, and a file is so up to the window's end, as long   *)
(* as the writer gets there within a lap of the ring.  What a file holds   *)
(* beyond either is left open (WriteLoosely): the code's writer can run    *)
(* past an end it has not seen yet, and its callback overwrites what has   *)
(* waited for longer than that.                                            *)
(***************************************************************************)
EXTENDS Naturals, Sequences, FiniteSets

CONSTANTS
    Preroll,   \* how far a take may reach back
    Lap,       \* how many blocks after its end a take must be written by
    Horizon    \* bound: blocks that arrive

Unended == Horizon + 1
Silence == Horizon + 2
Content == 0 .. Horizon + 3

VARIABLES
    now,      \* the position of the next block
    gone,     \* the positions whose block was lost
    take,     \* the windows of the take under way: none or one
    file,     \* what is written of it, by position
    givenUp,  \* nothing more is written of it
    past      \* the takes finished

vars == <<now, gone, take, file, givenUp, past>>

NoFile  == [p \in {} |-> Silence]
LastEnd == IF past = <<>> THEN 0 ELSE past[Len(past)].end

Init ==
    /\ now = 0 /\ gone = {} /\ take = {} /\ file = NoFile
    /\ givenUp = FALSE /\ past = <<>>

\* A block arrives, and is kept or lost.
Arrive ==
    /\ now < Horizon
    /\ now' = now + 1
    /\ gone' \in {gone, gone \cup {now}}
    /\ UNCHANGED <<take, file, givenUp, past>>

\* A take begins, as far back as the pre-roll goes, or where the last ended.
Begin ==
    /\ take = {}
    /\ \E start \in 0 .. now :
         /\ start >= LastEnd /\ start + Preroll >= now
         /\ start = LastEnd \/ start + Preroll = now \/ start = 0
         /\ take' = {[start |-> start, end |-> Unended]}
    /\ file' = NoFile
    /\ givenUp' = FALSE
    /\ UNCHANGED <<now, gone, past>>

\* The take under way ends at the next block.
End ==
    /\ \E t \in take :
         /\ t.end = Unended
         /\ take' = {[t EXCEPT !.end = now]}
    /\ UNCHANGED <<now, gone, file, givenUp, past>>

Add(p, x) == [q \in DOMAIN file \cup {p} |-> IF q = p THEN x ELSE file[q]]

\* The next block of the take is written: as it arrived, or as silence.
Write ==
    /\ ~givenUp
    /\ \E t \in take : LET p == t.start + Cardinality(DOMAIN file) IN
         /\ p < now /\ p < t.end
         /\ file' = Add(p, IF p \in gone THEN Silence ELSE p)
    /\ UNCHANGED <<now, gone, take, givenUp, past>>

\* What is written a lap after the take's end, or beyond that end, may be
\* anything.
WriteLoosely ==
    /\ ~givenUp
    /\ \E t \in take : LET p == t.start + Cardinality(DOMAIN file) IN
         /\ p < now
         /\ p >= t.end \/ now >= t.end + Lap
         /\ \E x \in Content : file' = Add(p, x)
    /\ UNCHANGED <<now, gone, take, givenUp, past>>

\* The disk fails the take.
GiveUp ==
    /\ take # {}
    /\ givenUp' = TRUE
    /\ UNCHANGED <<now, gone, take, file, past>>

\* The take is over: written to its end, unless it was given up.
Finish ==
    /\ \E t \in take :
         /\ t.end # Unended
         /\ givenUp \/ t.start + Cardinality(DOMAIN file) >= t.end
         /\ past' = Append(past, [start |-> t.start, end |-> t.end,
                                  file |-> file, skipped |-> givenUp])
    /\ take' = {}
    /\ file' = NoFile
    /\ givenUp' = FALSE
    /\ UNCHANGED <<now, gone>>

Next ==
    Arrive \/ Begin \/ End \/ Write \/ WriteLoosely \/ GiveUp \/ Finish

Spec == Init /\ [][Next]_vars
=============================================================================

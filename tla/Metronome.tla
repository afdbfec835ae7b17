----------------------------- MODULE Metronome -----------------------------
(***************************************************************************)
(* The click and its count-ins (metronome.rs).  Pages ask through atomics; *)
(* the callback, once a block, loads what is asked for one atomic after    *)
(* another and then places the clicks of the block on a grid counted in    *)
(* samples from where the tempo last changed.                              *)
(*                                                                         *)
(* Sounds, gains and accents are left out.  The musical choices are a      *)
(* "pace" (samples between ticks, as a fraction), beats to the bar, the    *)
(* note a beat is, and ticks to the beat.                                  *)
(***************************************************************************)
EXTENDS Naturals, Sequences, SequencesExt

CONSTANTS
    Settings,   \* musical choices: [pace: <<samples, ticks>>, beats, note, per]
    BlockLength,
    BarsAsked,  \* lengths of count-ins, in bars
    Blocks,     \* bound: blocks of the session
    CountIns,   \* bound: count-ins asked for
    Presses     \* bound: starts, stops and cancels asked for, each

(* A tick is a sample or more after the one before it: Params::problem     *)
(* refuses tempos far below one that would not be.                         *)
ASSUME MetronomeAssumption ==
    /\ BlockLength \in Nat \ {0} /\ BarsAsked \subseteq Nat \ {0} /\ Blocks \in Nat
    /\ CountIns \in Nat /\ Presses \in Nat
    /\ \A c \in Settings :
          /\ c.pace[2] \in Nat \ {0} /\ c.pace[1] \in Nat /\ c.pace[1] >= c.pace[2]
          /\ c.beats \in Nat \ {0} /\ c.per \in Nat \ {0}

VARIABLES
    want,       \* want_running
    asked,      \* the count-ins asked for; the callback sees the last
    cancels,    \* cancels asked for
    choice,     \* the musical choices last stored
    presses,    \* how often each button was pressed
    starting,   \* a count-in is stored and its start is not
    filling,    \* where the callback is in fill
    run,        \* its own state
    revoked,    \* history: per count-in asked for, "no", or when a cancel came
    counted     \* history: the count-ins that counted

askVars == <<want, asked, cancels, choice, presses, starting>>
metronomeVars == <<askVars, filling, run, revoked, counted>>

None == [number |-> 0]
Thens == {"record", "stop"}

(* Where tick number t of a stretch of steady tempo falls.                 *)
Onset(grid, t) == grid.start + (t * grid.pace[1]) \div grid.pace[2]

MetronomeTypeOK ==
    /\ want \in BOOLEAN /\ starting \in BOOLEAN /\ choice \in Settings
    /\ asked \in Seq([bars : BarsAsked, then : Thens])
    /\ cancels \in Nat
    /\ filling \in {"idle", "want", "cancel", "request", "play"}
    /\ run.position \in Nat /\ run.nextOnset \in Nat
    /\ run.running \in BOOLEAN /\ run.params \in Settings
    /\ run.tickInBeat < run.params.per /\ run.beatInBar < run.params.beats
    /\ revoked \in Seq({"no", "untaken", "taken", "inTime"}) /\ Len(revoked) = Len(asked)

MetronomeInit ==
    /\ want = FALSE /\ asked = <<>> /\ cancels = 0 /\ choice \in Settings
    /\ presses = [start |-> 0, stop |-> 0, cancel |-> 0, set |-> 0] /\ starting = FALSE
    /\ filling = "idle"
    /\ run = [position |-> 0, running |-> FALSE, params |-> choice, pending |-> {},
              grid |-> [start |-> 0, pace |-> choice.pace], tick |-> 0, tickInBeat |-> 0,
              beatInBar |-> 0, bar |-> 0, nextOnset |-> 0, countIn |-> None,
              seenCountIn |-> 0, seenCancel |-> 0]
    /\ revoked = <<>> /\ counted = {}

-----------------------------------------------------------------------------
(* What pages ask for.                                                     *)

Press(button) ==
    /\ presses[button] < Presses
    /\ presses' = [presses EXCEPT ![button] = @ + 1]

StartAsked ==
    /\ Press("start") /\ ~want
    /\ want' = TRUE
    /\ UNCHANGED <<asked, cancels, choice, starting, filling, run, revoked, counted>>

StopAsked ==
    /\ Press("stop") /\ want
    /\ want' = FALSE
    /\ UNCHANGED <<asked, cancels, choice, starting, filling, run, revoked, counted>>

SetParams ==
    /\ Press("set")
    /\ choice' \in Settings \ {choice}
    /\ UNCHANGED <<want, asked, cancels, starting, filling, run, revoked, counted>>

(* count_in stores the request and then starts the click.                  *)
CountIn(bars, then) ==
    /\ Len(asked) < CountIns /\ ~starting
    /\ asked' = Append(asked, [bars |-> bars, then |-> then])
    /\ revoked' = Append(revoked, "no")
    /\ starting' = TRUE
    /\ UNCHANGED <<want, cancels, choice, presses, filling, run, counted>>

CountInStarts ==
    /\ starting
    /\ starting' = FALSE /\ want' = TRUE
    /\ UNCHANGED <<asked, cancels, choice, presses, filling, run, revoked, counted>>

(* History: a count-in is revoked before the callback has taken it up, or  *)
(* after; "inTime" once a block begins after that.                        *)
Cancel ==
    /\ Press("cancel") /\ ~starting
    /\ cancels' = cancels + 1
    /\ revoked' = [n \in DOMAIN revoked |->
                      IF revoked[n] # "no" THEN revoked[n]
                      ELSE IF n <= run.seenCountIn THEN "taken" ELSE "untaken"]
    /\ UNCHANGED <<want, asked, choice, starting, filling, run, counted>>

-----------------------------------------------------------------------------
(* One block, in the callback.                                             *)

SameGrid(a, b) == a = b

LoadParams ==
    /\ filling = "idle" /\ run.position < Blocks * BlockLength
    /\ filling' = "want"
    /\ run' = [run EXCEPT !.pending = IF SameGrid(choice, run.params) THEN {} ELSE {choice}]
    /\ revoked' = [n \in DOMAIN revoked |-> IF revoked[n] = "taken" THEN "inTime" ELSE revoked[n]]
    /\ UNCHANGED <<askVars, counted>>

(* A change is being written: what there was is kept until the next block. *)
LoadNoParams ==
    /\ filling = "idle" /\ run.position < Blocks * BlockLength
    /\ filling' = "want"
    /\ revoked' = [n \in DOMAIN revoked |-> IF revoked[n] = "taken" THEN "inTime" ELSE revoked[n]]
    /\ UNCHANGED <<askVars, run, counted>>

Stopped == [run EXCEPT !.running = FALSE, !.countIn = None]

(* The click starts on a downbeat, at the block's first sample.            *)
Started ==
    LET p == IF run.pending = {} THEN run.params ELSE CHOOSE c \in run.pending : TRUE
    IN  [run EXCEPT !.running = TRUE, !.params = p, !.pending = {},
                    !.grid = [start |-> run.position, pace |-> p.pace],
                    !.tick = 0, !.tickInBeat = 0, !.beatInBar = 0, !.bar = 0,
                    !.nextOnset = run.position]

LoadWant ==
    /\ filling = "want"
    /\ filling' = "cancel"
    /\ run' = IF ~want /\ run.running THEN Stopped
              ELSE IF want /\ ~run.running THEN Started ELSE run
    /\ UNCHANGED <<askVars, revoked, counted>>

LoadCancel ==
    /\ filling = "cancel"
    /\ filling' = "request"
    /\ run' = IF cancels = run.seenCancel THEN run
              ELSE [run EXCEPT !.seenCancel = cancels, !.countIn = None]
    /\ UNCHANGED <<askVars, revoked, counted>>

OnDownbeat(r) == r.tickInBeat = 0 /\ r.beatInBar = 0
NextDownbeat_ThisBar == run.bar
NextDownbeat == IF OnDownbeat(run) THEN run.bar ELSE run.bar + 1

UnderWay(n) ==
    [number |-> n, target |-> NextDownbeat + asked[n].bars, pressed |-> run.position,
     bars |-> asked[n].bars, then |-> asked[n].then, heard |-> 0]

LoadRequest ==
    /\ filling = "request"
    /\ filling' = "play"
    /\ LET n == Len(asked)
       IN  run' = IF n = run.seenCountIn THEN run
                  ELSE [run EXCEPT !.seenCountIn = n,
                                   !.countIn = IF run.running THEN UnderWay(n) ELSE run.countIn]
    /\ UNCHANGED <<askVars, revoked, counted>>

Turned_KeepsBar ==
    IF run.tickInBeat = 0 /\ run.pending # {}
    THEN LET p == CHOOSE c \in run.pending : TRUE
         IN  [run EXCEPT !.params = p, !.pending = {},
                         !.grid = [start |-> run.nextOnset, pace |-> p.pace], !.tick = 0]
    ELSE run

(* A new grid is taken on a beat; a new signature starts a bar there.      *)
Turned ==
    IF run.tickInBeat = 0 /\ run.pending # {}
    THEN LET p == CHOOSE c \in run.pending : TRUE
             signature == p.beats # run.params.beats \/ p.note # run.params.note
             newBar == signature /\ run.beatInBar # 0
         IN  [run EXCEPT !.params = p, !.pending = {},
                         !.grid = [start |-> run.nextOnset, pace |-> p.pace], !.tick = 0,
                         !.bar = IF newBar THEN @ + 1 ELSE @,
                         !.beatInBar = IF newBar THEN 0 ELSE @]
    ELSE run

Counts(r) == OnDownbeat(r) /\ r.countIn # None /\ r.countIn.target = r.bar

(* A downbeat is one bar heard of the count-in under way.                  *)
Heard(r) ==
    IF r.countIn # None /\ OnDownbeat(r) THEN [r.countIn EXCEPT !.heard = @ + 1] ELSE r.countIn

(* The tick is played, and the next one placed.                            *)
Ticked(r) ==
    LET beatEnds == r.tickInBeat + 1 >= r.params.per
        barEnds == beatEnds /\ r.beatInBar + 1 >= r.params.beats
    IN  [r EXCEPT !.tick = @ + 1,
                  !.tickInBeat = IF beatEnds THEN 0 ELSE @ + 1,
                  !.beatInBar = IF barEnds THEN 0 ELSE IF beatEnds THEN @ + 1 ELSE @,
                  !.bar = IF barEnds THEN @ + 1 ELSE @,
                  !.nextOnset = Onset(r.grid, r.tick + 1),
                  !.countIn = Heard(r)]

TickDue == run.running /\ run.nextOnset < run.position + BlockLength

Finished(r) ==
    [count |-> r.countIn, downbeat |-> r.nextOnset, revoked |-> revoked[r.countIn.number]]

(* On the downbeat a count-in counts to, it is done; a preview stops there.*)
PlayTick ==
    /\ filling = "play" /\ TickDue
    /\ LET r == Turned
       IN  IF ~Counts(r)
           THEN run' = Ticked(r) /\ UNCHANGED <<want, counted>>
           ELSE /\ counted' = counted \cup {Finished(r)}
                /\ LET done == [r EXCEPT !.countIn = None]
                   IN  IF r.countIn.then = "stop"
                       THEN run' = [done EXCEPT !.running = FALSE] /\ want' = FALSE
                       ELSE run' = Ticked(done) /\ UNCHANGED want
    /\ UNCHANGED <<asked, cancels, choice, presses, starting, filling, revoked>>

EndBlock ==
    /\ filling = "play" /\ ~TickDue
    /\ filling' = "idle"
    /\ run' = [run EXCEPT !.position = @ + BlockLength]
    /\ UNCHANGED <<askVars, revoked, counted>>

Fill ==
    \/ LoadParams \/ LoadNoParams \/ LoadWant \/ LoadCancel \/ LoadRequest
    \/ PlayTick \/ EndBlock

SessionOver ==
    /\ filling = "idle" /\ run.position = Blocks * BlockLength
    /\ UNCHANGED metronomeVars

MetronomeNext ==
    \/ StartAsked \/ StopAsked \/ SetParams \/ Cancel \/ CountInStarts
    \/ \E bars \in BarsAsked, then \in Thens : CountIn(bars, then)
    \/ Fill \/ SessionOver

MetronomeSpec == MetronomeInit /\ [][MetronomeNext]_metronomeVars

-----------------------------------------------------------------------------
(* No click is ever placed behind the block being filled, where the        *)
(* distance to it would be below zero, and a count-in is only under way in *)
(* a click that runs towards it (metronome.rs, fill).                      *)
NeverBehind ==
    /\ run.running => run.nextOnset >= run.position
    /\ run.countIn # None => run.running /\ run.countIn.target >= run.bar

(* A count-in that counts has sounded the downbeats of all its bars since  *)
(* it was taken up, none more, whatever was changed, started or asked for  *)
(* meanwhile, and its take starts after it was pressed (metronome.rs, fill *)
(* and count_in: "Count `bars` bars from the next downbeat").              *)
WholeBars ==
    \A c \in counted : c.count.heard = c.count.bars /\ c.downbeat >= c.count.pressed

(* A count-in cancelled after the callback took it up does not count from  *)
(* the next block on (metronome.rs, cancel_count_in).                      *)
CancelHolds == \A c \in counted : c.revoked # "inTime"

(* Whatever buttons are pressed while the callback fills its blocks, the   *)
(* click is on its grid and a count-in counts what it was asked to.        *)
ClickKeepsTime == NeverBehind /\ WholeBars /\ CancelHolds

(* "Count `bars` bars from the next downbeat (starting the click on one if *)
(* it is not running)" (metronome.rs, count_in): a count-in the callback   *)
(* has seen, and nobody cancelled or stopped, is under way or has counted. *)
CountInTakenUp ==
    LET n == run.seenCountIn
    IN  n # 0 /\ presses.stop = 0 /\ revoked[n] = "no" /\ n = Len(asked) =>
            run.countIn.number = n \/ \E c \in counted : c.count.number = n

=============================================================================

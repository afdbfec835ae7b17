-------------------------- MODULE Metronome_proofs --------------------------
(***************************************************************************)
(* The click, for every setting, block length and number of presses: its   *)
(* next tick is on the grid and not behind the block, and a count-in under *)
(* way has as many downbeats ahead of it as bars it has not sounded.  A    *)
(* cancel is followed through the three places it passes: asked for, seen  *)
(* at the start of a block, loaded.                                        *)
(*                                                                         *)
(* And with what is known of the control, the two halves of the recorder's *)
(* session together.                                                       *)
(***************************************************************************)
EXTENDS MCRecorder, RecorderControl_proofs

USE MetronomeAssumption

Paces == {c.pace : c \in Settings}
Grids == [start : Nat, pace : Paces]
UnderWays == [number : Nat, target : Nat, pressed : Nat, bars : Nat, then : Thens, heard : Nat]

Runs ==
    [position : Nat, running : BOOLEAN, params : Settings, pending : SUBSET Settings,
     grid : Grids, tick : Nat, tickInBeat : Nat, beatInBar : Nat, bar : Nat,
     nextOnset : Nat, countIn : UnderWays \cup {None}, seenCountIn : Nat, seenCancel : Nat]

RunShape == run \in Runs

Revoked == {"no", "untaken", "taken", "inTime"}

AskShape ==
    /\ want \in BOOLEAN /\ starting \in BOOLEAN /\ choice \in Settings /\ cancels \in Nat
    /\ asked \in Seq([bars : BarsAsked, then : Thens])
    /\ revoked \in Seq(Revoked) /\ Len(revoked) = Len(asked)
    /\ filling \in {"idle", "want", "cancel", "request", "play"}

\* Within its beat and its bar the click is where its settings have room.
PlaceInBar(r) == r.tickInBeat < r.params.per /\ r.beatInBar < r.params.beats

\* The next tick is on the grid, and not behind the block.
OnGrid(r) ==
    /\ r.nextOnset = Onset(r.grid, r.tick)
    /\ r.running => r.nextOnset >= r.position

\* The first downbeat that is yet to sound.
DownbeatAhead(r) == IF OnDownbeat(r) THEN r.bar ELSE r.bar + 1

\* A count-in under way has as many downbeats ahead of it as bars it has not
\* sounded.
CountRight(r) ==
    r.countIn # None =>
        /\ r.running /\ r.countIn.target >= DownbeatAhead(r)
        /\ r.countIn.heard + r.countIn.target = DownbeatAhead(r) + r.countIn.bars
        /\ r.countIn.pressed <= r.position
        /\ r.countIn.number \in 1 .. r.seenCountIn

\* A cancel that came while a count-in was under way is still to be loaded, and
\* is loaded in the block that begins after it.
CancelRight ==
    /\ run.seenCountIn <= Len(asked) /\ run.seenCancel <= cancels
    /\ \A n \in 1 .. Len(asked) : n > run.seenCountIn => revoked[n] \in {"no", "untaken"}
    /\ run.countIn # None =>
          LET n == run.countIn.number
          IN  /\ revoked[n] \in {"taken", "inTime"} => run.seenCancel < cancels
              /\ revoked[n] = "inTime" => filling \in {"want", "cancel"}

ClickInv ==
    /\ RunShape /\ AskShape /\ PlaceInBar(run) /\ OnGrid(run) /\ CountRight(run) /\ CancelRight
    /\ WholeBars /\ CancelHolds

LEMMA DivUp ==
    ASSUME NEW m \in Nat, NEW a \in Nat, NEW b \in Nat \ {0}
    PROVE  (m + a) \div b >= m \div b /\ m \div b \in Nat
BY SMT

\* Ticks never fall before the ones they follow.
LEMMA OnsetFacts ==
    ASSUME NEW g \in Grids, NEW t \in Nat
    PROVE  /\ Onset(g, t) \in Nat /\ Onset(g, t + 1) >= Onset(g, t) /\ Onset(g, 0) = g.start
<1>1. PICK c \in Settings : g.pace = c.pace
  BY DEF Grids, Paces
<1> DEFINE a == g.pace[1]
           b == g.pace[2]
<1>2. a \in Nat /\ b \in Nat \ {0} /\ g.start \in Nat
  BY <1>1, MetronomeAssumption DEF Grids
<1> HIDE DEF a, b
<1>3. t * a \in Nat /\ (t + 1) * a = t * a + a /\ 0 * a = 0
  BY <1>2
<1>4. ((t + 1) * a) \div b >= (t * a) \div b /\ (t * a) \div b \in Nat
  BY <1>2, <1>3, DivUp
<1>5. 0 \div b = 0
  BY <1>2
<1>6. /\ Onset(g, t) = g.start + (t * a) \div b
      /\ Onset(g, t + 1) = g.start + ((t + 1) * a) \div b
      /\ Onset(g, 0) = g.start + 0 \div b
  BY <1>3 DEF Onset, a, b
<1> DEFINE x == (t * a) \div b
           y == ((t + 1) * a) \div b
<1>7. x \in Nat /\ y \in Nat /\ y >= x
  BY <1>2, <1>3, <1>4, DivUp
<1> HIDE DEF x, y
<1>8. Onset(g, t) = g.start + x /\ Onset(g, t + 1) = g.start + y /\ Onset(g, 0) = g.start + 0
  BY <1>5, <1>6 DEF x, y
<1> QED BY <1>2, <1>7, <1>8

LEMMA ShapeFacts ==
    ASSUME RunShape
    PROVE  /\ run.position \in Nat /\ run.running \in BOOLEAN /\ run.params \in Settings
           /\ run.pending \subseteq Settings /\ run.grid \in Grids /\ run.grid.start \in Nat
           /\ run.tick \in Nat /\ run.tickInBeat \in Nat /\ run.beatInBar \in Nat
           /\ run.bar \in Nat /\ run.nextOnset \in Nat /\ run.seenCountIn \in Nat
           /\ run.seenCancel \in Nat /\ run.countIn \in UnderWays \cup {None}
           /\ run.countIn # None =>
                 /\ run.countIn.number \in Nat /\ run.countIn.target \in Nat
                 /\ run.countIn.pressed \in Nat /\ run.countIn.bars \in Nat
                 /\ run.countIn.heard \in Nat
BY DEF RunShape, Runs, UnderWays, Grids

LEMMA SettingFacts ==
    ASSUME NEW c \in Settings, NEW start \in Nat
    PROVE  /\ c.beats \in Nat \ {0} /\ c.per \in Nat \ {0}
           /\ [start |-> start, pace |-> c.pace] \in Grids
BY DEF Grids, Paces

\* A step of the callback that leaves what is asked for alone.
LEMMA AskStays ==
    ASSUME AskShape, UNCHANGED <<want, starting, choice, cancels, asked, revoked>>,
           filling' \in {"idle", "want", "cancel", "request", "play"}
    PROVE  AskShape'
BY DEF AskShape

LEMMA ClickStart == MetronomeInit => ClickInv
<1> SUFFICES ASSUME MetronomeInit PROVE ClickInv
  OBVIOUS
<1>1. choice \in Settings /\ 0 \in Nat /\ FALSE \in BOOLEAN
  BY DEF MetronomeInit
<1>2. RunShape
  BY <1>1, SettingFacts DEF MetronomeInit, RunShape, Runs
<1>3. AskShape
  <2>1. asked = <<>> /\ revoked = <<>> /\ filling = "idle" /\ cancels = 0
    BY DEF MetronomeInit
  <2>2. want \in BOOLEAN /\ starting \in BOOLEAN
    BY DEF MetronomeInit
  <2>3. asked \in Seq([bars : BarsAsked, then : Thens]) /\ revoked \in Seq(Revoked)
    BY <2>1, EmptySeq
  <2>4. Len(revoked) = Len(asked) /\ cancels \in Nat
    BY <2>1, EmptySeq
  <2> QED BY <1>1, <2>1, <2>2, <2>3, <2>4 DEF AskShape
<1>4. PlaceInBar(run)
  BY <1>1, SettingFacts DEF MetronomeInit, PlaceInBar
<1>5. OnGrid(run)
  <2>1. [start |-> 0, pace |-> choice.pace] \in Grids
    BY <1>1, SettingFacts
  <2> QED BY <2>1, OnsetFacts DEF MetronomeInit, OnGrid
<1>6. CountRight(run) /\ CancelRight /\ WholeBars /\ CancelHolds
  BY DEF MetronomeInit, CountRight, CancelRight, WholeBars, CancelHolds
<1> QED BY <1>2, <1>3, <1>4, <1>5, <1>6 DEF ClickInv

\* What pages ask for does not touch what the callback has.
LEMMA AskedKeeps ==
    ASSUME ClickInv, StartAsked \/ StopAsked \/ SetParams \/ CountInStarts
    PROVE  ClickInv'
<1>1. UNCHANGED <<asked, cancels, filling, run, revoked, counted>>
  BY DEF StartAsked, StopAsked, SetParams, CountInStarts
<1>2. want' \in BOOLEAN /\ starting' \in BOOLEAN /\ choice' \in Settings
  BY DEF StartAsked, StopAsked, SetParams, CountInStarts, ClickInv, AskShape
<1>3. RunShape' /\ PlaceInBar(run)' /\ OnGrid(run)' /\ CountRight(run)' /\ WholeBars' /\ CancelHolds'
  BY <1>1 DEF ClickInv, RunShape, PlaceInBar, OnGrid, CountRight, DownbeatAhead, OnDownbeat, WholeBars,
     CancelHolds
<1>4. AskShape' /\ CancelRight'
  BY <1>1, <1>2 DEF ClickInv, AskShape, CancelRight
<1> QED BY <1>3, <1>4 DEF ClickInv

LEMMA CountInKeeps ==
    ASSUME ClickInv, NEW bars \in BarsAsked, NEW then \in Thens, CountIn(bars, then)
    PROVE  ClickInv'
<1>1. /\ asked' = Append(asked, [bars |-> bars, then |-> then])
      /\ revoked' = Append(revoked, "no") /\ starting' = TRUE
      /\ UNCHANGED <<want, cancels, choice, filling, run, counted>>
  BY DEF CountIn
<1>2. Len(asked) \in Nat /\ Len(revoked) = Len(asked)
  BY LenProperties DEF ClickInv, AskShape
<1>3. /\ asked' \in Seq([bars : BarsAsked, then : Thens]) /\ Len(asked') = Len(asked) + 1
      /\ revoked' \in Seq(Revoked) /\ Len(revoked') = Len(asked) + 1
      /\ revoked'[Len(asked) + 1] = "no"
      /\ \A n \in 1 .. Len(asked) : revoked'[n] = revoked[n]
  <2>1. "no" \in Revoked /\ [bars |-> bars, then |-> then] \in [bars : BarsAsked, then : Thens]
    BY DEF Revoked
  <2> QED BY <1>1, <1>2, <2>1, AppendProperties DEF ClickInv, AskShape
<1>4. RunShape' /\ PlaceInBar(run)' /\ OnGrid(run)' /\ CountRight(run)' /\ WholeBars' /\ CancelHolds'
  BY <1>1 DEF ClickInv, RunShape, PlaceInBar, OnGrid, CountRight, DownbeatAhead, OnDownbeat, WholeBars,
     CancelHolds
<1>5. AskShape'
  BY <1>1, <1>3 DEF ClickInv, AskShape
<1>6. CancelRight'
  <2>1. run.seenCountIn \in Nat /\ run.seenCountIn <= Len(asked)
    BY ShapeFacts DEF ClickInv, CancelRight
  <2>2. run.countIn # None => run.countIn.number \in 1 .. Len(asked)
    BY <1>2, <2>1 DEF ClickInv, CountRight
  <2> QED BY <1>1, <1>2, <1>3, <2>1, <2>2 DEF ClickInv, CancelRight
<1> QED BY <1>4, <1>5, <1>6 DEF ClickInv

LEMMA CancelKeeps ==
    ASSUME ClickInv, Cancel
    PROVE  ClickInv'
<1>1. /\ cancels' = cancels + 1
      /\ revoked' = [n \in DOMAIN revoked |->
                        IF revoked[n] # "no" THEN revoked[n]
                        ELSE IF n <= run.seenCountIn THEN "taken" ELSE "untaken"]
      /\ UNCHANGED <<want, asked, choice, starting, filling, run, counted>>
  BY DEF Cancel
<1>2. /\ Len(asked) \in Nat /\ DOMAIN revoked = 1 .. Len(asked) /\ cancels \in Nat
      /\ \A n \in 1 .. Len(asked) : revoked[n] \in Revoked
  BY LenProperties DEF ClickInv, AskShape
<1>3. /\ DOMAIN revoked' = 1 .. Len(asked)
      /\ \A n \in 1 .. Len(asked) : revoked'[n] \in Revoked
  BY <1>1, <1>2 DEF Revoked
<1>4. revoked' \in Seq(Revoked) /\ Len(revoked') = Len(asked)
  <2>1. revoked' = [n \in 1 .. Len(asked) |-> revoked'[n]]
    BY <1>1, <1>2
  <2> QED BY <1>2, <1>3, <2>1, IsASeq, LenProperties
<1>5. RunShape' /\ PlaceInBar(run)' /\ OnGrid(run)' /\ CountRight(run)' /\ WholeBars' /\ CancelHolds'
  BY <1>1 DEF ClickInv, RunShape, PlaceInBar, OnGrid, CountRight, DownbeatAhead, OnDownbeat, WholeBars,
     CancelHolds
<1>6. AskShape'
  BY <1>1, <1>2, <1>4 DEF ClickInv, AskShape
<1>7. CancelRight'
  <2>1. run.seenCountIn \in Nat /\ run.seenCountIn <= Len(asked)
    BY ShapeFacts DEF ClickInv, CancelRight
  <2>2. run.countIn # None => run.countIn.number \in 1 .. Len(asked)
    BY <1>2, <2>1 DEF ClickInv, CountRight
  <2>3. \A n \in 1 .. Len(asked) : n > run.seenCountIn => revoked'[n] \in {"no", "untaken"}
    BY <1>1, <1>2, <2>1 DEF ClickInv, CancelRight
  <2>4. \A n \in 1 .. Len(asked) : revoked'[n] = "inTime" => revoked[n] = "inTime"
    BY <1>1, <1>2
  <2>5. run.seenCancel \in Nat /\ run.seenCancel < cancels'
    BY <1>1, <1>2, ShapeFacts DEF ClickInv, CancelRight
  <2>6. run.countIn # None /\ revoked[run.countIn.number] = "inTime" => filling \in {"want", "cancel"}
    BY DEF ClickInv, CancelRight
  <2>7. run.seenCountIn <= Len(asked') /\ run.seenCancel <= cancels'
    BY <1>1, <1>2, <2>1, <2>5
  <2>8. run.countIn # None =>
           LET n == run.countIn.number
           IN  /\ revoked'[n] \in {"taken", "inTime"} => run.seenCancel < cancels'
               /\ revoked'[n] = "inTime" => filling \in {"want", "cancel"}
    BY <2>2, <2>4, <2>5, <2>6
  <2>9. run' = run /\ asked' = asked /\ filling' = filling
    BY <1>1
  <2> QED BY <2>3, <2>7, <2>8, <2>9 DEF CancelRight
<1> QED BY <1>5, <1>6, <1>7 DEF ClickInv

\* A block begins: what a page chose is looked at, and cancels turn in time.
LEMMA LoadKeeps ==
    ASSUME ClickInv, LoadParams \/ LoadNoParams
    PROVE  ClickInv'
<1>1. /\ filling' = "want" /\ UNCHANGED <<want, starting, choice, cancels, asked, counted>>
      /\ revoked' = [n \in DOMAIN revoked |->
                        IF revoked[n] = "taken" THEN "inTime" ELSE revoked[n]]
  BY DEF LoadParams, LoadNoParams, askVars
<1>2. PICK p \in SUBSET Settings : run' = [run EXCEPT !.pending = p]
  <2>1. CASE LoadParams
    <3>1. {} \in SUBSET Settings /\ {choice} \in SUBSET Settings
      BY DEF ClickInv, AskShape
    <3> QED BY <2>1, <3>1 DEF LoadParams
  <2>2. CASE LoadNoParams
    <3>1. run.pending \in SUBSET Settings /\ run = [run EXCEPT !.pending = run.pending]
      BY DEF ClickInv, RunShape, Runs
    <3> QED BY <2>2, <3>1 DEF LoadNoParams
  <2> QED BY <2>1, <2>2
<1>3. RunShape'
  BY <1>2 DEF ClickInv, RunShape, Runs
<1>4. /\ run'.position = run.position /\ run'.running = run.running /\ run'.params = run.params
      /\ run'.grid = run.grid /\ run'.tick = run.tick /\ run'.tickInBeat = run.tickInBeat
      /\ run'.beatInBar = run.beatInBar /\ run'.bar = run.bar
      /\ run'.nextOnset = run.nextOnset /\ run'.countIn = run.countIn
      /\ run'.seenCountIn = run.seenCountIn /\ run'.seenCancel = run.seenCancel
  BY <1>2 DEF ClickInv, RunShape, Runs
<1>5. PlaceInBar(run)' /\ OnGrid(run)' /\ CountRight(run)'
  BY <1>4 DEF ClickInv, PlaceInBar, OnGrid, CountRight, DownbeatAhead, OnDownbeat
<1>6. WholeBars' /\ CancelHolds'
  BY <1>1 DEF ClickInv, WholeBars, CancelHolds
<1>7. /\ Len(asked) \in Nat /\ DOMAIN revoked = 1 .. Len(asked)
      /\ \A n \in 1 .. Len(asked) : revoked[n] \in Revoked
  BY LenProperties DEF ClickInv, AskShape
<1>8. /\ DOMAIN revoked' = 1 .. Len(asked)
      /\ \A n \in 1 .. Len(asked) : revoked'[n] \in Revoked
  BY <1>1, <1>7 DEF Revoked
<1>9. revoked' \in Seq(Revoked) /\ Len(revoked') = Len(asked)
  <2>1. revoked' = [n \in 1 .. Len(asked) |-> revoked'[n]]
    BY <1>1, <1>7
  <2> QED BY <1>7, <1>8, <2>1, IsASeq, LenProperties
<1>10. AskShape'
  BY <1>1, <1>9 DEF ClickInv, AskShape
<1>11. CancelRight'
  <2>1. run.seenCountIn \in Nat /\ run.seenCountIn <= Len(asked)
    BY ShapeFacts DEF ClickInv, CancelRight
  <2>2. run.countIn # None => run.countIn.number \in 1 .. Len(asked)
    BY <1>7, <2>1 DEF ClickInv, CountRight
  <2>3. \A n \in 1 .. Len(asked) :
           /\ revoked'[n] \in {"taken", "inTime"} => revoked[n] \in {"taken", "inTime"}
           /\ revoked[n] \in {"no", "untaken"} => revoked'[n] \in {"no", "untaken"}
    BY <1>1, <1>7
  <2>4. run.countIn # None =>
           LET n == run.countIn.number
           IN  revoked'[n] \in {"taken", "inTime"} => run.seenCancel < cancels
    BY <2>2, <2>3 DEF ClickInv, CancelRight
  <2>5. \A n \in 1 .. Len(asked) : n > run.seenCountIn => revoked'[n] \in {"no", "untaken"}
    BY <2>3 DEF ClickInv, CancelRight
  <2>6. run.seenCancel <= cancels
    BY DEF ClickInv, CancelRight
  <2> QED BY <1>1, <1>4, <2>1, <2>4, <2>5, <2>6 DEF CancelRight
<1> QED BY <1>3, <1>5, <1>6, <1>10, <1>11 DEF ClickInv

\* The click stops, or starts on a downbeat at the first sample of the block.
LEMMA LoadWantKeeps ==
    ASSUME ClickInv, LoadWant
    PROVE  ClickInv'
<1>1. /\ filling' = "cancel"
      /\ UNCHANGED <<want, starting, choice, cancels, asked, revoked, counted>>
  BY DEF LoadWant, askVars
<1>2. AskShape' /\ WholeBars' /\ CancelHolds'
  BY <1>1, AskStays DEF ClickInv, WholeBars, CancelHolds
<1>3. run \in Runs
  BY DEF ClickInv, RunShape
<1>4. CASE run' = run
  <2>1. RunShape' /\ PlaceInBar(run)' /\ OnGrid(run)' /\ CountRight(run)'
    BY <1>4 DEF ClickInv, RunShape, PlaceInBar, OnGrid, CountRight, DownbeatAhead, OnDownbeat
  <2>2. CancelRight'
    BY <1>1, <1>4 DEF ClickInv, CancelRight
  <2> QED BY <1>2, <2>1, <2>2 DEF ClickInv
<1>5. CASE run' = Stopped
  <2>1. run' \in Runs
    BY <1>3, <1>5 DEF Stopped, Runs
  <2>2. /\ run'.running = FALSE /\ run'.countIn = None /\ run'.params = run.params
        /\ run'.grid = run.grid /\ run'.tick = run.tick /\ run'.tickInBeat = run.tickInBeat
        /\ run'.beatInBar = run.beatInBar /\ run'.nextOnset = run.nextOnset
        /\ run'.seenCountIn = run.seenCountIn /\ run'.seenCancel = run.seenCancel
    BY <1>3, <1>5 DEF Stopped, Runs
  <2>3. PlaceInBar(run)' /\ OnGrid(run)' /\ CountRight(run)'
    BY <2>2 DEF ClickInv, PlaceInBar, OnGrid, CountRight
  <2>4. CancelRight'
    BY <1>1, <2>2 DEF ClickInv, CancelRight
  <2> QED BY <1>2, <2>1, <2>3, <2>4 DEF ClickInv, RunShape
<1>6. CASE ~run.running /\ run' = Started
  <2>1. PICK p \in Settings :
           run' = [run EXCEPT !.running = TRUE, !.params = p, !.pending = {},
                              !.grid = [start |-> run.position, pace |-> p.pace],
                              !.tick = 0, !.tickInBeat = 0, !.beatInBar = 0, !.bar = 0,
                              !.nextOnset = run.position]
    <3> DEFINE q == IF run.pending = {} THEN run.params ELSE CHOOSE c \in run.pending : TRUE
    <3>1. q \in Settings
      BY <1>3 DEF Runs
    <3>2. run' = [run EXCEPT !.running = TRUE, !.params = q, !.pending = {},
                             !.grid = [start |-> run.position, pace |-> q.pace],
                             !.tick = 0, !.tickInBeat = 0, !.beatInBar = 0, !.bar = 0,
                             !.nextOnset = run.position]
      BY <1>6 DEF Started
    <3> HIDE DEF q
    <3> QED BY <3>1, <3>2
  <2>2. /\ run.position \in Nat /\ [start |-> run.position, pace |-> p.pace] \in Grids
        /\ p.beats \in Nat \ {0} /\ p.per \in Nat \ {0}
    BY <1>3, SettingFacts DEF Runs
  <2>3. run' \in Runs
    BY <1>3, <2>1, <2>2 DEF Runs
  <2>4. /\ run'.running = TRUE /\ run'.params = p /\ run'.tick = 0 /\ run'.tickInBeat = 0
        /\ run'.grid = [start |-> run.position, pace |-> p.pace] /\ run'.beatInBar = 0
        /\ run'.nextOnset = run.position /\ run'.position = run.position
        /\ run'.countIn = run.countIn
        /\ run'.seenCountIn = run.seenCountIn /\ run'.seenCancel = run.seenCancel
    BY <1>3, <2>1 DEF Runs
  <2>5. run.countIn = None
    BY <1>6 DEF ClickInv, CountRight
  <2>6. PlaceInBar(run)' /\ CountRight(run)'
    BY <2>2, <2>4, <2>5 DEF PlaceInBar, CountRight
  <2>7. OnGrid(run)'
    <3>1. Onset(run'.grid, run'.tick) = run.position
      BY <2>2, <2>4, OnsetFacts
    <3> QED BY <2>2, <2>4, <3>1 DEF OnGrid
  <2>8. CancelRight'
    BY <1>1, <2>4, <2>5 DEF ClickInv, CancelRight
  <2> QED BY <1>2, <2>3, <2>6, <2>7, <2>8 DEF ClickInv, RunShape
<1> QED BY <1>4, <1>5, <1>6 DEF LoadWant

LEMMA LoadCancelKeeps ==
    ASSUME ClickInv, LoadCancel
    PROVE  ClickInv'
<1>1. /\ filling' = "request"
      /\ UNCHANGED <<want, starting, choice, cancels, asked, revoked, counted>>
  BY DEF LoadCancel, askVars
<1>2. AskShape' /\ WholeBars' /\ CancelHolds'
  BY <1>1, AskStays DEF ClickInv, WholeBars, CancelHolds
<1>3. run \in Runs /\ cancels \in Nat /\ run.seenCancel \in Nat
  BY ShapeFacts DEF ClickInv, RunShape, AskShape
<1>4. CASE cancels = run.seenCancel /\ run' = run
  <2>1. RunShape' /\ PlaceInBar(run)' /\ OnGrid(run)' /\ CountRight(run)'
    BY <1>4 DEF ClickInv, RunShape, PlaceInBar, OnGrid, CountRight, DownbeatAhead, OnDownbeat
  <2>2. run.countIn # None => revoked[run.countIn.number] \notin {"taken", "inTime"}
    BY <1>3, <1>4 DEF ClickInv, CancelRight
  <2>3. CancelRight'
    BY <1>1, <1>4, <2>2 DEF ClickInv, CancelRight
  <2> QED BY <1>2, <2>1, <2>3 DEF ClickInv
<1>5. CASE run' = [run EXCEPT !.seenCancel = cancels, !.countIn = None]
  <2>1. run' \in Runs
    BY <1>3, <1>5 DEF Runs
  <2>2. /\ run'.running = run.running /\ run'.countIn = None /\ run'.params = run.params
        /\ run'.grid = run.grid /\ run'.tick = run.tick /\ run'.tickInBeat = run.tickInBeat
        /\ run'.beatInBar = run.beatInBar /\ run'.nextOnset = run.nextOnset
        /\ run'.position = run.position
        /\ run'.seenCountIn = run.seenCountIn /\ run'.seenCancel = cancels
    BY <1>3, <1>5 DEF Runs
  <2>3. PlaceInBar(run)' /\ OnGrid(run)' /\ CountRight(run)'
    BY <2>2 DEF ClickInv, PlaceInBar, OnGrid, CountRight
  <2>4. CancelRight'
    BY <1>1, <1>3, <2>2 DEF ClickInv, CancelRight
  <2> QED BY <1>2, <2>1, <2>3, <2>4 DEF ClickInv, RunShape
<1> QED BY <1>4, <1>5 DEF LoadCancel

\* A count-in is taken up at the downbeat that is yet to sound.
LEMMA LoadRequestKeeps ==
    ASSUME ClickInv, LoadRequest
    PROVE  ClickInv'
<1>1. /\ filling = "request" /\ filling' = "play"
      /\ UNCHANGED <<want, starting, choice, cancels, asked, revoked, counted>>
  BY DEF LoadRequest, askVars
<1>2. AskShape' /\ WholeBars' /\ CancelHolds'
  BY <1>1, AskStays DEF ClickInv, WholeBars, CancelHolds
<1>3. /\ run \in Runs /\ Len(asked) \in Nat /\ run.seenCountIn \in Nat
      /\ run.seenCountIn <= Len(asked) /\ run.seenCancel <= cancels
  BY ShapeFacts, LenProperties DEF ClickInv, RunShape, AskShape, CancelRight
<1>4. run.countIn # None =>
         /\ revoked[run.countIn.number] \in {"taken", "inTime"} => run.seenCancel < cancels
         /\ revoked[run.countIn.number] # "inTime"
  BY <1>1 DEF ClickInv, CancelRight
<1>5. CASE run' = run
  <2>1. RunShape' /\ PlaceInBar(run)' /\ OnGrid(run)' /\ CountRight(run)'
    BY <1>5 DEF ClickInv, RunShape, PlaceInBar, OnGrid, CountRight, DownbeatAhead, OnDownbeat
  <2>2. CancelRight'
    BY <1>1, <1>3, <1>4, <1>5 DEF ClickInv, CancelRight
  <2> QED BY <1>2, <2>1, <2>2 DEF ClickInv
<1>6. CASE /\ Len(asked) # run.seenCountIn
           /\ run' = [run EXCEPT !.seenCountIn = Len(asked),
                                 !.countIn = IF run.running THEN UnderWay(Len(asked))
                                             ELSE run.countIn]
  <2> DEFINE n == Len(asked)
  <2>1. n \in Nat /\ n > run.seenCountIn /\ n \in 1 .. n
    BY <1>3, <1>6
  <2>2. revoked[n] \in {"no", "untaken"}
    BY <2>1 DEF ClickInv, CancelRight
  <2>3. asked[n].bars \in Nat /\ asked[n].then \in Thens
    <3>1. asked[n] \in [bars : BarsAsked, then : Thens]
      BY <2>1, ElementOfSeq DEF ClickInv, AskShape
    <3> QED BY <3>1, MetronomeAssumption
  <2>4. NextDownbeat = DownbeatAhead(run) /\ NextDownbeat \in Nat /\ run.position \in Nat
    BY <1>3 DEF NextDownbeat, DownbeatAhead, Runs
  <2> HIDE DEF n
  <2>5. UnderWay(n) \in UnderWays
    BY <2>1, <2>3, <2>4 DEF UnderWay, UnderWays
  <2>6. run' = [run EXCEPT !.seenCountIn = n,
                           !.countIn = IF run.running THEN UnderWay(n) ELSE run.countIn]
    BY <1>6 DEF n
  <2>7. run' \in Runs
    BY <1>3, <2>1, <2>5, <2>6 DEF Runs
  <2>8. /\ run'.position = run.position /\ run'.running = run.running
        /\ run'.params = run.params
        /\ run'.grid = run.grid /\ run'.tick = run.tick /\ run'.tickInBeat = run.tickInBeat
        /\ run'.beatInBar = run.beatInBar /\ run'.bar = run.bar
        /\ run'.nextOnset = run.nextOnset
        /\ run'.seenCountIn = n /\ run'.seenCancel = run.seenCancel
        /\ run'.countIn = IF run.running THEN UnderWay(n) ELSE run.countIn
    BY <1>3, <2>6 DEF Runs
  <2>9. PlaceInBar(run)' /\ OnGrid(run)'
    BY <2>8 DEF ClickInv, PlaceInBar, OnGrid
  <2>10. CASE run.running
    <3>1. /\ run'.countIn.number = n /\ run'.countIn.heard = 0
          /\ run'.countIn.target = NextDownbeat + asked[n].bars
          /\ run'.countIn.bars = asked[n].bars /\ run'.countIn.pressed = run.position
      BY <2>8, <2>10 DEF UnderWay
    <3>2. DownbeatAhead(run)' = DownbeatAhead(run)
      BY <2>8 DEF DownbeatAhead, OnDownbeat
    <3>3. CountRight(run)'
      BY <2>1, <2>3, <2>4, <2>8, <2>10, <3>1, <3>2 DEF CountRight
    <3>4. CancelRight'
      BY <1>1, <1>3, <2>1, <2>2, <2>8, <3>1 DEF CancelRight, n
    <3> QED BY <1>2, <2>7, <2>9, <3>3, <3>4 DEF ClickInv, RunShape
  <2>11. CASE ~run.running
    <3>1. run'.countIn = None
      BY <2>8, <2>11 DEF ClickInv, CountRight
    <3>2. CountRight(run)'
      BY <3>1 DEF CountRight
    <3>3. CancelRight'
      BY <1>1, <1>3, <2>1, <2>8, <3>1 DEF CancelRight, n
    <3> QED BY <1>2, <2>7, <2>9, <3>2, <3>3 DEF ClickInv, RunShape
  <2> QED BY <2>10, <2>11
<1> QED BY <1>5, <1>6 DEF LoadRequest

\* A new grid is taken on the beat, from the sample that beat falls on; the
\* downbeats ahead stay where they were, a new signature's bar included.
LEMMA TurnedFacts ==
    ASSUME run \in Runs, PlaceInBar(run), OnGrid(run), CountRight(run), NEW r, r = Turned
    PROVE  /\ r \in Runs /\ PlaceInBar(r) /\ OnGrid(r) /\ CountRight(r)
           /\ r.position = run.position /\ r.running = run.running
           /\ r.nextOnset = run.nextOnset /\ r.countIn = run.countIn
           /\ r.seenCountIn = run.seenCountIn /\ r.seenCancel = run.seenCancel
<1>1. CASE r = run
  BY <1>1
<1>2. CASE run.tickInBeat = 0 /\ run.pending # {}
  <2> DEFINE p == CHOOSE c \in run.pending : TRUE
             signature == p.beats # run.params.beats \/ p.note # run.params.note
             newBar == signature /\ run.beatInBar # 0
  <2>1. p \in Settings
    BY <1>2 DEF Runs
  <2>2. r = [run EXCEPT !.params = p, !.pending = {},
                        !.grid = [start |-> run.nextOnset, pace |-> p.pace], !.tick = 0,
                        !.bar = IF newBar THEN run.bar + 1 ELSE run.bar,
                        !.beatInBar = IF newBar THEN 0 ELSE run.beatInBar]
    BY <1>2 DEF Turned
  <2>3. /\ newBar => run.beatInBar # 0
        /\ ~newBar => p.beats = run.params.beats \/ run.beatInBar = 0
    OBVIOUS
  <2> HIDE DEF p, signature, newBar
  <2>4. /\ run.bar \in Nat /\ run.beatInBar \in Nat /\ run.nextOnset \in Nat
        /\ run.params \in Settings
    BY DEF Runs
  <2>5. /\ p.beats \in Nat \ {0} /\ p.per \in Nat \ {0}
        /\ [start |-> run.nextOnset, pace |-> p.pace] \in Grids
    BY <2>1, <2>4, SettingFacts
  <2> DEFINE bar == IF newBar THEN run.bar + 1 ELSE run.bar
             beat == IF newBar THEN 0 ELSE run.beatInBar
  <2>6. bar \in Nat /\ beat \in Nat
    BY <2>4
  <2>7. beat < p.beats
    BY <2>3, <2>4, <2>5 DEF PlaceInBar
  <2>8. (IF beat = 0 THEN bar ELSE bar + 1) = DownbeatAhead(run)
    BY <1>2, <2>3, <2>4 DEF DownbeatAhead, OnDownbeat
  <2>9. r = [run EXCEPT !.params = p, !.pending = {},
                        !.grid = [start |-> run.nextOnset, pace |-> p.pace], !.tick = 0,
                        !.bar = bar, !.beatInBar = beat]
    BY <2>2
  <2> HIDE DEF bar, beat
  <2>10. r \in Runs
    <3> DEFINE q == [run EXCEPT !.params = p, !.pending = {},
                                !.grid = [start |-> run.nextOnset, pace |-> p.pace]]
    <3>1. {} \in SUBSET Settings
      OBVIOUS
    <3>2. q \in Runs
      BY <2>1, <2>5, <3>1 DEF Runs
    <3>3. r = [q EXCEPT !.tick = 0, !.bar = bar, !.beatInBar = beat]
      BY <2>9
    <3> DEFINE t == [q EXCEPT !.tick = 0]
    <3> HIDE DEF q
    <3>4. t \in Runs
      BY <3>2 DEF Runs
    <3>5. r = [t EXCEPT !.bar = bar, !.beatInBar = beat]
      BY <3>3
    <3>6. bar \in Nat /\ beat \in Nat
      BY <2>6
    <3> HIDE DEF t
    <3> QED BY <3>4, <3>5, <3>6 DEF Runs
  <2>11. /\ r.position = run.position /\ r.running = run.running /\ r.params = p
         /\ r.grid = [start |-> run.nextOnset, pace |-> p.pace] /\ r.tick = 0
         /\ r.tickInBeat = 0 /\ r.beatInBar = beat /\ r.bar = bar
         /\ r.nextOnset = run.nextOnset /\ r.countIn = run.countIn
         /\ r.seenCountIn = run.seenCountIn /\ r.seenCancel = run.seenCancel
    BY <1>2, <2>9 DEF Runs
  <2>12. PlaceInBar(r)
    BY <2>5, <2>7, <2>11 DEF PlaceInBar
  <2>13. OnGrid(r)
    <3>1. Onset(r.grid, r.tick) = run.nextOnset
      BY <2>5, <2>11, OnsetFacts
    <3> QED BY <2>11, <3>1 DEF OnGrid
  <2>14. CountRight(r)
    <3>1. DownbeatAhead(r) = DownbeatAhead(run)
      BY <2>8, <2>11 DEF DownbeatAhead, OnDownbeat
    <3> QED BY <2>11, <3>1 DEF CountRight
  <2> QED BY <2>10, <2>11, <2>12, <2>13, <2>14
<1> QED BY <1>1, <1>2 DEF Turned

\* A tick that is not the end of a count-in: a downbeat sounded is one bar
\* heard, and the next downbeat is one further.
LEMMA TickedFacts ==
    ASSUME NEW r \in Runs, PlaceInBar(r), OnGrid(r), CountRight(r), ~Counts(r),
           NEW s, s = Ticked(r)
    PROVE  /\ s \in Runs /\ PlaceInBar(s) /\ OnGrid(s) /\ CountRight(s)
           /\ s.seenCountIn = r.seenCountIn /\ s.seenCancel = r.seenCancel
           /\ s.countIn # None => r.countIn # None /\ s.countIn.number = r.countIn.number
<1> DEFINE beatEnds == r.tickInBeat + 1 >= r.params.per
           barEnds == beatEnds /\ r.beatInBar + 1 >= r.params.beats
           tib == IF beatEnds THEN 0 ELSE r.tickInBeat + 1
           bib == IF barEnds THEN 0 ELSE IF beatEnds THEN r.beatInBar + 1 ELSE r.beatInBar
           bar == IF barEnds THEN r.bar + 1 ELSE r.bar
           onset == Onset(r.grid, r.tick + 1)
           count == IF r.countIn # None /\ OnDownbeat(r)
                    THEN [r.countIn EXCEPT !.heard = r.countIn.heard + 1] ELSE r.countIn
<1>1. s = [r EXCEPT !.tick = r.tick + 1, !.tickInBeat = tib, !.beatInBar = bib, !.bar = bar,
                    !.nextOnset = onset, !.countIn = count]
  <2>1. Ticked(r) = [r EXCEPT !.tick = r.tick + 1, !.tickInBeat = tib, !.beatInBar = bib,
                              !.bar = bar, !.nextOnset = onset, !.countIn = count]
    BY DEF Ticked, Heard
  <2> QED BY <2>1
<1>2. /\ r.tick \in Nat /\ r.tickInBeat \in Nat /\ r.beatInBar \in Nat /\ r.bar \in Nat
      /\ r.grid \in Grids /\ r.params \in Settings /\ r.nextOnset \in Nat
      /\ r.position \in Nat /\ r.countIn \in UnderWays \cup {None}
  BY DEF Runs
<1>3. /\ r.params.beats \in Nat \ {0} /\ r.params.per \in Nat \ {0}
  BY <1>2, SettingFacts
<1>4. /\ tib \in Nat /\ bib \in Nat /\ bar \in Nat /\ tib < r.params.per /\ bib < r.params.beats
  BY <1>2, <1>3 DEF PlaceInBar
<1>5. onset \in Nat /\ onset >= r.nextOnset
  <2>1. r.tick + 1 \in Nat
    BY <1>2
  <2> QED BY <1>2, <2>1, OnsetFacts DEF OnGrid
<1>6. /\ count \in UnderWays \cup {None}
      /\ count # None => r.countIn # None /\ r.countIn \in UnderWays
      /\ r.countIn # None => /\ count.number = r.countIn.number
                             /\ count.target = r.countIn.target
                             /\ count.bars = r.countIn.bars
                             /\ count.pressed = r.countIn.pressed
                             /\ count.heard = IF OnDownbeat(r) THEN r.countIn.heard + 1
                                              ELSE r.countIn.heard
  BY <1>2 DEF UnderWays
<1>7. (IF tib = 0 /\ bib = 0 THEN bar ELSE bar + 1) = r.bar + 1
  BY <1>2, <1>3
<1> HIDE DEF beatEnds, barEnds, tib, bib, bar, onset, count
<1>8. s \in Runs
  <2>1. r.tick + 1 \in Nat
    BY <1>2
  <2> DEFINE q == [r EXCEPT !.tick = r.tick + 1, !.tickInBeat = tib, !.beatInBar = bib]
  <2>2. q \in Runs
    BY <1>4, <2>1 DEF Runs
  <2>3. s = [q EXCEPT !.bar = bar, !.nextOnset = onset, !.countIn = count]
    BY <1>1
  <2> DEFINE t == [q EXCEPT !.bar = bar, !.nextOnset = onset]
  <2> HIDE DEF q
  <2>4. t \in Runs
    BY <1>4, <1>5, <2>2 DEF Runs
  <2>5. s = [t EXCEPT !.countIn = count]
    BY <2>3
  <2> HIDE DEF t
  <2> QED BY <1>6, <2>4, <2>5 DEF Runs
<1>9. /\ s.position = r.position /\ s.running = r.running /\ s.params = r.params
      /\ s.grid = r.grid /\ s.tick = r.tick + 1 /\ s.tickInBeat = tib /\ s.beatInBar = bib
      /\ s.bar = bar /\ s.nextOnset = onset /\ s.countIn = count
      /\ s.seenCountIn = r.seenCountIn /\ s.seenCancel = r.seenCancel
  BY <1>1 DEF Runs
<1>10. PlaceInBar(s)
  BY <1>4, <1>9 DEF PlaceInBar
<1>11. OnGrid(s)
  BY <1>2, <1>5, <1>9 DEF OnGrid, onset
<1>12. CountRight(s)
  <2>1. SUFFICES ASSUME count # None PROVE CountRight(s)
    BY <1>9 DEF CountRight
  <2>2. /\ r.countIn # None /\ r.countIn.heard \in Nat /\ r.countIn.target \in Nat
        /\ r.countIn.bars \in Nat
    BY <1>6, <2>1 DEF UnderWays
  <2>3. DownbeatAhead(s) = r.bar + 1
    BY <1>7, <1>9 DEF DownbeatAhead, OnDownbeat
  <2>4. /\ r.countIn.target >= DownbeatAhead(r) /\ r.running
        /\ r.countIn.heard + r.countIn.target = DownbeatAhead(r) + r.countIn.bars
        /\ r.countIn.pressed <= r.position /\ r.countIn.number \in 1 .. r.seenCountIn
    BY <2>2 DEF CountRight
  <2>5. CASE OnDownbeat(r)
    <3>1. DownbeatAhead(r) = r.bar /\ r.countIn.target # r.bar
      BY <2>2, <2>5 DEF DownbeatAhead, Counts
    <3>2. /\ r.countIn.target >= r.bar + 1
          /\ r.countIn.heard + 1 + r.countIn.target = r.bar + 1 + r.countIn.bars
      BY <1>2, <2>2, <2>4, <3>1
    <3> QED BY <1>6, <1>9, <2>2, <2>3, <2>4, <2>5, <3>2 DEF CountRight
  <2>6. CASE ~OnDownbeat(r)
    <3>1. DownbeatAhead(r) = r.bar + 1
      BY <2>6 DEF DownbeatAhead
    <3> QED BY <1>6, <1>9, <2>2, <2>3, <2>4, <2>6, <3>1 DEF CountRight
  <2> QED BY <2>5, <2>6
<1> QED BY <1>6, <1>8, <1>9, <1>10, <1>11, <1>12

LEMMA PlayTickKeeps ==
    ASSUME ClickInv, PlayTick
    PROVE  ClickInv'
<1>1. /\ filling = "play" /\ run.running
      /\ UNCHANGED <<asked, cancels, choice, presses, starting, filling, revoked>>
  BY DEF PlayTick, TickDue
<1> DEFINE r == Turned
           done == [r EXCEPT !.countIn = None]
<1>2. \/ ~Counts(r) /\ run' = Ticked(r) /\ want' = want /\ counted' = counted
      \/ /\ Counts(r) /\ counted' = counted \cup {Finished(r)}
         /\ \/ run' = [done EXCEPT !.running = FALSE] /\ want' = FALSE
            \/ run' = Ticked(done) /\ want' = want
  BY DEF PlayTick
<1>3. run \in Runs /\ PlaceInBar(run) /\ OnGrid(run) /\ CountRight(run) /\ CancelRight
  BY DEF ClickInv, RunShape
<1>4. r = Turned
  OBVIOUS
<1> HIDE DEF r
<1>5. /\ r \in Runs /\ PlaceInBar(r) /\ OnGrid(r) /\ CountRight(r)
      /\ r.position = run.position /\ r.running = run.running
      /\ r.nextOnset = run.nextOnset /\ r.countIn = run.countIn
      /\ r.seenCountIn = run.seenCountIn /\ r.seenCancel = run.seenCancel
  BY <1>3, <1>4, TurnedFacts
<1>6. AskShape'
  <2>1. want' \in BOOLEAN
    BY <1>2 DEF ClickInv, AskShape
  <2> QED BY <1>1, <2>1 DEF ClickInv, AskShape
\* What a step needs to leave the cancels in order.
<1>7. ASSUME run'.seenCountIn = run.seenCountIn, run'.seenCancel = run.seenCancel,
             run'.countIn # None =>
                run.countIn # None /\ run'.countIn.number = run.countIn.number
      PROVE  CancelRight'
  BY <1>1, <1>3, <1>7 DEF CancelRight
<1>8. CASE ~Counts(r) /\ run' = Ticked(r) /\ want' = want /\ counted' = counted
  <2> DEFINE s == run'
  <2>1. s = Ticked(r)
    BY <1>8
  <2> HIDE DEF s
  <2>2. /\ s \in Runs /\ PlaceInBar(s) /\ OnGrid(s) /\ CountRight(s)
        /\ s.seenCountIn = r.seenCountIn /\ s.seenCancel = r.seenCancel
        /\ s.countIn # None => r.countIn # None /\ s.countIn.number = r.countIn.number
    BY <1>5, <1>8, <2>1, TickedFacts
  <2>3. CancelRight'
    BY <1>5, <1>7, <2>2 DEF s
  <2>4. WholeBars' /\ CancelHolds'
    BY <1>8 DEF ClickInv, WholeBars, CancelHolds
  <2>5. RunShape' /\ PlaceInBar(run)' /\ OnGrid(run)' /\ CountRight(run)'
    BY <2>2 DEF s, RunShape, PlaceInBar, OnGrid, CountRight, DownbeatAhead, OnDownbeat
  <2> QED BY <1>6, <2>3, <2>4, <2>5 DEF ClickInv
<1>9. CASE /\ Counts(r) /\ counted' = counted \cup {Finished(r)}
           /\ \/ run' = [done EXCEPT !.running = FALSE]
              \/ run' = Ticked(done)
  <2>1. WholeBars' /\ CancelHolds'
    <3>1. r.countIn # None /\ OnDownbeat(r) /\ r.countIn.target = r.bar /\ r.countIn \in UnderWays
      BY <1>5, <1>9 DEF Counts, Runs
    <3>2. /\ r.countIn.heard \in Nat /\ r.countIn.bars \in Nat /\ r.bar \in Nat
          /\ r.countIn.pressed \in Nat /\ r.position \in Nat /\ r.nextOnset \in Nat
      BY <1>5, <3>1 DEF UnderWays, Runs
    <3>3. /\ r.countIn.heard + r.bar = r.bar + r.countIn.bars
          /\ r.countIn.pressed <= r.position
      BY <1>5, <3>1 DEF CountRight, DownbeatAhead
    <3>4. r.countIn.heard = r.countIn.bars
      BY <3>2, <3>3
    <3>5. r.nextOnset >= r.countIn.pressed
      BY <1>1, <1>5, <3>2, <3>3 DEF OnGrid
    <3>6. revoked[r.countIn.number] # "inTime"
      BY <1>1, <1>3, <1>5, <3>1 DEF CancelRight
    <3>7. /\ Finished(r).count = r.countIn /\ Finished(r).downbeat = r.nextOnset
          /\ Finished(r).revoked = revoked[r.countIn.number]
      BY DEF Finished
    <3>8. \A c \in counted' : c \in counted \/ c = Finished(r)
      BY <1>9
    <3>9. WholeBars'
      BY <3>4, <3>5, <3>7, <3>8 DEF ClickInv, WholeBars
    <3>10. CancelHolds'
      BY <3>6, <3>7, <3>8 DEF ClickInv, CancelHolds
    <3> QED BY <3>9, <3>10
  <2>2. /\ done \in Runs /\ done.countIn = None /\ done.position = r.position
        /\ done.running = r.running /\ done.params = r.params /\ done.grid = r.grid
        /\ done.tick = r.tick /\ done.tickInBeat = r.tickInBeat
        /\ done.beatInBar = r.beatInBar /\ done.bar = r.bar
        /\ done.nextOnset = r.nextOnset
        /\ done.seenCountIn = r.seenCountIn /\ done.seenCancel = r.seenCancel
    BY <1>5 DEF Runs
  <2> HIDE DEF done
  <2>3. PlaceInBar(done) /\ OnGrid(done) /\ CountRight(done) /\ ~Counts(done)
    BY <1>5, <2>2 DEF PlaceInBar, OnGrid, CountRight, Counts
  <2>4. CASE run' = [done EXCEPT !.running = FALSE]
    <3>1. RunShape'
      BY <2>2, <2>4 DEF RunShape, Runs
    <3>2. /\ run'.countIn = None /\ run'.running = FALSE /\ run'.params = done.params
          /\ run'.grid = done.grid /\ run'.tick = done.tick
          /\ run'.tickInBeat = done.tickInBeat /\ run'.beatInBar = done.beatInBar
          /\ run'.nextOnset = done.nextOnset
          /\ run'.seenCountIn = done.seenCountIn /\ run'.seenCancel = done.seenCancel
      BY <2>2, <2>4 DEF Runs
    <3>3. PlaceInBar(run)' /\ OnGrid(run)' /\ CountRight(run)'
      BY <2>3, <3>2 DEF PlaceInBar, OnGrid, CountRight
    <3>4. CancelRight'
      BY <1>5, <1>7, <2>2, <3>2
    <3> QED BY <1>6, <2>1, <3>1, <3>3, <3>4 DEF ClickInv
  <2>5. CASE run' = Ticked(done)
    <3> DEFINE s == run'
    <3>1. s = Ticked(done)
      BY <2>5
    <3> HIDE DEF s
    <3>2. /\ s \in Runs /\ PlaceInBar(s) /\ OnGrid(s) /\ CountRight(s)
          /\ s.seenCountIn = done.seenCountIn /\ s.seenCancel = done.seenCancel
          /\ s.countIn # None => done.countIn # None
      BY <2>2, <2>3, <3>1, TickedFacts
    <3>3. CancelRight'
      BY <1>5, <1>7, <2>2, <3>2 DEF s
    <3>4. RunShape' /\ PlaceInBar(run)' /\ OnGrid(run)' /\ CountRight(run)'
      BY <3>2 DEF s, RunShape, PlaceInBar, OnGrid, CountRight, DownbeatAhead, OnDownbeat
    <3> QED BY <1>6, <2>1, <3>3, <3>4 DEF ClickInv
  <2> QED BY <1>9, <2>4, <2>5
<1> QED BY <1>2, <1>8, <1>9

\* A block ends when the next tick falls beyond it.
LEMMA EndBlockKeeps ==
    ASSUME ClickInv, EndBlock
    PROVE  ClickInv'
<1>1. /\ filling = "play" /\ filling' = "idle" /\ ~TickDue
      /\ run' = [run EXCEPT !.position = run.position + BlockLength]
      /\ UNCHANGED <<want, starting, choice, cancels, asked, revoked, counted>>
  BY DEF EndBlock, askVars
<1>2. AskShape' /\ WholeBars' /\ CancelHolds'
  BY <1>1, AskStays DEF ClickInv, WholeBars, CancelHolds
<1>3. /\ run \in Runs /\ run.position \in Nat /\ run.nextOnset \in Nat
      /\ BlockLength \in Nat /\ run.position + BlockLength \in Nat
  BY MetronomeAssumption DEF ClickInv, RunShape, Runs
<1>4. RunShape'
  BY <1>1, <1>3 DEF RunShape, Runs
<1>5. /\ run'.position = run.position + BlockLength /\ run'.running = run.running
      /\ run'.params = run.params
      /\ run'.grid = run.grid /\ run'.tick = run.tick /\ run'.tickInBeat = run.tickInBeat
      /\ run'.beatInBar = run.beatInBar /\ run'.bar = run.bar
      /\ run'.nextOnset = run.nextOnset /\ run'.countIn = run.countIn
      /\ run'.seenCountIn = run.seenCountIn /\ run'.seenCancel = run.seenCancel
  BY <1>1, <1>3 DEF Runs
<1>6. PlaceInBar(run)'
  BY <1>5 DEF ClickInv, PlaceInBar
<1>7. OnGrid(run)'
  BY <1>1, <1>3, <1>5 DEF ClickInv, OnGrid, TickDue
<1>8. CountRight(run)'
  <2>1. DownbeatAhead(run)' = DownbeatAhead(run)
    BY <1>5 DEF DownbeatAhead, OnDownbeat
  <2>2. run.countIn # None => run.countIn.pressed \in Nat
    BY ShapeFacts DEF ClickInv
  <2> QED BY <1>3, <1>5, <2>1, <2>2 DEF ClickInv, CountRight
<1>9. CancelRight'
  BY <1>1, <1>5 DEF ClickInv, CancelRight
<1> QED BY <1>2, <1>4, <1>6, <1>7, <1>8, <1>9 DEF ClickInv

LEMMA ClickStill ==
    ASSUME ClickInv, UNCHANGED metronomeVars
    PROVE  ClickInv'
<1>1. UNCHANGED <<want, starting, choice, cancels, asked, filling, run, revoked, counted>>
  BY SMT DEF metronomeVars, askVars
<1>2. RunShape' /\ PlaceInBar(run)' /\ OnGrid(run)' /\ CountRight(run)' /\ WholeBars' /\ CancelHolds'
  BY <1>1 DEF ClickInv, RunShape, PlaceInBar, OnGrid, CountRight, DownbeatAhead, OnDownbeat,
     WholeBars, CancelHolds
<1>3. AskShape' /\ CancelRight'
  BY <1>1 DEF ClickInv, AskShape, CancelRight
<1> QED BY <1>2, <1>3 DEF ClickInv

LEMMA ClickStep == ClickInv /\ [MetronomeNext]_metronomeVars => ClickInv'
<1> SUFFICES ASSUME ClickInv, [MetronomeNext]_metronomeVars PROVE ClickInv'
  OBVIOUS
<1>1. CASE StartAsked \/ StopAsked \/ SetParams \/ CountInStarts
  BY <1>1, AskedKeeps
<1>2. CASE Cancel
  BY <1>2, CancelKeeps
<1>3. ASSUME NEW bars \in BarsAsked, NEW then \in Thens, CountIn(bars, then)
      PROVE  ClickInv'
  BY <1>3, CountInKeeps
<1>4. CASE LoadParams \/ LoadNoParams
  BY <1>4, LoadKeeps
<1>5. CASE LoadWant
  BY <1>5, LoadWantKeeps
<1>6. CASE LoadCancel
  BY <1>6, LoadCancelKeeps
<1>7. CASE LoadRequest
  BY <1>7, LoadRequestKeeps
<1>8. CASE PlayTick
  BY <1>8, PlayTickKeeps
<1>9. CASE EndBlock
  BY <1>9, EndBlockKeeps
<1>10. CASE SessionOver \/ UNCHANGED metronomeVars
  BY <1>10, ClickStill DEF SessionOver
<1> QED
  BY <1>1, <1>2, <1>3, <1>4, <1>5, <1>6, <1>7, <1>8, <1>9, <1>10 DEF MetronomeNext, Fill

LEMMA ClickAlways == MetronomeSpec => []ClickInv
<1>1. MetronomeInit => ClickInv
  BY ClickStart
<1>2. ClickInv /\ [MetronomeNext]_metronomeVars => ClickInv'
  BY ClickStep
<1> QED BY <1>1, <1>2, PTL DEF MetronomeSpec

LEMMA ClickSafe == ClickInv => ClickKeepsTime
<1> SUFFICES ASSUME ClickInv PROVE ClickKeepsTime
  OBVIOUS
<1>1. run.running => run.nextOnset >= run.position
  BY DEF ClickInv, OnGrid
<1>2. run.countIn # None => run.running /\ run.countIn.target >= run.bar
  <2>1. run.bar \in Nat /\ (run.countIn # None => run.countIn.target \in Nat)
    BY ShapeFacts DEF ClickInv
  <2> QED BY <2>1 DEF ClickInv, CountRight, DownbeatAhead
<1>3. WholeBars /\ CancelHolds
  BY DEF ClickInv
<1> QED BY <1>1, <1>2, <1>3 DEF ClickKeepsTime, NeverBehind

\* Whatever is pressed while the callback fills its blocks, the click is on its
\* grid, and a count-in counts the bars it was asked for or, cancelled in time,
\* not at all (metronome.rs, fill, count_in and cancel_count_in).
THEOREM ClickTime == MetronomeSpec => []ClickKeepsTime
<1>1. ClickInv => ClickKeepsTime
  BY ClickSafe
<1> QED BY <1>1, ClickAlways, PTL

LEMMA ClickTypes == MetronomeSpec => []MetronomeTypeOK
<1>1. ClickInv => MetronomeTypeOK
  <2> SUFFICES ASSUME ClickInv PROVE MetronomeTypeOK
    OBVIOUS
  <2>1. /\ run.position \in Nat /\ run.nextOnset \in Nat /\ run.running \in BOOLEAN
        /\ run.params \in Settings
    BY ShapeFacts DEF ClickInv
  <2>2. run.tickInBeat < run.params.per /\ run.beatInBar < run.params.beats
    BY DEF ClickInv, PlaceInBar
  <2>3. AskShape
    BY DEF ClickInv
  <2> QED BY <2>1, <2>2, <2>3 DEF MetronomeTypeOK, AskShape, Revoked
<1> QED BY <1>1, ClickAlways, PTL

-----------------------------------------------------------------------------
(* The two halves of the session.                                            *)

\* A behaviour of the session is one of the control and one of the click.
LEMMA RecorderParts ==
    /\ RecorderSpec => ControlSpec
    /\ RecorderSpec => MetronomeSpec
<1>1. RecorderInit => ControlInit /\ MetronomeInit
  BY DEF RecorderInit
<1>2. [RecorderNext]_recorderVars => [ControlNext]_controlVars /\ [MetronomeNext]_metronomeVars
  <2>1. CASE RecorderNext
    <3>1. (ControlNext /\ UNCHANGED metronomeVars) \/ (MetronomeNext /\ UNCHANGED controlVars)
      BY <2>1, SMT DEF RecorderNext
    <3> QED BY <3>1
  <2>2. CASE UNCHANGED recorderVars
    <3>1. UNCHANGED controlVars /\ UNCHANGED metronomeVars
      BY <2>2 DEF recorderVars
    <3> QED BY <3>1
  <2> QED BY <2>1, <2>2
<1> QED BY <1>1, <1>2, PTL DEF RecorderSpec, ControlSpec, MetronomeSpec

\* The session and the click keep their shape (control.rs and metronome.rs).
THEOREM RecorderTyped == RecorderSpec => []RecorderTypeOK
<1>1. ControlTypeOK /\ MetronomeTypeOK => RecorderTypeOK
  BY DEF RecorderTypeOK
<1> QED BY <1>1, RecorderParts, ControlTypes, ClickTypes, PTL
=============================================================================

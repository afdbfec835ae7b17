----------------------- MODULE RecorderControl_proofs -----------------------
(***************************************************************************)
(* Who opens and closes the interfaces, for any number of clients and      *)
(* commands: one host at most runs, the recorder has the session it        *)
(* believes it has, and with one command at a time so has the click.       *)
(***************************************************************************)
EXTENDS RecorderControl, SequenceTheorems, FiniteSetTheorems, TLAPS

Sessions == 1 .. Len(host)

HostStates == {"new", "opening", "streaming", "closed"}
Answers    == {"awaited", "lease", "error", "givenUp"}

Leaving == {"releaseRecorder", "closeRecorder", "off"}
StopPlaces ==
    {"takesClick", "stopTakes", "letGo", "ringOut", "releaseMetronome",
     "closeMetronome"}
Places ==
    {"idle", "begin", "claim", "acquire", "await", "giveUp", "attach", "armed", "wait", "look",
     "disarm", "last", "end", "detach", "click", "hold", "hand", "start", "ask", "unlock", "tidy"}
        \cup StopPlaces \cup Leaving

\* What the steps need of the types.
ShapeInv ==
    /\ host \in Seq(HostStates) /\ stop \in Seq(BOOLEAN) /\ answer \in Seq(Answers)
    /\ Len(stop) = Len(host) /\ Len(answer) = Len(host)
    /\ open \in 0 .. Len(host) /\ current \in 0 .. Len(host)
    /\ mine \in [Clients -> 0 .. Len(host)]
    /\ holders \subseteq {"recorder", "metronome"}
    /\ at \in [Clients -> Places]
    /\ command \in [Clients -> AllCommands \cup {"none", "lastStop"}]

\* A thread that runs its host has the turn, and has answered when it streams;
\* who gave up has told it to stop.
HostInv ==
    \A n \in Sessions :
        /\ host[n] \in {"opening", "streaming"} => turn = n
        /\ host[n] \in {"new", "opening"} => answer[n] \in {"awaited", "givenUp"}
        /\ answer[n] = "givenUp" => stop[n]
        /\ answer[n] = "lease" /\ ~stop[n] => host[n] = "streaming"

Waiting(c) == at[c] \in {"await", "giveUp"}
Closing(c) == at[c] \in {"closeRecorder", "closeMetronome"}

\* One client at most is in the open lock, and with it the only session that is
\* neither open, closed nor told to stop.
LockInv ==
    /\ openLock = {c \in Clients : Waiting(c) \/ Closing(c)}
    /\ \A c \in openLock : open = 0 /\ mine[c] \in Sessions
    /\ \A c, d \in openLock : c = d
    /\ \A c \in Clients : Waiting(c) => ~stop[mine[c]] /\ current = 0
    /\ (\A c \in Clients : ~Closing(c)) => current = open

\* The session is open while somebody holds it.
OpenInv ==
    /\ open = 0 <=> holders = {}
    /\ open # 0 => host[open] = "streaming" /\ ~stop[open]
    /\ \A n \in Sessions :
          \/ n = open \/ host[n] = "closed" \/ stop[n]
          \/ \E c \in Clients : Waiting(c) /\ mine[c] = n

\* Where the clients that arm and disarm may be.
Arming(c) == command[c] = "arm" /\ at[c] \notin {"idle", "begin", "claim"}
ArmPlaces ==
    {"idle", "begin", "claim", "acquire", "await", "giveUp", "attach", "armed"} \cup Leaving
DisarmPlaces == {"end", "detach"} \cup StopPlaces \cup Leaving
Disarming(c) == command[c] \in {"disarm", "shutdown"} /\ at[c] \in DisarmPlaces

PlaceInv ==
    \A c \in Clients :
        /\ command[c] = "arm" => at[c] \in ArmPlaces
        /\ command[c] \in {"disarm", "shutdown"} =>
              at[c] \in {"idle", "begin", "wait", "look", "disarm", "last"} \cup DisarmPlaces
        /\ at[c] \in {"attach", "armed"} => command[c] = "arm"
        /\ at[c] \in {"end", "detach"} => command[c] \in {"disarm", "shutdown"}
        /\ at[c] \in Leaving => command[c] \in {"arm", "disarm", "shutdown"}

Held(n) == "recorder" \in holders /\ open = n
Free == "recorder" \notin holders /\ tap = 0

\* One client at most arms or disarms, and at each step of it the recorder holds
\* the session, and has its tap there, or it does not.
PhaseInv ==
    /\ \A c \in Clients : Arming(c) => phase = "arming"
    /\ \A c \in Clients : Disarming(c) => phase = "disarming"
    /\ \A c, d \in Clients : Arming(c) /\ Arming(d) => c = d
    /\ \A c, d \in Clients : Disarming(c) /\ Disarming(d) => c = d
    /\ \A c \in Clients : Arming(c) =>
          /\ at[c] \in {"acquire", "await", "giveUp", "closeRecorder", "off"} => Free
          /\ at[c] = "attach" => Held(mine[c]) /\ tap = 0
          /\ at[c] = "armed" => Held(mine[c]) /\ tap = mine[c]
          /\ at[c] = "releaseRecorder" => Held(mine[c]) /\ tap = 0
    /\ \A c \in Clients : Disarming(c) =>
          /\ at[c] \in {"end", "detach"} \cup StopPlaces => Held(lease) /\ tap = lease
          /\ at[c] = "releaseRecorder" => Held(lease) /\ tap = 0
          /\ at[c] \in {"closeRecorder", "off"} => Free
    /\ phase = "armed" => Held(lease) /\ tap = lease
    /\ phase = "off" => Free

ControlInv == ShapeInv /\ HostInv /\ LockInv /\ OpenInv /\ PlaceInv /\ PhaseInv

-----------------------------------------------------------------------------
(* A client goes on, and leaves the engine and its threads alone.          *)

Moves(c) ==
    /\ at' \in [Clients -> Places] /\ mine' \in [Clients -> 0 .. Len(host)]
    /\ command' \in [Clients -> AllCommands \cup {"none", "lastStop"}]
    /\ \A d \in Clients \ {c} : at'[d] = at[d] /\ mine'[d] = mine[d] /\ command'[d] = command[d]
    /\ UNCHANGED <<openLock, open, holders, current, host, stop, answer, turn>>

\* Clients that neither arm nor disarm nor open nor close.
Aside(c) ==
    /\ ~Waiting(c) /\ ~Closing(c)
    /\ at[c] \notin {"attach", "armed", "end", "detach"} \cup Leaving
    /\ command[c] = "arm" => at[c] \in {"idle", "begin", "claim"}
    /\ command[c] \in {"disarm", "shutdown"} =>
          at[c] \in {"idle", "begin", "wait", "look", "disarm", "last"}

LEMMA EngineStays ==
    ASSUME ControlInv, NEW c \in Clients, Moves(c),
           ~Waiting(c), ~Closing(c), ~Waiting(c)', ~Closing(c)'
    PROVE  ShapeInv' /\ HostInv' /\ LockInv' /\ OpenInv'
<1>1. ShapeInv' BY DEF ControlInv, ShapeInv, Moves
<1>2. HostInv' BY DEF ControlInv, HostInv, Moves, Sessions
<1>3. \A d \in Clients : /\ Waiting(d)' <=> Waiting(d)
                         /\ Closing(d)' <=> Closing(d)
                         /\ Waiting(d) \/ Closing(d) => mine'[d] = mine[d]
  BY DEF Moves, Waiting, Closing
<1>4. LockInv'
  BY <1>3 DEF ControlInv, LockInv, Moves, Sessions
<1>5. OpenInv'
  <2>1. ASSUME NEW n \in Sessions
        PROVE  (\E d \in Clients : Waiting(d) /\ mine[d] = n) =>
                    \E d \in Clients : Waiting(d)' /\ mine'[d] = n
    BY <1>3
  <2> QED BY <2>1 DEF ControlInv, OpenInv, Moves, Sessions
<1> QED BY <1>1, <1>2, <1>4, <1>5

LEMMA AsideKeeps ==
    ASSUME ControlInv, NEW c \in Clients, Moves(c), ~Waiting(c), ~Closing(c), Aside(c)',
           UNCHANGED <<phase, lease, tap>>
    PROVE  ControlInv'
<1>1. ShapeInv' /\ HostInv' /\ LockInv' /\ OpenInv'
  BY EngineStays DEF Aside
<1>2. PlaceInv'
  BY DEF ControlInv, PlaceInv, Moves, Aside, Arming, ArmPlaces, DisarmPlaces, Leaving, StopPlaces
<1>3. ~Arming(c)' /\ ~Disarming(c)'
  BY DEF Aside, Arming, Disarming, DisarmPlaces, Leaving, StopPlaces
<1>4. \A d \in Clients \ {c} : /\ at'[d] = at[d] /\ mine'[d] = mine[d]
                               /\ Arming(d)' <=> Arming(d)
                               /\ Disarming(d)' <=> Disarming(d)
                               /\ Held(mine[d])' <=> Held(mine[d])
  BY DEF Moves, Arming, Disarming, Held
<1>5. /\ Held(lease)' <=> Held(lease)
      /\ Free' <=> Free
  BY DEF Moves, Held, Free
<1>6. PhaseInv'
  BY <1>3, <1>4, <1>5 DEF ControlInv, PhaseInv
<1> QED BY <1>1, <1>2, <1>6 DEF ControlInv

\* Who disarms and goes on among the steps at which the recorder still has its
\* session and its tap.
LEMMA DisarmGoesOn ==
    ASSUME ControlInv, NEW c \in Clients, Moves(c),
           at[c] \in ({"end", "detach"} \cup StopPlaces) \ {"closeMetronome"},
           at'[c] \in ({"end", "detach"} \cup StopPlaces) \ {"closeMetronome"},
           at'[c] \notin {"end"},
           command'[c] = command[c], Disarming(c),
           UNCHANGED <<phase, lease, tap>>
    PROVE  ControlInv'
<1>1. ShapeInv' /\ HostInv' /\ LockInv' /\ OpenInv'
  <2>1. ~Waiting(c) /\ ~Closing(c) /\ ~Waiting(c)' /\ ~Closing(c)'
    BY DEF Waiting, Closing, StopPlaces
  <2> QED BY <2>1, EngineStays
<1>2. command[c] \in {"disarm", "shutdown"}
  BY DEF Disarming
<1>3. PlaceInv'
  BY <1>2 DEF ControlInv, PlaceInv, Moves, ArmPlaces, DisarmPlaces, Leaving, StopPlaces
<1>4. ~Arming(c) /\ ~Arming(c)' /\ Disarming(c)'
  BY <1>2 DEF Arming, Disarming, DisarmPlaces
<1>5. \A d \in Clients \ {c} : /\ at'[d] = at[d] /\ mine'[d] = mine[d]
                               /\ Arming(d)' <=> Arming(d)
                               /\ Disarming(d)' <=> Disarming(d)
                               /\ Held(mine[d])' <=> Held(mine[d])
  BY DEF Moves, Arming, Disarming, Held
<1>6. /\ Held(lease)' <=> Held(lease)
      /\ Free' <=> Free
  BY DEF Moves, Held, Free
<1>7. at'[c] \notin Leaving
  BY DEF StopPlaces, Leaving
<1>8. PhaseInv'
  BY <1>4, <1>5, <1>6, <1>7 DEF ControlInv, PhaseInv, Leaving
<1> QED BY <1>1, <1>3, <1>8 DEF ControlInv

-----------------------------------------------------------------------------
(* The steps that stand aside.                                             *)

\* One client goes to a place, and nothing else of its own changes but what
\* it was handed.
LEMMA Went ==
    ASSUME ControlInv, NEW c \in Clients, NEW where \in Places, Go(c, where),
           mine' \in [Clients -> 0 .. Len(host)],
           \A d \in Clients \ {c} : mine'[d] = mine[d],
           UNCHANGED <<engineVars, threadVars, command>>
    PROVE  Moves(c) /\ at'[c] = where
BY DEF ControlInv, ShapeInv, Go, Moves, engineVars, threadVars

\* The places of the click's steps, which nobody who arms or disarms reaches.
LEMMA OfTheClick ==
    ASSUME ControlInv, NEW c \in Clients,
           at[c] \in {"click", "hold", "hand", "start", "ask", "unlock", "tidy"}
    PROVE  /\ command[c] \notin {"arm", "disarm", "shutdown"}
           /\ ~Waiting(c) /\ ~Closing(c)
BY DEF ControlInv, PlaceInv, ArmPlaces, DisarmPlaces, Leaving, StopPlaces, Waiting, Closing

LEMMA GivenKeeps ==
    ASSUME ControlInv, NEW c \in Clients, NEW what \in AllCommands, Give(c, what)
    PROVE  ControlInv'
<1> /\ at' = [at EXCEPT ![c] = "begin"]
    /\ mine' = [mine EXCEPT ![c] = 0]
    /\ command' = [command EXCEPT ![c] = what]
    /\ UNCHANGED <<openLock, open, holders, current, host, stop, answer, turn>>
  BY DEF Give, engineVars, threadVars
<1>1. Moves(c)
  <2>1. host \in Seq(HostStates)
    BY DEF ControlInv, ShapeInv
  <2>2. 0 \in 0 .. Len(host)
    BY <2>1, LenProperties
  <2>3. /\ at \in [Clients -> Places] /\ mine \in [Clients -> 0 .. Len(host)]
        /\ command \in [Clients -> AllCommands \cup {"none", "lastStop"}]
    BY DEF ControlInv, ShapeInv
  <2>4. mine' \in [Clients -> 0 .. Len(host)]
    BY <2>2, <2>3
  <2>5. at' \in [Clients -> Places]
    BY <2>3 DEF Places
  <2>6. command' \in [Clients -> AllCommands \cup {"none", "lastStop"}]
    BY <2>3
  <2> QED BY <2>3, <2>4, <2>5, <2>6 DEF Moves
<1>2. at'[c] = "begin" /\ at[c] = "idle"
  BY DEF ControlInv, ShapeInv, Give
<1>3. ~Waiting(c) /\ ~Closing(c) /\ Aside(c)'
  BY <1>2 DEF Waiting, Closing, Aside, Leaving
<1> QED BY <1>1, <1>3, AsideKeeps DEF Give, phaseVars, audioVars

LEMMA RecordKeeps ==
    ASSUME ControlInv, NEW c \in Clients,
           \/ Record(c) \/ RecordClick(c) \/ Unlock(c) \/ Shutdown(c) \/ ShutdownWaits(c)
           \/ ShutdownLooks(c) \/ ArmAsked(c)
    PROVE  ControlInv'
<1>1. UNCHANGED <<phase, lease, tap, mine, command>>
  BY DEF Record, RecordClick, Unlock, Shutdown, ShutdownWaits, ShutdownLooks, ArmAsked, phaseVars, audioVars, givenVars
<1>2. mine' \in [Clients -> 0 .. Len(host)]
  BY <1>1 DEF ControlInv, ShapeInv
<1>3. UNCHANGED <<engineVars, threadVars>>
  BY DEF Record, RecordClick, Unlock, Shutdown, ShutdownWaits, ShutdownLooks, ArmAsked
<1>4. CASE Record(c) \/ RecordClick(c) \/ Unlock(c)
  <2>1. \E where \in {"idle", "unlock", "click"} : Go(c, where)
    BY <1>4 DEF Record, RecordClick, Unlock, Done
  <2>2. PICK where \in {"idle", "unlock", "click"} : Go(c, where)
    BY <2>1
  <2>3. Moves(c) /\ at'[c] = where
    <3>1. where \in Places
      BY DEF Places
    <3>2. UNCHANGED <<engineVars, threadVars, command>>
      BY <1>1, <1>3
    <3>3. \A d \in Clients \ {c} : mine'[d] = mine[d]
      BY <1>1
    <3> QED BY <1>2, <2>2, <3>1, <3>2, <3>3, Went
  <2>4. ~Waiting(c) /\ ~Closing(c)
    BY <1>4 DEF Record, RecordClick, Unlock, At, Waiting, Closing
  <2>5. where = "idle" \/ command[c] \notin {"arm", "disarm", "shutdown"}
    BY <1>4, OfTheClick DEF Record, RecordClick, Unlock, At, RecordCommands
  <2>6. Aside(c)'
    BY <1>1, <2>3, <2>5 DEF Aside, Waiting, Closing, Leaving
  <2> QED BY <1>1, <2>3, <2>4, <2>6, AsideKeeps
<1>5. CASE Shutdown(c) \/ ShutdownWaits(c) \/ ShutdownLooks(c) \/ ArmAsked(c)
  <2>1. \E where \in {"wait", "look", "last", "disarm", "idle", "claim"} :
           Go(c, where) /\ (command[c] # "arm" \/ where \in {"idle", "claim"})
                        /\ (command[c] = "arm" \/ where # "claim")
    <3>1. ArmAsked(c) => command[c] = "arm" /\ \E where \in {"idle", "claim"} : Go(c, where)
      BY DEF ArmAsked, At, Done
    <3>2. Shutdown(c) \/ ShutdownWaits(c) \/ ShutdownLooks(c) =>
             /\ command[c] # "arm" /\ \E where \in {"wait", "look", "last", "disarm"} : Go(c, where)
      BY DEF Shutdown, ShutdownWaits, ShutdownLooks, At, ControlInv, PlaceInv, ArmPlaces, Leaving
    <3> QED BY <1>5, <3>1, <3>2
  <2>2. PICK where \in {"wait", "look", "last", "disarm", "idle", "claim"} :
           Go(c, where) /\ (command[c] # "arm" \/ where \in {"idle", "claim"})
                        /\ (command[c] = "arm" \/ where # "claim")
    BY <2>1
  <2>3. Moves(c) /\ at'[c] = where
    <3>1. where \in Places
      BY DEF Places
    <3>2. UNCHANGED <<engineVars, threadVars, command>>
      BY <1>1, <1>3
    <3>3. \A d \in Clients \ {c} : mine'[d] = mine[d]
      BY <1>1
    <3> QED BY <1>2, <2>2, <3>1, <3>2, <3>3, Went
  <2>4. ~Waiting(c) /\ ~Closing(c)
    BY <1>5 DEF Shutdown, ShutdownWaits, ShutdownLooks, ArmAsked, At, Waiting, Closing
  <2>5. command[c] \in {"disarm", "shutdown"} => where # "claim"
    BY <2>2
  <2>6. Aside(c)'
    BY <1>1, <2>2, <2>3, <2>5 DEF Aside, Waiting, Closing, Leaving
  <2> QED BY <1>1, <2>3, <2>4, <2>6, AsideKeeps
<1> QED BY <1>4, <1>5

LEMMA ClickKeeps ==
    ASSUME ControlInv, NEW c \in Clients,
           \/ StartClick(c) \/ HoldClick(c) \/ ClickHeld(c) \/ ByHand(c) \/ HandStarts(c)
           \/ Preview(c) \/ PreviewAsks(c) \/ Tidy(c) \/ Tidied(c)
    PROVE  ControlInv'
<1>1. UNCHANGED <<phase, lease, tap, command, engineVars, threadVars>>
  BY DEF StartClick, HoldClick, ClickHeld, ByHand, HandStarts, Preview, PreviewAsks, Tidy, Tidied,
         phaseVars, audioVars, givenVars
<1>2. mine' = mine \/ mine' = [mine EXCEPT ![c] = current]
  BY DEF StartClick, HoldClick, ClickHeld, ByHand, HandStarts, Preview, PreviewAsks, Tidy, Tidied
<1>3. /\ mine' \in [Clients -> 0 .. Len(host)]
      /\ \A d \in Clients \ {c} : mine'[d] = mine[d]
  BY <1>2 DEF ControlInv, ShapeInv
<1>4. command[c] \notin {"arm", "disarm", "shutdown"} /\ ~Waiting(c) /\ ~Closing(c)
  BY OfTheClick DEF StartClick, HoldClick, ClickHeld, ByHand, HandStarts, Preview, PreviewAsks,
     Tidy, Tidied, At, Waiting, Closing
<1> DEFINE Onward == {"idle", "click", "hold", "acquire", "unlock", "hand", "ask", "start", "tidy"}
<1>5. \E where \in Onward : Go(c, where)
  BY <1>4 DEF StartClick, HoldClick, ClickHeld, ByHand, HandStarts, Preview, PreviewAsks, Tidy, Tidied,
     Done, NotAcquired
<1>6. PICK where \in Onward : Go(c, where)
  BY <1>5
<1>7. Moves(c) /\ at'[c] = where
  <2>1. where \in Places
    BY DEF Places
  <2>2. UNCHANGED <<engineVars, threadVars, command>>
    BY <1>1
  <2> QED BY <1>3, <1>6, <2>1, <2>2, Went
<1>8. Aside(c)'
  BY <1>1, <1>4, <1>7 DEF Aside, Waiting, Closing, Leaving
<1> QED BY <1>1, <1>4, <1>7, <1>8, AsideKeeps

LEMMA StopClickKeeps ==
    ASSUME ControlInv, NEW c \in Clients, StopClick(c)
    PROVE  ControlInv'
<1>1. /\ UNCHANGED <<phase, lease, tap, mine>>
      /\ UNCHANGED <<openLock, open, holders, current, host, stop, answer, turn>>
      /\ command' = [command EXCEPT ![c] = IF @ = "shutdown" THEN "lastStop" ELSE @]
      /\ at' = [at EXCEPT ![c] = "letGo"]
      /\ at[c] \in {"begin", "last"} /\ command[c] \in {"stopClick", "shutdown"}
  BY DEF StopClick, Go, At, phaseVars, engineVars, threadVars
<1>2. /\ at \in [Clients -> Places] /\ mine \in [Clients -> 0 .. Len(host)]
      /\ command \in [Clients -> AllCommands \cup {"none", "lastStop"}]
  BY DEF ControlInv, ShapeInv
<1>3. /\ command' \in [Clients -> AllCommands \cup {"none", "lastStop"}]
      /\ at'[c] = "letGo" /\ command'[c] \in {"stopClick", "lastStop"}
  BY <1>1, <1>2
<1>4. at' \in [Clients -> Places]
  BY <1>1, <1>2 DEF Places, StopPlaces
<1>5. Moves(c)
  BY <1>1, <1>2, <1>3, <1>4 DEF Moves
<1>6. ~Waiting(c) /\ ~Closing(c) /\ Aside(c)'
  BY <1>1, <1>3 DEF Waiting, Closing, Aside, Leaving
<1> QED BY <1>1, <1>5, <1>6, AsideKeeps

\* Letting go of the click, for a take or for itself, while disarming or not.
LEMMA LettingGoKeeps ==
    ASSUME ControlInv, NEW c \in Clients,
           \/ Stop(c) \/ DisarmEnds(c) \/ StopTheTakesClick(c) \/ TakesClickStops(c)
           \/ LetGoOfClick(c) \/ RingOut(c)
    PROVE  ControlInv'
<1>1. UNCHANGED <<phase, lease, tap, mine, command, engineVars, threadVars>>
  BY DEF Stop, DisarmEnds, StopTheTakesClick, TakesClickStops, LetGoOfClick, RingOut,
         phaseVars, audioVars, givenVars
<1> DEFINE Onward == {"takesClick", "stopTakes", "letGo", "ringOut", "releaseMetronome"}
<1>2. \/ at[c] = "begin" /\ command[c] = "stop"
      \/ at[c] = "end"
      \/ at[c] \in {"takesClick", "stopTakes", "letGo", "ringOut"}
  BY DEF Stop, DisarmEnds, StopTheTakesClick, TakesClickStops, LetGoOfClick, RingOut, At
<1>3. command[c] # "arm"
  BY <1>2 DEF ControlInv, PlaceInv, ArmPlaces, Leaving
<1>4. PICK where \in Places :
          /\ Go(c, where)
          /\ \/ where \in Onward
             \/ where = "detach" /\ command[c] \in {"disarm", "shutdown"} /\ at[c] # "end"
             \/ where \in {"idle", "unlock"} /\ command[c] \notin {"disarm", "shutdown"}
  <2>1. Released(command[c], "metronome") =
            IF command[c] \in {"disarm", "shutdown"} THEN "detach" ELSE NotAcquired(command[c])
    BY DEF Released
  <2>2. Onward \cup {"detach", "idle", "unlock"} \subseteq Places
    BY DEF Places, StopPlaces
  <2>3. \/ \E where \in Onward : Go(c, where)
        \/ at[c] # "end" /\ Go(c, Released(command[c], "metronome"))
        \/ command[c] = "stop" /\ Go(c, "idle")
    BY DEF Stop, DisarmEnds, StopTheTakesClick, TakesClickStops, LetGoOfClick, RingOut, At, Done
  <2>4. NotAcquired(command[c]) \in {"idle", "unlock"}
    BY <1>3 DEF NotAcquired
  <2> QED BY <1>2, <2>1, <2>2, <2>3, <2>4
<1>5. Moves(c) /\ at'[c] = where
  <2>1. mine' \in [Clients -> 0 .. Len(host)] /\ \A d \in Clients \ {c} : mine'[d] = mine[d]
    BY <1>1 DEF ControlInv, ShapeInv
  <2>2. UNCHANGED <<engineVars, threadVars, command>>
    BY <1>1
  <2> QED BY <1>4, <2>1, <2>2, Went
<1>6. command'[c] = command[c] /\ UNCHANGED <<phase, lease, tap>>
  BY <1>1
<1>7. CASE command[c] \in {"disarm", "shutdown"}
  <2>1. at[c] \in ({"end", "detach"} \cup StopPlaces) \ {"closeMetronome"}
    BY <1>2, <1>7 DEF StopPlaces
  <2>2. /\ at'[c] \in ({"end", "detach"} \cup StopPlaces) \ {"closeMetronome"}
        /\ at'[c] \notin {"end"}
    BY <1>4, <1>5, <1>7 DEF StopPlaces
  <2>3. Disarming(c)
    BY <1>7, <2>1 DEF Disarming, DisarmPlaces
  <2> QED BY <1>5, <1>6, <2>1, <2>2, <2>3, DisarmGoesOn
<1>8. CASE command[c] \notin {"disarm", "shutdown"}
  <2>1. at'[c] \in Onward \cup {"idle", "unlock"}
    BY <1>4, <1>5, <1>8
  <2>2. ~Waiting(c) /\ ~Closing(c)
    BY <1>2 DEF Waiting, Closing
  <2>3. Aside(c)'
    BY <1>3, <1>6, <1>8, <2>1 DEF Aside, Waiting, Closing, Leaving
  <2> QED BY <1>5, <1>6, <2>2, <2>3, AsideKeeps
<1> QED BY <1>7, <1>8

-----------------------------------------------------------------------------
(* The steps that change the phase or the tap.                             *)

LEMMA Goes ==
    ASSUME ControlInv, NEW c \in Clients, NEW where \in Places, Go(c, where),
           UNCHANGED <<mine, command, engineVars, threadVars>>
    PROVE  /\ Moves(c) /\ at'[c] = where
           /\ UNCHANGED <<mine, command>>
           /\ \A d \in Clients \ {c} : at'[d] = at[d]
           /\ \A n : Held(n)' <=> Held(n)
BY DEF ControlInv, ShapeInv, Go, Moves, engineVars, threadVars, Held

LEMMA ArmKeeps ==
    ASSUME ControlInv, NEW c \in Clients, Arm(c)
    PROVE  ControlInv'
<1>1. UNCHANGED <<lease, tap, mine, command, engineVars, threadVars>>
  BY DEF Arm, phaseVars, audioVars, givenVars
<1>2. command[c] = "arm" /\ at[c] = "claim" /\ ~Waiting(c) /\ ~Closing(c)
  BY DEF Arm, At, Waiting, Closing
<1>3. CASE phase = "off" /\ phase' = "arming" /\ Go(c, "acquire")
  <2>1. /\ Moves(c) /\ at'[c] = "acquire" /\ UNCHANGED <<mine, command>>
        /\ \A d \in Clients \ {c} : at'[d] = at[d]
        /\ \A n : Held(n)' <=> Held(n)
    <3>1. "acquire" \in Places BY DEF Places
    <3> QED BY <1>1, <1>3, <3>1, Goes
  <2>2. ShapeInv' /\ HostInv' /\ LockInv' /\ OpenInv'
    <3>1. ~Waiting(c)' /\ ~Closing(c)'
      BY <2>1 DEF Waiting, Closing
    <3> QED BY <1>2, <2>1, <3>1, EngineStays
  <2>3. PlaceInv'
    BY <1>2, <2>1 DEF ControlInv, PlaceInv, ArmPlaces, Leaving
  <2>4. Free /\ Free'
    BY <1>1, <1>3 DEF ControlInv, PhaseInv, Free, engineVars
  <2>5. \A d \in Clients : ~Arming(d) /\ ~Disarming(d)
    BY <1>3 DEF ControlInv, PhaseInv
  <2>6. \A d \in Clients : ~Disarming(d)' /\ (Arming(d)' => d = c)
    BY <1>2, <2>1, <2>5 DEF Arming, Disarming
  <2>7. PhaseInv'
    BY <1>3, <2>1, <2>4, <2>6 DEF PhaseInv
  <2> QED BY <2>2, <2>3, <2>7 DEF ControlInv
<1>4. CASE UNCHANGED phase /\ Go(c, "idle")
  <2>1. Moves(c) /\ at'[c] = "idle"
    <3>1. "idle" \in Places BY DEF Places
    <3> QED BY <1>1, <1>4, <3>1, Goes
  <2>2. Aside(c)'
    BY <2>1 DEF Aside, Waiting, Closing, Leaving
  <2> QED BY <1>1, <1>2, <1>4, <2>1, <2>2, AsideKeeps
<1> QED BY <1>3, <1>4 DEF Arm, Done

\* Who arms, or disarms, is the only one who does either.
LEMMA Alone ==
    ASSUME ControlInv, NEW c \in Clients, Arming(c) \/ Disarming(c)
    PROVE  \A d \in Clients \ {c} : ~Arming(d) /\ ~Disarming(d)
BY DEF ControlInv, PhaseInv

LEMMA AttachKeeps ==
    ASSUME ControlInv, NEW c \in Clients, Attach(c)
    PROVE  ControlInv'
<1>1. UNCHANGED <<phase, lease, mine, command, engineVars, threadVars>>
  BY DEF Attach, phaseVars, givenVars
<1>2. command[c] = "arm" /\ at[c] = "attach" /\ ~Waiting(c) /\ ~Closing(c) /\ Arming(c)
  BY DEF Attach, Waiting, Closing, Arming, ControlInv, PlaceInv
<1>3. Held(mine[c]) /\ tap = 0 /\ phase = "arming"
  BY <1>2 DEF ControlInv, PhaseInv
<1>4. PICK where \in {"armed", "releaseRecorder"} :
          /\ Go(c, where)
          /\ tap' = IF where = "armed" THEN mine[c] ELSE 0
  BY <1>3 DEF Attach
<1>5. /\ Moves(c) /\ at'[c] = where /\ UNCHANGED <<mine, command>>
      /\ \A d \in Clients \ {c} : at'[d] = at[d]
      /\ \A n : Held(n)' <=> Held(n)
  <2>1. where \in Places BY DEF Places, Leaving
  <2> QED BY <1>1, <1>4, <2>1, Goes
<1>6. ShapeInv' /\ HostInv' /\ LockInv' /\ OpenInv'
  <2>1. ~Waiting(c)' /\ ~Closing(c)'
    BY <1>5 DEF Waiting, Closing
  <2> QED BY <1>2, <1>5, <2>1, EngineStays
<1>7. PlaceInv'
  BY <1>2, <1>5 DEF ControlInv, PlaceInv, ArmPlaces, Leaving
<1>8. \A d \in Clients : ~Disarming(d)' /\ (Arming(d)' => d = c)
  BY <1>2, <1>5, Alone DEF Arming, Disarming
<1>9. PhaseInv'
  BY <1>1, <1>3, <1>4, <1>5, <1>8 DEF PhaseInv
<1> QED BY <1>6, <1>7, <1>9 DEF ControlInv

LEMMA ArmedKeeps ==
    ASSUME ControlInv, NEW c \in Clients, Armed(c)
    PROVE  ControlInv'
<1>1. UNCHANGED <<tap, mine, command, engineVars, threadVars>>
  BY DEF Armed, audioVars, givenVars
<1>2. command[c] = "arm" /\ at[c] = "armed" /\ ~Waiting(c) /\ ~Closing(c) /\ Arming(c)
  BY DEF Armed, Waiting, Closing, Arming, ControlInv, PlaceInv
<1>3. Held(mine[c]) /\ tap = mine[c]
  BY <1>2 DEF ControlInv, PhaseInv
<1>4. Go(c, "idle") /\ phase' = "armed" /\ lease' = mine[c]
  BY DEF Armed, Done
<1>5. /\ Moves(c) /\ at'[c] = "idle" /\ UNCHANGED <<mine, command>>
      /\ \A d \in Clients \ {c} : at'[d] = at[d]
      /\ \A n : Held(n)' <=> Held(n)
  <2>1. "idle" \in Places BY DEF Places
  <2> QED BY <1>1, <1>4, <2>1, Goes
<1>6. ShapeInv' /\ HostInv' /\ LockInv' /\ OpenInv'
  <2>1. ~Waiting(c)' /\ ~Closing(c)'
    BY <1>5 DEF Waiting, Closing
  <2> QED BY <1>2, <1>5, <2>1, EngineStays
<1>7. PlaceInv'
  BY <1>2, <1>5 DEF ControlInv, PlaceInv, ArmPlaces, Leaving
<1>8. \A d \in Clients : ~Disarming(d)' /\ ~Arming(d)'
  BY <1>2, <1>5, Alone DEF Arming, Disarming
<1>9. Held(lease)'
  BY <1>3, <1>4, <1>1 DEF Held, engineVars
<1>10. PhaseInv'
  BY <1>1, <1>3, <1>4, <1>8, <1>9 DEF PhaseInv
<1> QED BY <1>6, <1>7, <1>10 DEF ControlInv

LEMMA OffKeeps ==
    ASSUME ControlInv, NEW c \in Clients, Off(c)
    PROVE  ControlInv'
<1>1. UNCHANGED <<tap, mine, command, engineVars, threadVars>>
  BY DEF Off, audioVars, givenVars
<1>2. at[c] = "off" /\ ~Waiting(c) /\ ~Closing(c) /\ command[c] \in {"arm", "disarm", "shutdown"}
  BY DEF Off, Waiting, Closing, ControlInv, PlaceInv, Leaving
<1>3. Arming(c) \/ Disarming(c)
  BY <1>2 DEF Arming, Disarming, DisarmPlaces, Leaving
<1>4. Free
  BY <1>2, <1>3 DEF ControlInv, PhaseInv
<1>5. PICK where \in {"idle", "last"} :
          /\ Go(c, where) /\ phase' = "off"
          /\ where = "last" => command[c] = "shutdown"
  BY DEF Off
<1>6. /\ Moves(c) /\ at'[c] = where /\ UNCHANGED <<mine, command>>
      /\ \A d \in Clients \ {c} : at'[d] = at[d]
      /\ \A n : Held(n)' <=> Held(n)
  <2>1. where \in Places BY DEF Places
  <2> QED BY <1>1, <1>5, <2>1, Goes
<1>7. ShapeInv' /\ HostInv' /\ LockInv' /\ OpenInv'
  <2>1. ~Waiting(c)' /\ ~Closing(c)'
    BY <1>6 DEF Waiting, Closing
  <2> QED BY <1>2, <1>6, <2>1, EngineStays
<1>8. PlaceInv'
  BY <1>5, <1>6 DEF ControlInv, PlaceInv, ArmPlaces, DisarmPlaces, StopPlaces, Leaving
<1>9. \A d \in Clients : ~Disarming(d)' /\ ~Arming(d)'
  BY <1>3, <1>5, <1>6, Alone DEF Arming, Disarming, DisarmPlaces, StopPlaces, Leaving
<1>10. Free'
  BY <1>1, <1>4 DEF Free, engineVars
<1>11. PhaseInv'
  BY <1>5, <1>9, <1>10 DEF PhaseInv
<1> QED BY <1>7, <1>8, <1>11 DEF ControlInv

LEMMA DisarmKeeps ==
    ASSUME ControlInv, NEW c \in Clients, Disarm(c)
    PROVE  ControlInv'
<1>1. UNCHANGED <<lease, tap, mine, command, engineVars, threadVars>>
  BY DEF Disarm, phaseVars, audioVars, givenVars
<1>2. /\ command[c] \in {"disarm", "shutdown"} /\ at[c] \in {"begin", "disarm"}
      /\ ~Waiting(c) /\ ~Closing(c)
  BY DEF Disarm, At, Waiting, Closing
<1>3. CASE phase = "armed" /\ phase' = "disarming" /\ Go(c, "end")
  <2>1. /\ Moves(c) /\ at'[c] = "end" /\ UNCHANGED <<mine, command>>
        /\ \A d \in Clients \ {c} : at'[d] = at[d]
        /\ \A n : Held(n)' <=> Held(n)
    <3>1. "end" \in Places BY DEF Places
    <3> QED BY <1>1, <1>3, <3>1, Goes
  <2>2. ShapeInv' /\ HostInv' /\ LockInv' /\ OpenInv'
    <3>1. ~Waiting(c)' /\ ~Closing(c)'
      BY <2>1 DEF Waiting, Closing
    <3> QED BY <1>2, <2>1, <3>1, EngineStays
  <2>3. PlaceInv'
    BY <1>2, <2>1 DEF ControlInv, PlaceInv, DisarmPlaces, Leaving
  <2>4. Held(lease)' /\ tap' = lease'
    BY <1>1, <1>3 DEF ControlInv, PhaseInv, Held, engineVars
  <2>5. \A d \in Clients : ~Arming(d) /\ ~Disarming(d)
    BY <1>3 DEF ControlInv, PhaseInv
  <2>6. \A d \in Clients : ~Arming(d)' /\ (Disarming(d)' => d = c)
    BY <1>2, <2>1, <2>5 DEF Arming, Disarming
  <2>7. PhaseInv'
    BY <1>3, <2>1, <2>4, <2>6 DEF PhaseInv
  <2> QED BY <2>2, <2>3, <2>7 DEF ControlInv
<1>4. CASE UNCHANGED phase /\ Go(c, IF command[c] = "shutdown" THEN "last" ELSE "idle")
  <2>1. PICK where \in {"idle", "last"} : Go(c, where)
    BY <1>4
  <2>2. Moves(c) /\ at'[c] = where
    <3>1. where \in Places BY DEF Places
    <3> QED BY <1>1, <2>1, <3>1, Goes
  <2>3. Aside(c)'
    BY <1>1, <1>2, <2>2 DEF Aside, Waiting, Closing, Leaving
  <2> QED BY <1>1, <1>2, <1>4, <2>2, <2>3, AsideKeeps
<1> QED BY <1>3, <1>4 DEF Disarm

LEMMA DetachKeeps ==
    ASSUME ControlInv, NEW c \in Clients, Detach(c)
    PROVE  ControlInv'
<1>1. UNCHANGED <<phase, lease, mine, command, engineVars, threadVars>>
  BY DEF Detach, phaseVars, givenVars
<1>2. /\ command[c] \in {"disarm", "shutdown"} /\ at[c] = "detach"
      /\ ~Waiting(c) /\ ~Closing(c) /\ Disarming(c)
  BY DEF Detach, Waiting, Closing, Disarming, DisarmPlaces, ControlInv, PlaceInv
<1>3. Held(lease) /\ tap = lease /\ phase = "disarming"
  BY <1>2 DEF ControlInv, PhaseInv
<1>4. Go(c, "releaseRecorder") /\ tap' = 0
  BY <1>3 DEF Detach
<1>5. /\ Moves(c) /\ at'[c] = "releaseRecorder" /\ UNCHANGED <<mine, command>>
      /\ \A d \in Clients \ {c} : at'[d] = at[d]
      /\ \A n : Held(n)' <=> Held(n)
  <2>1. "releaseRecorder" \in Places BY DEF Places, Leaving
  <2> QED BY <1>1, <1>4, <2>1, Goes
<1>6. ShapeInv' /\ HostInv' /\ LockInv' /\ OpenInv'
  <2>1. ~Waiting(c)' /\ ~Closing(c)'
    BY <1>5 DEF Waiting, Closing
  <2> QED BY <1>2, <1>5, <2>1, EngineStays
<1>7. PlaceInv'
  BY <1>2, <1>5 DEF ControlInv, PlaceInv, DisarmPlaces, Leaving
<1>8. \A d \in Clients : ~Arming(d)' /\ (Disarming(d)' => d = c)
  BY <1>2, <1>5, Alone DEF Arming, Disarming
<1>9. Held(lease)'
  BY <1>1, <1>3 DEF Held, engineVars
<1>10. PhaseInv'
  BY <1>1, <1>3, <1>4, <1>5, <1>8, <1>9 DEF PhaseInv, StopPlaces
<1> QED BY <1>6, <1>7, <1>10 DEF ControlInv

-----------------------------------------------------------------------------
(* The engine.                                                             *)

\* What a step of c, which neither arms nor disarms after it, keeps of the others.
LEMMA OthersKeepPhase ==
    ASSUME ControlInv, NEW c \in Clients, ~Arming(c)', ~Disarming(c)',
           \A d \in Clients \ {c} : at'[d] = at[d] /\ mine'[d] = mine[d] /\ command'[d] = command[d],
           UNCHANGED <<phase, lease, tap>>,
           \A n : Held(n)' <=> Held(n),
           Free' <=> Free
    PROVE  PhaseInv'
<1>1. \A d \in Clients \ {c} : /\ Arming(d)' <=> Arming(d)
                               /\ Disarming(d)' <=> Disarming(d)
                               /\ Held(mine[d])' <=> Held(mine[d])
  BY DEF Arming, Disarming, Held
<1>2. Held(lease)' <=> Held(lease)
  BY DEF Held
<1> QED BY <1>1, <1>2 DEF ControlInv, PhaseInv

\* Opening: who goes to the engine has not got the session yet.
LEMMA Acquiring ==
    ASSUME ControlInv, NEW c \in Clients, at[c] \in {"acquire", "await", "giveUp"}
    PROVE  /\ command[c] \notin {"disarm", "shutdown"}
           /\ command[c] = "arm" => Free /\ phase = "arming" /\ Arming(c)
           /\ command[c] = "arm" => \A d \in Clients \ {c} : ~Arming(d) /\ ~Disarming(d)
<1>1. command[c] \notin {"disarm", "shutdown"}
  BY DEF ControlInv, PlaceInv, DisarmPlaces, StopPlaces, Leaving
<1>2. command[c] = "arm" => Free /\ phase = "arming" /\ Arming(c)
  BY DEF ControlInv, PhaseInv, Arming
<1> QED BY <1>1, <1>2, Alone

\* Getting the session: the client that arms goes on to attach its tap there.
LEMMA GotKeepsPhase ==
    ASSUME ControlInv, NEW c \in Clients, at[c] \in {"acquire", "await"},
           NEW n \in Nat,
           at' = [at EXCEPT ![c] = Acquired(command[c], n)],
           mine' = [mine EXCEPT ![c] = n],
           holders' = holders \cup {UserOf(command[c])}, open' = n,
           open = n \/ holders = {},
           UNCHANGED <<phase, lease, tap, command>>
    PROVE  PlaceInv' /\ PhaseInv' /\ ~Waiting(c)' /\ ~Closing(c)'
<1>1. /\ at \in [Clients -> Places] /\ mine \in [Clients -> 0 .. Len(host)]
  BY DEF ControlInv, ShapeInv
<1>2. /\ at'[c] = Acquired(command[c], n) /\ mine'[c] = n
      /\ \A d \in Clients \ {c} : at'[d] = at[d] /\ mine'[d] = mine[d] /\ command'[d] = command[d]
  BY <1>1
<1>3. /\ command[c] \notin {"disarm", "shutdown"}
      /\ Acquired(command[c], n) \in {"attach", "hold", "releaseMetronome"}
  BY Acquiring DEF Acquired
<1>4. PlaceInv'
  BY <1>2, <1>3 DEF ControlInv, PlaceInv, ArmPlaces, Leaving, Acquired
<1>5. PhaseInv'
  <2>1. CASE command[c] = "arm"
    <3>1. Free /\ phase = "arming" /\ \A d \in Clients \ {c} : ~Arming(d) /\ ~Disarming(d)
      BY <2>1, Acquiring
    <3>2. at'[c] = "attach" /\ Held(mine[c])' /\ tap' = 0
      BY <1>2, <2>1, <3>1 DEF Acquired, Held, UserOf, Free
    <3>3. \A d \in Clients : ~Disarming(d)' /\ (Arming(d)' => d = c)
      BY <1>2, <1>3, <3>1 DEF Arming, Disarming
    <3> QED BY <3>1, <3>2, <3>3 DEF PhaseInv
  <2>2. CASE command[c] # "arm"
    <3>1. ~Arming(c)' /\ ~Disarming(c)'
      BY <1>3, <2>2 DEF Arming, Disarming
    <3>2. \A k : Held(k)' <=> Held(k)
      BY <2>2 DEF Held, UserOf
    <3>3. Free' <=> Free
      BY <2>2 DEF Free, UserOf
    <3> QED BY <1>2, <3>1, <3>2, <3>3, OthersKeepPhase
  <2> QED BY <2>1, <2>2
<1>6. ~Waiting(c)' /\ ~Closing(c)'
  BY <1>2, <1>3 DEF Waiting, Closing
<1> QED BY <1>4, <1>5, <1>6

LEMMA JoinKeeps ==
    ASSUME ControlInv, NEW c \in Clients, Join(c)
    PROVE  ControlInv'
<1>1. /\ at[c] = "acquire" /\ openLock = {} /\ open # 0
      /\ holders' = holders \cup {UserOf(command[c])}
      /\ mine' = [mine EXCEPT ![c] = open]
      /\ at' = [at EXCEPT ![c] = Acquired(command[c], open)]
      /\ UNCHANGED <<phase, lease, tap, command, openLock, open, current>>
      /\ UNCHANGED <<host, stop, answer, turn>>
  BY DEF Join, OpenFree, Hold, Go, phaseVars, threadVars, audioVars, givenVars
<1>2. open \in 0 .. Len(host) /\ open \in Nat
  <2>1. host \in Seq(HostStates) /\ open \in 0 .. Len(host)
    BY DEF ControlInv, ShapeInv
  <2> QED BY <2>1, LenProperties
<1>3. PlaceInv' /\ PhaseInv' /\ ~Waiting(c)' /\ ~Closing(c)'
  BY <1>1, <1>2, GotKeepsPhase
<1>4. \A d \in Clients : ~Waiting(d) /\ ~Closing(d) /\ ~Waiting(d)' /\ ~Closing(d)'
  <2>1. \A d \in Clients : ~Waiting(d) /\ ~Closing(d)
    BY <1>1 DEF ControlInv, LockInv
  <2>2. \A d \in Clients \ {c} : at'[d] = at[d]
    BY <1>1 DEF ControlInv, ShapeInv
  <2> QED BY <1>3, <2>1, <2>2 DEF Waiting, Closing
<1>5. ShapeInv'
  <2>1. holders' \subseteq {"recorder", "metronome"}
    BY <1>1 DEF ControlInv, ShapeInv, UserOf
  <2>2. at' \in [Clients -> Places]
    BY <1>1 DEF ControlInv, ShapeInv, Acquired, Places, StopPlaces
  <2>3. mine' \in [Clients -> 0 .. Len(host)]
    BY <1>1, <1>2 DEF ControlInv, ShapeInv
  <2> QED BY <1>1, <2>1, <2>2, <2>3 DEF ControlInv, ShapeInv
<1>6. HostInv'
  BY <1>1 DEF ControlInv, HostInv, Sessions
<1>7. LockInv'
  BY <1>1, <1>4 DEF ControlInv, LockInv, Sessions
<1>8. OpenInv'
  BY <1>1, <1>4 DEF ControlInv, OpenInv, Sessions
<1> QED BY <1>3, <1>5, <1>6, <1>7, <1>8 DEF ControlInv

\* The one client in the open lock that waits for its session to open.
LEMMA WaitingAlone ==
    ASSUME ControlInv, NEW c \in Clients, Waiting(c)
    PROVE  /\ openLock = {c} /\ open = 0 /\ holders = {} /\ current = 0
           /\ mine[c] \in Sessions /\ ~stop[mine[c]]
           /\ \A d \in Clients \ {c} : ~Waiting(d) /\ ~Closing(d)
           /\ ~Closing(c)
<1>1. c \in openLock
  BY DEF ControlInv, LockInv
<1>2. openLock = {c} /\ open = 0 /\ mine[c] \in Sessions /\ ~stop[mine[c]] /\ current = 0
  BY <1>1 DEF ControlInv, LockInv
<1>3. \A d \in Clients \ {c} : ~Waiting(d) /\ ~Closing(d)
  BY <1>2 DEF ControlInv, LockInv
<1>4. holders = {} /\ ~Closing(c)
  BY <1>2 DEF ControlInv, OpenInv, Waiting, Closing
<1> QED BY <1>2, <1>3, <1>4

\* The sessions, and what is kept for each.
LEMMA SessionFacts ==
    ASSUME ControlInv
    PROVE  /\ Len(host) \in Nat /\ 0 \notin Sessions /\ Sessions \subseteq Nat
           /\ DOMAIN host = Sessions /\ DOMAIN stop = Sessions /\ DOMAIN answer = Sessions
           /\ \A n \in Sessions : host[n] \in HostStates /\ stop[n] \in BOOLEAN /\ answer[n] \in Answers
<1>1. /\ host \in Seq(HostStates) /\ stop \in Seq(BOOLEAN) /\ answer \in Seq(Answers)
      /\ Len(stop) = Len(host) /\ Len(answer) = Len(host)
  BY DEF ControlInv, ShapeInv
<1>2. Len(host) \in Nat
  BY <1>1, LenProperties
<1>3. DOMAIN host = Sessions /\ DOMAIN stop = Sessions /\ DOMAIN answer = Sessions
  BY <1>1, LenProperties DEF Sessions
<1>4. \A n \in Sessions : host[n] \in HostStates /\ stop[n] \in BOOLEAN /\ answer[n] \in Answers
  BY <1>1, ElementOfSeq DEF Sessions
<1>5. 0 \notin Sessions /\ Sessions \subseteq Nat
  BY <1>2 DEF Sessions
<1> QED BY <1>2, <1>3, <1>4, <1>5

LEMMA StopSet ==
    ASSUME ControlInv, NEW n \in Sessions, stop' = [stop EXCEPT ![n] = TRUE]
    PROVE  /\ stop' \in Seq(BOOLEAN) /\ Len(stop') = Len(host)
           /\ \A k \in Sessions : stop'[k] = (k = n \/ stop[k])
<1>1. stop \in Seq(BOOLEAN) /\ Len(stop) = Len(host)
  BY DEF ControlInv, ShapeInv
<1>2. n \in 1 .. Len(stop)
  BY <1>1 DEF Sessions
<1>3. stop' \in Seq(BOOLEAN) /\ Len(stop') = Len(stop)
  BY <1>1, <1>2, ExceptSeq
<1>4. \A k \in Sessions : stop'[k] = (k = n \/ stop[k])
  BY SessionFacts
<1> QED BY <1>1, <1>3, <1>4

LEMMA AnswerSet ==
    ASSUME ControlInv, NEW n \in Sessions, NEW what \in Answers,
           answer' = [answer EXCEPT ![n] = IF @ = "awaited" THEN what ELSE @]
    PROVE  /\ answer' \in Seq(Answers) /\ Len(answer') = Len(host)
           /\ \A k \in Sessions :
                 answer'[k] = IF k = n /\ answer[k] = "awaited" THEN what ELSE answer[k]
<1>1. answer \in Seq(Answers) /\ Len(answer) = Len(host)
  BY DEF ControlInv, ShapeInv
<1>2. n \in 1 .. Len(answer) /\ answer[n] \in Answers
  BY <1>1, SessionFacts DEF Sessions
<1> DEFINE new == IF answer[n] = "awaited" THEN what ELSE answer[n]
<1>3. new \in Answers /\ answer' = [answer EXCEPT ![n] = new]
  BY <1>2
<1>4. answer' \in Seq(Answers) /\ Len(answer') = Len(answer)
  BY <1>1, <1>2, <1>3, ExceptSeq
<1>5. \A k \in Sessions :
          answer'[k] = IF k = n /\ answer[k] = "awaited" THEN what ELSE answer[k]
  BY SessionFacts
<1> QED BY <1>1, <1>4, <1>5

LEMMA OpenedKeeps ==
    ASSUME ControlInv, NEW c \in Clients, Opened(c)
    PROVE  ControlInv'
<1>1. /\ at[c] = "await" /\ answer[mine[c]] = "lease"
      /\ openLock' = openLock \ {c} /\ open' = mine[c] /\ current' = mine[c]
      /\ holders' = holders \cup {UserOf(command[c])}
      /\ mine' = [mine EXCEPT ![c] = mine[c]]
      /\ at' = [at EXCEPT ![c] = Acquired(command[c], mine[c])]
      /\ UNCHANGED <<phase, lease, tap, command, host, stop, answer, turn>>
  BY DEF Opened, Hold, Go, phaseVars, threadVars, audioVars, givenVars
<1>2. /\ openLock = {c} /\ open = 0 /\ holders = {} /\ current = 0
      /\ mine[c] \in Sessions /\ ~stop[mine[c]]
      /\ \A d \in Clients \ {c} : ~Waiting(d) /\ ~Closing(d)
  BY <1>1, WaitingAlone DEF Waiting
<1>3. mine[c] \in Nat /\ mine[c] # 0 /\ mine[c] \in 0 .. Len(host)
  <2>1. Len(host) \in Nat
    BY LenProperties DEF ControlInv, ShapeInv
  <2> QED BY <1>2, <2>1 DEF Sessions
<1>4. PlaceInv' /\ PhaseInv' /\ ~Waiting(c)' /\ ~Closing(c)'
  BY <1>1, <1>2, <1>3, GotKeepsPhase
<1>5. mine' = mine
  BY <1>1 DEF ControlInv, ShapeInv
<1>6. \A d \in Clients : ~Waiting(d)' /\ ~Closing(d)'
  <2>1. \A d \in Clients \ {c} : at'[d] = at[d]
    BY <1>1 DEF ControlInv, ShapeInv
  <2> QED BY <1>2, <1>4, <2>1 DEF Waiting, Closing
<1>7. ShapeInv'
  <2>1. holders' \subseteq {"recorder", "metronome"}
    BY <1>1 DEF ControlInv, ShapeInv, UserOf
  <2>2. at' \in [Clients -> Places]
    BY <1>1 DEF ControlInv, ShapeInv, Acquired, Places, StopPlaces
  <2> QED BY <1>1, <1>3, <1>5, <2>1, <2>2 DEF ControlInv, ShapeInv
<1>8. HostInv'
  BY <1>1 DEF ControlInv, HostInv, Sessions
<1>9. LockInv'
  BY <1>1, <1>2, <1>6 DEF LockInv
<1>10. OpenInv'
  <2>1. open' # 0 /\ holders' # {}
    BY <1>1, <1>3
  <2>2. host'[open'] = "streaming" /\ ~stop'[open']
    BY <1>1, <1>2 DEF ControlInv, HostInv
  <2>3. ASSUME NEW n \in Sessions
        PROVE  n = open' \/ host'[n] = "closed" \/ stop'[n]
    <3>1. \A d \in Clients : Waiting(d) /\ mine[d] = n => n = open'
      BY <1>1, <1>2
    <3>2. n # open
      BY <1>2, <2>3, SessionFacts
    <3> QED BY <1>1, <3>1, <3>2 DEF ControlInv, OpenInv
  <2> QED BY <1>1, <2>1, <2>2, <2>3 DEF OpenInv, Sessions
<1> QED BY <1>4, <1>7, <1>8, <1>9, <1>10 DEF ControlInv

\* Without the session the client that arms is off again.
LEMMA MissedKeepsPhase ==
    ASSUME ControlInv, NEW c \in Clients, at[c] \in {"await", "giveUp"},
           at' = [at EXCEPT ![c] = NotAcquired(command[c])],
           UNCHANGED <<phase, lease, tap, command, mine, open, holders>>
    PROVE  PlaceInv' /\ PhaseInv' /\ ~Waiting(c)' /\ ~Closing(c)'
<1>1. at \in [Clients -> Places]
  BY DEF ControlInv, ShapeInv
<1>2. /\ at'[c] = NotAcquired(command[c])
      /\ \A d \in Clients \ {c} : at'[d] = at[d] /\ mine'[d] = mine[d] /\ command'[d] = command[d]
  BY <1>1
<1>3. /\ command[c] \notin {"disarm", "shutdown"}
      /\ NotAcquired(command[c]) \in {"off", "unlock", "idle"}
      /\ NotAcquired(command[c]) = "off" <=> command[c] = "arm"
  BY Acquiring DEF NotAcquired, RecordCommands
<1>4. PlaceInv'
  BY <1>2, <1>3 DEF ControlInv, PlaceInv, ArmPlaces, Leaving
<1>5. /\ \A n : Held(n)' <=> Held(n)
      /\ Free' <=> Free
  BY DEF Held, Free
<1>6. PhaseInv'
  <2>1. CASE command[c] = "arm"
    <3>1. Free /\ phase = "arming" /\ \A d \in Clients \ {c} : ~Arming(d) /\ ~Disarming(d)
      BY <2>1, Acquiring
    <3>2. \A d \in Clients : ~Disarming(d)' /\ (Arming(d)' => d = c)
      BY <1>2, <1>3, <3>1 DEF Arming, Disarming
    <3> QED BY <1>2, <1>3, <1>5, <2>1, <3>1, <3>2 DEF PhaseInv
  <2>2. CASE command[c] # "arm"
    <3>1. ~Arming(c)' /\ ~Disarming(c)'
      BY <1>3, <2>2 DEF Arming, Disarming
    <3> QED BY <1>2, <1>5, <3>1, OthersKeepPhase
  <2> QED BY <2>1, <2>2
<1>7. ~Waiting(c)' /\ ~Closing(c)'
  BY <1>2, <1>3 DEF Waiting, Closing
<1> QED BY <1>4, <1>6, <1>7

LEMMA MissedKeeps ==
    ASSUME ControlInv, NEW c \in Clients, NotOpened(c) \/ GiveUp(c)
    PROVE  ControlInv'
<1>1. /\ at[c] \in {"await", "giveUp"}
      /\ at' = [at EXCEPT ![c] = NotAcquired(command[c])]
      /\ openLock' = openLock \ {c}
      /\ UNCHANGED <<phase, lease, tap, command, mine, open, holders, current, host, turn>>
  BY DEF NotOpened, GiveUp, Go, phaseVars, threadVars, audioVars, givenVars
<1>2. /\ openLock = {c} /\ open = 0 /\ holders = {} /\ current = 0
      /\ mine[c] \in Sessions /\ ~stop[mine[c]]
      /\ \A d \in Clients \ {c} : ~Waiting(d) /\ ~Closing(d)
  BY <1>1, WaitingAlone DEF Waiting
<1>3. PlaceInv' /\ PhaseInv' /\ ~Waiting(c)' /\ ~Closing(c)'
  BY <1>1, MissedKeepsPhase
<1>4. \A d \in Clients : ~Waiting(d)' /\ ~Closing(d)'
  <2>1. \A d \in Clients \ {c} : at'[d] = at[d]
    BY <1>1 DEF ControlInv, ShapeInv
  <2> QED BY <1>2, <1>3, <2>1 DEF Waiting, Closing
<1>5. \/ UNCHANGED <<stop, answer>> /\ host[mine[c]] = "closed"
      \/ /\ stop' = [stop EXCEPT ![mine[c]] = TRUE]
         /\ answer' = [answer EXCEPT ![mine[c]] = IF @ = "awaited" THEN "givenUp" ELSE @]
  BY DEF NotOpened, GiveUp, threadVars
<1>6. DOMAIN stop = Sessions /\ DOMAIN answer = Sessions
  BY SessionFacts
<1>7. ShapeInv'
  <2>1. at' \in [Clients -> Places]
    BY <1>1 DEF ControlInv, ShapeInv, NotAcquired, Places, Leaving, RecordCommands
  <2>2. stop' \in Seq(BOOLEAN) /\ Len(stop') = Len(host)
    BY <1>2, <1>5, StopSet DEF ControlInv, ShapeInv
  <2>3. answer' \in Seq(Answers) /\ Len(answer') = Len(host)
    <3>1. "givenUp" \in Answers
      BY DEF Answers
    <3> QED BY <1>2, <1>5, <3>1, AnswerSet DEF ControlInv, ShapeInv
  <2> QED BY <1>1, <2>1, <2>2, <2>3 DEF ControlInv, ShapeInv
<1>8. HostInv'
  BY <1>1, <1>2, <1>5, <1>6 DEF ControlInv, HostInv, Sessions
<1>9. LockInv'
  BY <1>1, <1>2, <1>4 DEF LockInv
<1>10. OpenInv'
  <2>1. \A n \in Sessions : host'[n] = "closed" \/ stop'[n]
    <3>1. ASSUME NEW n \in Sessions
          PROVE  host[n] = "closed" \/ stop[n] \/ n = mine[c]
      <4>1. n # open
        BY <1>2, <3>1, SessionFacts
      <4> QED BY <1>2, <4>1 DEF ControlInv, OpenInv
    <3> QED BY <1>1, <1>2, <1>5, <1>6, <3>1
  <2> QED BY <1>1, <1>2, <2>1 DEF OpenInv, Sessions
<1> QED BY <1>3, <1>7, <1>8, <1>9, <1>10 DEF ControlInv

LEMMA TimedOutKeeps ==
    ASSUME ControlInv, NEW c \in Clients, TimedOut(c)
    PROVE  ControlInv'
<1>1. /\ at[c] = "await" /\ at' = [at EXCEPT ![c] = "giveUp"]
      /\ UNCHANGED <<phase, lease, tap, mine, command>>
      /\ UNCHANGED <<openLock, open, holders, current, host, stop, answer, turn>>
  BY DEF TimedOut, Go, phaseVars, engineVars, threadVars, audioVars, givenVars
<1>2. at'[c] = "giveUp" /\ \A d \in Clients \ {c} : at'[d] = at[d]
  BY <1>1 DEF ControlInv, ShapeInv
<1>3. \A d \in Clients : /\ Waiting(d)' <=> Waiting(d)
                         /\ Closing(d)' <=> Closing(d)
                         /\ Arming(d)' <=> Arming(d)
                         /\ Disarming(d)' <=> Disarming(d)
  BY <1>1, <1>2 DEF Waiting, Closing, Arming, Disarming, DisarmPlaces, StopPlaces, Leaving
<1>4. ShapeInv'
  BY <1>1 DEF ControlInv, ShapeInv, Places
<1>5. HostInv' /\ OpenInv'
  BY <1>1, <1>3 DEF ControlInv, HostInv, OpenInv, Sessions
<1>6. LockInv'
  BY <1>1, <1>3 DEF ControlInv, LockInv, Sessions
<1>7. PlaceInv'
  BY <1>1, <1>2, Acquiring DEF ControlInv, PlaceInv, ArmPlaces, Leaving
<1>8. PhaseInv'
  <2>1. \A n : Held(n)' <=> Held(n)
    BY <1>1 DEF Held
  <2>2. Free' <=> Free
    BY <1>1 DEF Free
  <2>3. Arming(c) => Free
    BY <1>1 DEF ControlInv, PhaseInv
  <2>4. ~Disarming(c)
    BY <1>1 DEF Disarming, DisarmPlaces, StopPlaces, Leaving
  <2> QED BY <1>1, <1>2, <1>3, <2>1, <2>2, <2>3, <2>4 DEF ControlInv, PhaseInv
<1> QED BY <1>4, <1>5, <1>6, <1>7, <1>8 DEF ControlInv

LEMMA SpawnKeeps ==
    ASSUME ControlInv, NEW c \in Clients, Spawn(c)
    PROVE  ControlInv'
<1> DEFINE fresh == Len(host) + 1
<1>1. /\ at[c] = "acquire" /\ openLock = {} /\ open = 0
      /\ openLock' = openLock \cup {c}
      /\ host' = Append(host, "new")
      /\ stop' = Append(stop, FALSE) /\ answer' = Append(answer, "awaited")
      /\ mine' = [mine EXCEPT ![c] = fresh]
      /\ at' = [at EXCEPT ![c] = "await"]
      /\ UNCHANGED <<phase, lease, tap, command, open, holders, current, turn>>
  BY DEF Spawn, OpenFree, Go, phaseVars, audioVars, givenVars
<1>2. /\ host \in Seq(HostStates) /\ stop \in Seq(BOOLEAN) /\ answer \in Seq(Answers)
      /\ Len(stop) = Len(host) /\ Len(answer) = Len(host) /\ Len(host) \in Nat
  BY SessionFacts DEF ControlInv, ShapeInv
<1>3. /\ host' \in Seq(HostStates) /\ Len(host') = fresh /\ host'[fresh] = "new"
      /\ \A n \in Sessions : host'[n] = host[n]
  <2>1. "new" \in HostStates BY DEF HostStates
  <2> QED BY <1>1, <1>2, <2>1, AppendProperties DEF Sessions
<1>4. /\ stop' \in Seq(BOOLEAN) /\ Len(stop') = fresh /\ ~stop'[fresh]
      /\ \A n \in Sessions : stop'[n] = stop[n]
  <2>1. /\ Append(stop, FALSE) \in Seq(BOOLEAN)
        /\ Len(Append(stop, FALSE)) = Len(stop) + 1
        /\ \A n \in 1 .. Len(stop) : Append(stop, FALSE)[n] = stop[n]
        /\ Append(stop, FALSE)[Len(stop) + 1] = FALSE
    <3> DEFINE Yes == BOOLEAN
               no == FALSE
    <3>1. no \in Yes OBVIOUS
    <3>2. stop \in Seq(Yes) BY <1>2
    <3> HIDE DEF Yes, no
    <3>3. /\ Append(stop, no) \in Seq(Yes)
          /\ Len(Append(stop, no)) = Len(stop) + 1
          /\ \A n \in 1 .. Len(stop) : Append(stop, no)[n] = stop[n]
          /\ Append(stop, no)[Len(stop) + 1] = no
      BY <3>1, <3>2, AppendProperties
    <3> QED BY <3>3, Zenon DEF Yes, no
  <2>2. ~Append(stop, FALSE)[Len(stop) + 1]
    BY <2>1, Zenon
  <2> QED BY <1>1, <1>2, <2>1, <2>2, Zenon DEF Sessions
<1>5. /\ answer' \in Seq(Answers) /\ Len(answer') = fresh /\ answer'[fresh] = "awaited"
      /\ \A n \in Sessions : answer'[n] = answer[n]
  <2>1. "awaited" \in Answers BY DEF Answers
  <2> QED BY <1>1, <1>2, <2>1, AppendProperties DEF Sessions
<1>6. Sessions' = Sessions \cup {fresh} /\ 0 .. Len(host) \subseteq 0 .. Len(host')
  BY <1>2, <1>3 DEF Sessions
<1>7. /\ fresh \in 0 .. Len(host') /\ fresh \in Sessions'
  BY <1>2, <1>3 DEF Sessions
<1>8. /\ at'[c] = "await" /\ mine'[c] = fresh
      /\ \A d \in Clients \ {c} : at'[d] = at[d] /\ mine'[d] = mine[d] /\ command'[d] = command[d]
  BY <1>1 DEF ControlInv, ShapeInv
<1>9. ShapeInv'
  <2>1. mine' \in [Clients -> 0 .. Len(host')]
    BY <1>1, <1>6, <1>7 DEF ControlInv, ShapeInv
  <2>2. at' \in [Clients -> Places]
    BY <1>1 DEF ControlInv, ShapeInv, Places
  <2>3. open' \in 0 .. Len(host') /\ current' \in 0 .. Len(host')
    BY <1>1, <1>6 DEF ControlInv, ShapeInv
  <2> QED BY <1>1, <1>3, <1>4, <1>5, <2>1, <2>2, <2>3 DEF ControlInv, ShapeInv
<1>10. HostInv'
  <2>1. ASSUME NEW n \in Sessions
        PROVE  /\ host'[n] \in {"opening", "streaming"} => turn' = n
               /\ host'[n] \in {"new", "opening"} => answer'[n] \in {"awaited", "givenUp"}
               /\ answer'[n] = "givenUp" => stop'[n]
               /\ answer'[n] = "lease" /\ ~stop'[n] => host'[n] = "streaming"
    <3>1. host'[n] = host[n] /\ stop'[n] = stop[n] /\ answer'[n] = answer[n] /\ turn' = turn
      BY <1>1, <1>3, <1>4, <1>5
    <3> QED BY <3>1 DEF ControlInv, HostInv
  <2>2. host'[fresh] = "new" /\ answer'[fresh] = "awaited"
    BY <1>3, <1>5
  <2> HIDE DEF fresh
  <2> QED BY <1>6, <2>1, <2>2 DEF HostInv
<1>11. \A d \in Clients \ {c} : ~Waiting(d) /\ ~Closing(d) /\ ~Waiting(d)' /\ ~Closing(d)'
  <2>1. \A d \in Clients : ~Waiting(d) /\ ~Closing(d)
    BY <1>1 DEF ControlInv, LockInv
  <2> QED BY <1>8, <2>1 DEF Waiting, Closing
<1>12. Waiting(c)' /\ ~Waiting(c) /\ ~Closing(c) /\ ~Closing(c)'
  BY <1>1, <1>8 DEF Waiting, Closing
<1>13. LockInv'
  <2>1. current = open
    BY <1>11, <1>12 DEF ControlInv, LockInv
  <2>2. openLock' = {c} /\ open' = 0 /\ current' = 0 /\ mine'[c] \in Sessions' /\ ~stop'[mine'[c]]
    BY <1>1, <1>4, <1>7, <1>8, <2>1
  <2> QED BY <1>11, <1>12, <2>2 DEF LockInv
<1>14. OpenInv'
  <2>1. open' = 0 /\ holders' = {}
    BY <1>1 DEF ControlInv, OpenInv
  <2>2. ASSUME NEW n \in Sessions
        PROVE  host'[n] = "closed" \/ stop'[n]
    <3>1. n # open
      BY <1>1, <2>2, SessionFacts
    <3>2. host[n] = "closed" \/ stop[n]
      BY <1>11, <1>12, <3>1 DEF ControlInv, OpenInv
    <3> QED BY <1>3, <1>4, <3>2
  <2> QED BY <1>6, <1>8, <1>12, <2>1, <2>2 DEF OpenInv
<1>15. PlaceInv'
  BY <1>1, <1>8, Acquiring DEF ControlInv, PlaceInv, ArmPlaces, Leaving
<1>16. PhaseInv'
  <2>1. \A n : Held(n)' <=> Held(n)
    BY <1>1 DEF Held
  <2>2. Free' <=> Free
    BY <1>1 DEF Free
  <2>3. CASE command[c] = "arm"
    <3>1. Free /\ phase = "arming" /\ \A d \in Clients \ {c} : ~Arming(d) /\ ~Disarming(d)
      BY <1>1, <2>3, Acquiring
    <3>2. \A d \in Clients : ~Disarming(d)' /\ (Arming(d)' => d = c)
      BY <1>1, <1>8, <2>3, <3>1 DEF Arming, Disarming
    <3> QED BY <1>1, <1>8, <2>2, <3>1, <3>2 DEF PhaseInv
  <2>4. CASE command[c] # "arm"
    <3>1. ~Arming(c)' /\ ~Disarming(c)'
      BY <1>1, <2>4, Acquiring DEF Arming, Disarming
    <3> QED BY <1>1, <1>8, <2>1, <2>2, <3>1, OthersKeepPhase
  <2> QED BY <2>3, <2>4
<1> QED BY <1>9, <1>10, <1>13, <1>14, <1>15, <1>16 DEF ControlInv

-----------------------------------------------------------------------------
(* Letting the session go.                                                 *)

\* Of what the recorder and the click hold, who releases lets go of its own.
LEMMA ReleaseKeepsPhase ==
    ASSUME ControlInv, NEW c \in Clients, NEW user \in {"recorder", "metronome"},
           at[c] = ReleaseOf(user), holders' = holders \ {user},
           \/ open' = open /\ at' = [at EXCEPT ![c] = Released(command[c], user)]
           \/ open' = 0 /\ holders' = {} /\ at' = [at EXCEPT ![c] = CloseOf(user)],
           \A d \in Clients \ {c} : mine'[d] = mine[d],
           UNCHANGED <<phase, lease, tap, command>>
    PROVE  PlaceInv' /\ PhaseInv'
<1>1. at \in [Clients -> Places]
  BY DEF ControlInv, ShapeInv
<1>2. \A d \in Clients \ {c} : at'[d] = at[d] /\ mine'[d] = mine[d] /\ command'[d] = command[d]
  BY <1>1
<1>3. CASE user = "recorder"
  <2>1. /\ at[c] = "releaseRecorder" /\ at'[c] \in {"off", "closeRecorder"}
        /\ command[c] \in {"arm", "disarm", "shutdown"}
    <3>1. at[c] = "releaseRecorder"
      BY <1>3 DEF ReleaseOf
    <3>2. CloseOf("recorder") = "closeRecorder" /\ Released(command[c], "recorder") = "off"
      BY Zenon DEF CloseOf, Released
    <3>3. at'[c] \in {"off", "closeRecorder"}
      BY <1>1, <1>3, <3>2
    <3> QED BY <3>1, <3>3 DEF ControlInv, PlaceInv, Leaving
  <2>2. Arming(c) \/ Disarming(c)
    BY <2>1 DEF Arming, Disarming, DisarmPlaces, Leaving
  <2>3. /\ tap = 0
        /\ Arming(c) => phase = "arming"
        /\ Disarming(c) => phase = "disarming"
    BY <2>1, <2>2 DEF ControlInv, PhaseInv
  <2>4. Free'
    BY <1>3, <2>3 DEF Free
  <2>5. \A d \in Clients \ {c} : ~Arming(d)' /\ ~Disarming(d)'
    BY <1>2, <2>2, Alone DEF Arming, Disarming
  <2>6. /\ Arming(c)' <=> Arming(c)
        /\ Disarming(c)' <=> Disarming(c)
    BY <2>1 DEF Arming, Disarming, DisarmPlaces, Leaving
  <2>7. PlaceInv'
    BY <1>2, <2>1 DEF ControlInv, PlaceInv, ArmPlaces, DisarmPlaces, Leaving
  <2>8. PhaseInv'
    BY <2>1, <2>2, <2>3, <2>4, <2>5, <2>6 DEF PhaseInv, StopPlaces
  <2> QED BY <2>7, <2>8
<1>4. CASE user = "metronome" /\ command[c] \in {"disarm", "shutdown"}
  <2>1. at[c] = "releaseMetronome" /\ Disarming(c) /\ ~Arming(c)
    BY <1>4 DEF ReleaseOf, Disarming, DisarmPlaces, StopPlaces, Arming
  <2>2. Held(lease) /\ tap = lease /\ phase = "disarming"
    BY <2>1 DEF ControlInv, PhaseInv, StopPlaces
  <2>3. open' = open /\ at'[c] = "detach"
    BY <1>1, <1>4, <2>2 DEF Held, Released
  <2>4. Held(lease)'
    BY <1>4, <2>2, <2>3 DEF Held
  <2>5. \A d \in Clients : ~Arming(d)' /\ (Disarming(d)' => d = c)
    BY <1>2, <1>4, <2>1, Alone DEF Arming, Disarming
  <2>6. PlaceInv'
    BY <1>2, <1>4, <2>3 DEF ControlInv, PlaceInv, DisarmPlaces, Leaving
  <2>7. PhaseInv'
    BY <2>2, <2>3, <2>4, <2>5 DEF PhaseInv, Leaving
  <2> QED BY <2>6, <2>7
<1>5. CASE user = "metronome" /\ command[c] \notin {"disarm", "shutdown"}
  <2>2. at[c] = "releaseMetronome" /\ command[c] # "arm"
    BY <1>5 DEF ReleaseOf, ControlInv, PlaceInv, ArmPlaces, Leaving
  <2>1. at'[c] \in {"idle", "unlock", "closeMetronome"}
    BY <1>1, <1>5, <2>2 DEF CloseOf, Released, NotAcquired
  <2>3. ~Arming(c)' /\ ~Disarming(c)'
    BY <1>5, <2>2 DEF Arming, Disarming
  <2>4. \A n : Held(n)' <=> Held(n)
    BY <1>5 DEF Held
  <2>5. Free' <=> Free
    BY <1>5 DEF Free
  <2>6. PlaceInv'
    BY <1>2, <1>5, <2>1, <2>2 DEF ControlInv, PlaceInv, Leaving
  <2>7. PhaseInv'
    BY <1>2, <2>3, <2>4, <2>5, OthersKeepPhase
  <2> QED BY <2>6, <2>7
<1> QED BY <1>3, <1>4, <1>5

LEMMA ReleaseKeeps ==
    ASSUME ControlInv, NEW c \in Clients, NEW user \in {"recorder", "metronome"}, Release(c, user)
    PROVE  ControlInv'
<1>1. /\ at[c] = ReleaseOf(user) /\ openLock = {} /\ holders' = holders \ {user}
      /\ UNCHANGED <<phase, lease, tap, command, current, host, answer, turn>>
  BY DEF Release, OpenFree, phaseVars, audioVars, givenVars
<1>2. \A d \in Clients : ~Waiting(d) /\ ~Closing(d)
  BY <1>1 DEF ControlInv, LockInv
<1>3. CASE open # 0 /\ holders' = {}
  <2>1. /\ openLock' = openLock \cup {c} /\ stop' = [stop EXCEPT ![open] = TRUE] /\ open' = 0
        /\ mine' = [mine EXCEPT ![c] = open] /\ at' = [at EXCEPT ![c] = CloseOf(user)]
    BY <1>3 DEF Release, Go
  <2>2. /\ at'[c] = CloseOf(user) /\ mine'[c] = open
        /\ \A d \in Clients \ {c} : at'[d] = at[d] /\ mine'[d] = mine[d]
    BY <2>1 DEF ControlInv, ShapeInv
  <2>3. open \in Sessions
    <3>1. open \in 0 .. Len(host) /\ open # 0
      BY <1>3 DEF ControlInv, ShapeInv
    <3> QED BY <3>1, SessionFacts DEF Sessions
  <2>4. /\ stop' \in Seq(BOOLEAN) /\ Len(stop') = Len(host)
        /\ \A n \in Sessions : stop'[n] = (n = open \/ stop[n])
    BY <2>1, <2>3, StopSet
  <2>5. PlaceInv' /\ PhaseInv'
    <3>1. at' = [at EXCEPT ![c] = CloseOf(user)] /\ open' = 0 /\ holders' = {}
      BY <1>3, <2>1
    <3> QED BY <1>1, <2>2, <3>1, ReleaseKeepsPhase
  <2>6. ShapeInv'
    <3>1. at' \in [Clients -> Places]
      BY <2>1 DEF ControlInv, ShapeInv, CloseOf, Places, Leaving, StopPlaces
    <3>2. mine' \in [Clients -> 0 .. Len(host)]
      BY <2>1 DEF ControlInv, ShapeInv
    <3>3. open' \in 0 .. Len(host)
      BY <2>1, SessionFacts
    <3> QED BY <1>1, <2>4, <3>1, <3>2, <3>3 DEF ControlInv, ShapeInv
  <2>7. HostInv'
    BY <1>1, <2>4 DEF ControlInv, HostInv, Sessions
  <2>8. Closing(c)' /\ ~Waiting(c)'
    BY <2>2 DEF Closing, Waiting, CloseOf
  <2>9. \A d \in Clients \ {c} : ~Waiting(d)' /\ ~Closing(d)'
    BY <1>2, <2>2 DEF Waiting, Closing
  <2>10. LockInv'
    <3>1. openLock' = {c} /\ open' = 0 /\ mine'[c] \in Sessions'
      BY <1>1, <2>1, <2>2, <2>3 DEF Sessions
    <3> QED BY <2>8, <2>9, <3>1 DEF LockInv
  <2>11. OpenInv'
    <3>1. ASSUME NEW n \in Sessions
          PROVE  host'[n] = "closed" \/ stop'[n]
      BY <1>1, <1>2, <2>4 DEF ControlInv, OpenInv
    <3> QED BY <1>1, <1>3, <2>1, <3>1 DEF OpenInv, Sessions
  <2> QED BY <2>5, <2>6, <2>7, <2>10, <2>11 DEF ControlInv
<1>4. CASE open = 0 \/ holders' # {}
  <2>1. /\ at' = [at EXCEPT ![c] = Released(command[c], user)]
        /\ UNCHANGED <<openLock, stop, open, mine>>
    BY <1>4 DEF Release, Go
  <2>2. /\ at'[c] = Released(command[c], user)
        /\ \A d \in Clients \ {c} : at'[d] = at[d] /\ mine'[d] = mine[d]
    BY <2>1 DEF ControlInv, ShapeInv
  <2>3. Released(command[c], user) \in {"off", "detach", "idle", "unlock"}
    BY DEF Released, NotAcquired
  <2>4. PlaceInv' /\ PhaseInv'
    BY <1>1, <2>1, <2>2, ReleaseKeepsPhase
  <2>5. ShapeInv'
    <3>1. at' \in [Clients -> Places]
      BY <2>1, <2>3 DEF ControlInv, ShapeInv, Places, Leaving
    <3> QED BY <1>1, <2>1, <3>1 DEF ControlInv, ShapeInv
  <2>6. HostInv'
    BY <1>1, <2>1 DEF ControlInv, HostInv, Sessions
  <2>7. \A d \in Clients : ~Waiting(d)' /\ ~Closing(d)'
    BY <1>2, <2>2, <2>3 DEF Waiting, Closing
  <2>8. LockInv'
    BY <1>1, <1>2, <2>1, <2>7 DEF ControlInv, LockInv
  <2>9. OpenInv'
    BY <1>1, <1>2, <1>4, <2>1, <2>7 DEF ControlInv, OpenInv, Sessions
  <2> QED BY <2>4, <2>5, <2>6, <2>8, <2>9 DEF ControlInv
<1> QED BY <1>3, <1>4

LEMMA CloseKeeps ==
    ASSUME ControlInv, NEW c \in Clients, NEW user \in {"recorder", "metronome"}, Close(c, user)
    PROVE  ControlInv'
<1>1. /\ at[c] = CloseOf(user) /\ host[mine[c]] = "closed" /\ current' = 0
      /\ openLock' = openLock \ {c} /\ at' = [at EXCEPT ![c] = Released(command[c], user)]
      /\ UNCHANGED <<phase, lease, tap, command, mine, open, holders, host, stop, answer, turn>>
  BY DEF Close, Go, phaseVars, audioVars, givenVars, threadVars
<1>2. Closing(c) /\ c \in openLock
  BY <1>1 DEF Closing, CloseOf, ControlInv, LockInv
<1>3. /\ openLock = {c} /\ open = 0 /\ holders = {}
      /\ \A d \in Clients \ {c} : ~Waiting(d) /\ ~Closing(d)
  BY <1>2 DEF ControlInv, LockInv, OpenInv
<1>4. /\ at'[c] = Released(command[c], user)
      /\ \A d \in Clients \ {c} : at'[d] = at[d] /\ mine'[d] = mine[d] /\ command'[d] = command[d]
  BY <1>1 DEF ControlInv, ShapeInv
<1>5. Released(command[c], user) \in {"off", "idle", "unlock"}
  <2>1. CASE user = "recorder"
    <3>1. Released(command[c], "recorder") = "off"
      BY Zenon DEF Released
    <3> QED BY <2>1, <3>1
  <2>2. CASE user = "metronome"
    <3>1. at[c] = "closeMetronome"
      BY <1>1, <2>2 DEF CloseOf
    <3>2. command[c] \notin {"disarm", "shutdown"}
      <4>1. Disarming(c) => Held(lease)
        BY <3>1 DEF ControlInv, PhaseInv, StopPlaces
      <4> QED BY <1>3, <3>1, <4>1 DEF Held, Disarming, DisarmPlaces, StopPlaces
    <3> QED BY <3>2, <2>2 DEF Released, NotAcquired
  <2> QED BY <2>1, <2>2
<1>6. \A d \in Clients : ~Waiting(d)' /\ ~Closing(d)'
  BY <1>3, <1>4, <1>5 DEF Waiting, Closing
<1>7. ShapeInv'
  <2>1. at' \in [Clients -> Places]
    BY <1>1, <1>5 DEF ControlInv, ShapeInv, Places, Leaving
  <2>2. current' \in 0 .. Len(host)
    BY <1>1, SessionFacts
  <2> QED BY <1>1, <2>1, <2>2 DEF ControlInv, ShapeInv
<1>8. HostInv'
  BY <1>1 DEF ControlInv, HostInv, Sessions
<1>9. LockInv'
  BY <1>1, <1>3, <1>6 DEF LockInv
<1>10. OpenInv'
  <2>1. \A d \in Clients : ~Waiting(d)
    BY <1>1, <1>3 DEF Waiting, CloseOf
  <2> QED BY <1>1, <2>1 DEF ControlInv, OpenInv, Sessions
<1>11. PlaceInv' /\ PhaseInv'
  <2>1. \A n : Held(n)' <=> Held(n)
    BY <1>1 DEF Held
  <2>2. Free' <=> Free
    BY <1>1 DEF Free
  <2>3. CASE user = "recorder"
    <3>1. /\ at[c] = "closeRecorder" /\ at'[c] = "off"
          /\ command[c] \in {"arm", "disarm", "shutdown"}
      <4>1. Released(command[c], "recorder") = "off"
        BY Zenon DEF Released
      <4>2. at[c] = "closeRecorder"
        BY <1>1, <2>3 DEF CloseOf
      <4> QED BY <1>4, <2>3, <4>1, <4>2 DEF ControlInv, PlaceInv, Leaving
    <3>2. Arming(c) \/ Disarming(c)
      BY <3>1 DEF Arming, Disarming, DisarmPlaces, Leaving
    <3>3. /\ Free /\ Arming(c) => phase = "arming"
          /\ Disarming(c) => phase = "disarming"
      BY <3>1, <3>2 DEF ControlInv, PhaseInv
    <3>4. \A d \in Clients \ {c} : ~Arming(d)' /\ ~Disarming(d)'
      BY <1>4, <3>2, Alone DEF Arming, Disarming
    <3>5. /\ Arming(c)' <=> Arming(c)
          /\ Disarming(c)' <=> Disarming(c)
      BY <1>1, <3>1 DEF Arming, Disarming, DisarmPlaces, Leaving
    <3>6. Free /\ (phase = "arming" \/ phase = "disarming")
      BY <3>1, <3>2 DEF ControlInv, PhaseInv
    <3>7. PlaceInv'
      BY <1>4, <1>1, <3>1 DEF ControlInv, PlaceInv, ArmPlaces, DisarmPlaces, Leaving
    <3>8. PhaseInv'
      BY <1>1, <2>2, <3>1, <3>3, <3>4, <3>5, <3>6 DEF PhaseInv, StopPlaces
    <3> QED BY <3>7, <3>8
  <2>4. CASE user = "metronome"
    <3>1. /\ at[c] = "closeMetronome" /\ at'[c] \in {"idle", "unlock"}
          /\ command[c] \notin {"arm", "disarm", "shutdown"}
      <4>1. at[c] = "closeMetronome"
        BY <1>1, <2>4 DEF CloseOf
      <4>2. command[c] # "arm"
        BY <4>1 DEF ControlInv, PlaceInv, ArmPlaces, Leaving
      <4>3. command[c] \notin {"disarm", "shutdown"}
        <5>1. Disarming(c) => Held(lease)
          BY <4>1 DEF ControlInv, PhaseInv, StopPlaces
        <5> QED BY <1>3, <4>1, <5>1 DEF Held, Disarming, DisarmPlaces, StopPlaces
      <4>4. Released(command[c], user) \in {"idle", "unlock"}
        BY <2>4, <4>2, <4>3 DEF Released, NotAcquired
      <4> QED BY <1>4, <4>1, <4>2, <4>3, <4>4
    <3>2. ~Arming(c)' /\ ~Disarming(c)'
      BY <1>1, <3>1 DEF Arming, Disarming
    <3>3. PlaceInv'
      BY <1>4, <1>1, <3>1 DEF ControlInv, PlaceInv, Leaving
    <3>4. PhaseInv'
      BY <1>1, <1>4, <2>1, <2>2, <3>2, OthersKeepPhase
    <3> QED BY <3>3, <3>4
  <2> QED BY <2>3, <2>4
<1> QED BY <1>7, <1>8, <1>9, <1>10, <1>11 DEF ControlInv

-----------------------------------------------------------------------------
(* The host threads.                                                       *)

\* A step of one host thread, which nobody has open.
LEMMA HostStepKeeps ==
    ASSUME ControlInv, NEW n \in Sessions, n # open, host[n] # "closed",
           NEW where \in HostStates, host' = [host EXCEPT ![n] = where],
           answer' \in Seq(Answers), Len(answer') = Len(host), HostInv',
           tap' = tap \/ (tap # 0 /\ tap # open /\ tap' = 0),
           UNCHANGED <<phase, lease, at, mine, command, openLock, open, holders, current, stop>>
    PROVE  ControlInv'
<1>1. /\ host' \in Seq(HostStates) /\ Len(host') = Len(host)
      /\ \A k \in Sessions : host'[k] = IF k = n THEN where ELSE host[k]
  <2>1. host \in Seq(HostStates) /\ n \in 1 .. Len(host)
    BY DEF ControlInv, ShapeInv, Sessions
  <2> QED BY <2>1, ExceptSeq DEF Sessions
<1>2. ShapeInv'
  BY <1>1 DEF ControlInv, ShapeInv
<1>3. Sessions' = Sessions
  BY <1>1 DEF Sessions
<1>4. LockInv'
  BY <1>3 DEF ControlInv, LockInv, Waiting, Closing
<1>5. OpenInv'
  <2>1. open # 0 => host'[open] = host[open]
    <3>1. open # 0 => open \in Sessions
      <4>1. open \in 0 .. Len(host)
        BY DEF ControlInv, ShapeInv
      <4> QED BY <4>1, SessionFacts DEF Sessions
    <3> QED BY <1>1, <3>1
  <2>2. ASSUME NEW k \in Sessions
        PROVE  \/ k = open \/ host'[k] = "closed" \/ stop[k]
               \/ \E c \in Clients : Waiting(c) /\ mine[c] = k
    BY <1>1 DEF ControlInv, OpenInv
  <2> QED BY <1>3, <2>1, <2>2 DEF ControlInv, OpenInv, Waiting
<1>6. PlaceInv'
  BY DEF ControlInv, PlaceInv
<1>7. PhaseInv'
  <2>1. CASE tap' = tap
    BY <2>1 DEF ControlInv, PhaseInv, Arming, Disarming, Held, Free
  <2>2. CASE tap # 0 /\ tap # open /\ tap' = 0
    <3>1. /\ ~Free /\ \A k : Held(k) => tap # k
      BY <2>2 DEF Free, Held
    <3> QED BY <2>2, <3>1 DEF ControlInv, PhaseInv, Arming, Disarming, Held, Free
  <2> QED BY <2>1, <2>2
<1> QED BY <1>2, <1>4, <1>5, <1>6, <1>7 DEF ControlInv

LEMMA HostKeeps ==
    ASSUME ControlInv, NEW n \in DOMAIN host, HostThread(n)
    PROVE  ControlInv'
<1>1. n \in Sessions /\ n # 0 /\ DOMAIN host = Sessions
  BY SessionFacts
<1>2. /\ UNCHANGED <<phase, lease, at, mine, command>>
      /\ UNCHANGED <<openLock, open, holders, current, stop>>
  BY DEF HostThread, TakeTurn, DriversOpen, DriversRefuse, HostStops,
         phaseVars, engineVars, givenVars
<1>3. PICK where \in HostStates : host' = [host EXCEPT ![n] = where]
  BY DEF HostThread, TakeTurn, DriversOpen, DriversRefuse, HostStops, HostStates
<1>4. /\ Len(host') = Len(host) /\ Sessions' = Sessions
      /\ \A k \in Sessions : host'[k] = IF k = n THEN where ELSE host[k]
  <2>1. host \in Seq(HostStates) /\ n \in 1 .. Len(host)
    BY <1>1 DEF ControlInv, ShapeInv, Sessions
  <2> QED BY <1>3, <2>1, ExceptSeq DEF Sessions
<1>5. host[n] \in {"new", "opening", "streaming"} /\ host[n] = "streaming" => stop[n]
  BY DEF HostThread, TakeTurn, DriversOpen, DriversRefuse, HostStops
<1>6. n # open /\ host[n] # "closed"
  BY <1>1, <1>5 DEF ControlInv, OpenInv, HostThread, TakeTurn, DriversOpen, DriversRefuse, HostStops
<1>7. tap' = tap \/ (tap # 0 /\ tap # open /\ tap' = 0)
  BY <1>1, <1>6 DEF HostThread, TakeTurn, DriversOpen, DriversRefuse, HostStops, audioVars
<1>8. PICK what \in {"lease", "error"} : answer' = answer \/ AnswerWith(n, what)
  BY DEF HostThread, TakeTurn, DriversOpen, DriversRefuse, HostStops
<1>9. /\ answer' \in Seq(Answers) /\ Len(answer') = Len(host)
      /\ \A k \in Sessions \ {n} : answer'[k] = answer[k]
  <2>1. CASE answer' = answer
    BY <2>1 DEF ControlInv, ShapeInv
  <2>2. CASE AnswerWith(n, what)
    <3>1. what \in Answers BY DEF Answers
    <3>2. answer' = [answer EXCEPT ![n] = IF @ = "awaited" THEN what ELSE @]
      BY <2>2 DEF AnswerWith
    <3>3. /\ answer' \in Seq(Answers) /\ Len(answer') = Len(host)
          /\ \A k \in Sessions :
                answer'[k] = IF k = n /\ answer[k] = "awaited" THEN what ELSE answer[k]
      BY <1>1, <3>1, <3>2, AnswerSet
    <3> QED BY <3>3
  <2> QED BY <1>8, <2>1, <2>2
<1>10. \A k \in Sessions \ {n} : host[k] \in {"opening", "streaming"} => turn' = k
  <2> SUFFICES ASSUME NEW k \in Sessions \ {n}, host[k] \in {"opening", "streaming"}
               PROVE  turn' = k
    OBVIOUS
  <2>1. turn = k /\ k # 0
    BY SessionFacts DEF ControlInv, HostInv
  <2>2. host[n] \notin {"opening", "streaming"}
    BY <1>1, <2>1 DEF ControlInv, HostInv
  <2>3. turn' = turn
    BY <2>1, <2>2 DEF HostThread, TakeTurn, TurnFree, DriversOpen, DriversRefuse, HostStops
  <2> QED BY <2>1, <2>3
<1>11. /\ host'[n] \in {"opening", "streaming"} => turn' = n
       /\ host'[n] \in {"new", "opening"} => answer'[n] \in {"awaited", "givenUp"}
       /\ answer'[n] = "givenUp" => stop[n]
       /\ answer'[n] = "lease" /\ ~stop[n] => host'[n] = "streaming"
  <2>1. DOMAIN answer = Sessions
    BY SessionFacts
  <2>2. CASE TakeTurn(n)
    BY <1>1, <2>1, <2>2 DEF ControlInv, HostInv, TakeTurn, AnswerWith
  <2>3. CASE DriversOpen(n)
    BY <1>1, <2>1, <2>3 DEF ControlInv, HostInv, DriversOpen, AnswerWith
  <2>4. CASE DriversRefuse(n)
    BY <1>1, <2>1, <2>4 DEF ControlInv, HostInv, DriversRefuse, AnswerWith
  <2>5. CASE HostStops(n)
    BY <1>1, <2>1, <2>5 DEF ControlInv, HostInv, HostStops
  <2> QED BY <2>2, <2>3, <2>4, <2>5 DEF HostThread
<1>12. HostInv'
  BY <1>2, <1>4, <1>9, <1>10, <1>11 DEF ControlInv, HostInv
<1> QED BY <1>1, <1>2, <1>3, <1>6, <1>7, <1>9, <1>12, HostStepKeeps

-----------------------------------------------------------------------------
(* The invariant, and what it says.                                        *)

LEMMA NothingOfIt ==
    ASSUME ControlInv, turn' = turn \/ turn \notin Sessions,
           UNCHANGED <<phase, lease, tap, at, mine, command>>,
           UNCHANGED <<openLock, open, holders, current, host, stop, answer>>
    PROVE  ControlInv'
<1>1. ShapeInv' /\ OpenInv'
  BY DEF ControlInv, ShapeInv, OpenInv, Sessions, Waiting
<1>2. HostInv'
  BY DEF ControlInv, HostInv, Sessions
<1>3. LockInv'
  BY DEF ControlInv, LockInv, Sessions, Waiting, Closing
<1>4. PlaceInv'
  BY DEF ControlInv, PlaceInv
<1>5. PhaseInv'
  BY DEF ControlInv, PhaseInv, Arming, Disarming, Held, Free
<1> QED BY <1>1, <1>2, <1>3, <1>4, <1>5 DEF ControlInv

LEMMA ControlInitOK == ControlInit => ControlInv
<1> SUFFICES ASSUME ControlInit PROVE ControlInv
  OBVIOUS
<1>1. Len(host) = 0 /\ Sessions = {} /\ 0 \in 0 .. Len(host)
  BY EmptySeq DEF ControlInit, Sessions
<1>2. ShapeInv
  <2>1. mine \in [Clients -> 0 .. Len(host)] /\ at \in [Clients -> Places]
    BY <1>1 DEF ControlInit, Places
  <2>2. host \in Seq(HostStates) /\ stop \in Seq(BOOLEAN) /\ answer \in Seq(Answers)
    BY EmptySeq DEF ControlInit
  <2>3. Len(stop) = Len(host) /\ Len(answer) = Len(host)
    BY DEF ControlInit
  <2> QED BY <1>1, <2>1, <2>2, <2>3 DEF ControlInit, ShapeInv
<1>3. HostInv /\ OpenInv
  BY <1>1 DEF ControlInit, HostInv, OpenInv
<1>4. LockInv
  BY DEF ControlInit, LockInv, Waiting, Closing
<1>5. PlaceInv
  BY DEF ControlInit, PlaceInv, Leaving
<1>6. PhaseInv
  BY DEF ControlInit, PhaseInv, Arming, Disarming, Free
<1> QED BY <1>2, <1>3, <1>4, <1>5, <1>6 DEF ControlInv

LEMMA ControlStep == ControlInv /\ [ControlNext]_controlVars => ControlInv'
<1> SUFFICES ASSUME ControlInv, [ControlNext]_controlVars PROVE ControlInv'
  OBVIOUS
<1>1. ASSUME NEW c \in Clients, CommandStep(c) \/ TimedOut(c) PROVE ControlInv'
  <2>1. CASE Engine(c)
    BY <1>1, <2>1, JoinKeeps, SpawnKeeps, OpenedKeeps, MissedKeeps, ReleaseKeeps, CloseKeeps DEF Engine
  <2>2. CASE Recorder(c)
    BY <1>1, <2>2, ArmKeeps, AttachKeeps, ArmedKeeps, OffKeeps, DisarmKeeps, DetachKeeps,
       RecordKeeps, LettingGoKeeps DEF Recorder
  <2>3. CASE Click(c)
    BY <1>1, <2>3, ClickKeeps, StopClickKeeps, LettingGoKeeps DEF Click
  <2> QED BY <1>1, <2>1, <2>2, <2>3, TimedOutKeeps DEF CommandStep
<1>2. ASSUME NEW c \in Clients, NEW what \in AllCommands, Give(c, what) PROVE ControlInv'
  BY <1>2, GivenKeeps
<1>3. ASSUME NEW n \in DOMAIN host, HostThread(n) PROVE ControlInv'
  BY <1>3, HostKeeps
<1>4. ASSUME NEW n \in DOMAIN host, Block(n) PROVE ControlInv'
  BY <1>4, NothingOfIt DEF Block, phaseVars, engineVars, threadVars, givenVars
<1>5. CASE Measure
  <2>1. turn \notin Sessions
    BY <1>5, SessionFacts DEF Measure, Measuring
  <2> QED BY <1>5, <2>1, NothingOfIt DEF Measure, phaseVars, engineVars, audioVars, givenVars
<1>6. CASE ReadState
  BY <1>6, NothingOfIt DEF ReadState, phaseVars, engineVars, threadVars, audioVars, givenVars
<1>7. CASE UNCHANGED controlVars
  BY <1>7, NothingOfIt DEF controlVars, phaseVars, engineVars, threadVars, audioVars, givenVars
<1> QED BY <1>1, <1>2, <1>3, <1>4, <1>5, <1>6, <1>7 DEF ControlNext, IdleNow

LEMMA ControlAlways == ControlSpec => []ControlInv
BY ControlInitOK, ControlStep, PTL DEF ControlSpec

\* One host at most runs, and outside the open lock the session is open while
\* somebody holds it, and every other is closed or told to stop (engine.rs,
\* acquire, start, release and host_thread).
THEOREM HostsApart == ControlSpec => []OneHostRuns
<1>1. ControlInv => OneHostRuns
  <2> SUFFICES ASSUME ControlInv PROVE OneHostRuns
    OBVIOUS
  <2>1. ASSUME NEW m \in DOMAIN host, NEW n \in DOMAIN host,
               {host[m], host[n]} \subseteq {"opening", "streaming"}
        PROVE  m = n
    BY <2>1, SessionFacts DEF ControlInv, HostInv
  <2>2. ASSUME OpenFree
        PROVE  /\ (open # 0) = (holders # {}) /\ current = open
               /\ \A n \in DOMAIN host : n # open /\ host[n] # "closed" => stop[n]
    <3>1. \A c \in Clients : ~Waiting(c) /\ ~Closing(c)
      BY <2>2 DEF OpenFree, ControlInv, LockInv
    <3> QED BY <3>1, SessionFacts DEF ControlInv, LockInv, OpenInv
  <2> QED BY <2>1, <2>2 DEF OneHostRuns
<1> QED BY <1>1, ControlAlways, PTL

\* While armed the recorder has the session it was handed, streaming and with
\* its tap on it; off, it has none (recorder.rs, arm and disarm).
THEOREM ArmedBacked == ControlSpec => []ArmedIsBacked
<1>1. ControlInv => ArmedIsBacked
  <2> SUFFICES ASSUME ControlInv PROVE ArmedIsBacked
    OBVIOUS
  <2>1. CASE phase = "armed"
    <3>1. Held(lease) /\ tap = lease
      BY <2>1 DEF ControlInv, PhaseInv
    <3>2. open # 0 /\ host[open] = "streaming"
      BY <3>1 DEF Held, ControlInv, OpenInv
    <3> QED BY <2>1, <3>1, <3>2 DEF Held, ArmedIsBacked, Streams
  <2>2. CASE phase # "armed"
    BY <2>2 DEF ControlInv, PhaseInv, Free, ArmedIsBacked
  <2> QED BY <2>1, <2>2
<1> QED BY <1>1, ControlAlways, PTL

-----------------------------------------------------------------------------
(* One command at a time.                                                  *)

Busy(c) == at[c] # "idle"
Nowhere(places) == \A c \in Clients : at[c] \notin places

Opening == {"acquire", "await", "giveUp"}
Asking == {"recordCounting", "recordFollowing", "startClick"}
LettingGo == {"letGo", "ringOut", "releaseMetronome", "closeMetronome"}

\* Where each command may be, beside what PlaceInv says of arm and disarm.
CommandPlace(c) ==
        /\ at[c] \in Opening => command[c] \in Asking \cup {"arm"}
        /\ at[c] \in {"click", "hold"} => command[c] \in Asking
        /\ at[c] \in {"hand", "start"} => command[c] = "startClick"
        /\ at[c] = "ask" => command[c] \in {"recordCounting", "recordFollowing", "preview"}
        /\ at[c] = "unlock" => command[c] \in RecordCommands
        /\ at[c] = "tidy" => command[c] = "tidy"
        /\ at[c] \in StopPlaces =>
              \/ command[c] \in {"stop", "stopClick", "lastStop", "disarm", "shutdown"}
              \/ command[c] \in Asking /\ at[c] \in {"releaseMetronome", "closeMetronome"}
        /\ at[c] \in {"takesClick", "stopTakes"} => command[c] \in {"stop", "disarm", "shutdown"}
        /\ at[c] \in {"wait", "look", "disarm", "last"} => command[c] = "shutdown"
        /\ command[c] = "lastStop" => at[c] \in LettingGo \cup {"idle"}
CommandPlaces == \A c \in Clients : CommandPlace(c)

CountInKinds == {"none", "stop", "record"}
GenShape ==
    gen \in [want : BOOLEAN, running : BOOLEAN, countIn : CountInKinds, asked : CountInKinds,
             cancel : BOOLEAN]

AloneInv == \A c, d \in Clients : Busy(c) /\ Busy(d) => c = d

\* The phase is on its way only while a client is at it.
PhasePlaces ==
    /\ phase \in {"off", "arming", "armed", "disarming"}
    /\ phase = "arming" => \E c \in Clients : Arming(c)
    /\ phase = "disarming" => \E c \in Clients : Disarming(c)
    /\ \A c \in Clients :
          /\ command[c] \in RecordCommands /\ at[c] \notin {"idle", "begin"} => phase = "armed"
          /\ at[c] = "last" => phase = "off"
          /\ at[c] = "disarm" => phase = "armed"

\* Who starts the click and has the session for it.
Kept(c) == at[c] \in {"hold", "hand", "start"} \/ (at[c] = "ask" /\ command[c] \in RecordCommands)

\* The click believes it holds the session while it does, but where it has just
\* got it or is just letting it go.
SessionInv ==
    /\ Nowhere({"hold", "ringOut", "releaseMetronome"}) =>
          (clickHeld <=> "metronome" \in holders)
    /\ \A c \in Clients :
          /\ Kept(c) => "metronome" \in holders /\ mine[c] = open
          /\ Kept(c) /\ at[c] # "hold" => clickHeld
          /\ at[c] \in Opening => ~clickHeld \/ command[c] = "arm"
          /\ at[c] \in LettingGo \ {"letGo"} => ~clickHeld /\ startedBy \notin {"hand", "countIn", "follow"}

\* A click a person started plays on, and no count-in under way will stop it; a
\* click a take started is there while the recorder is armed.
ByInv ==
    /\ startedBy = "hand" /\ Nowhere({"hand", "start", "letGo"}) =>
          clickHeld /\ gen.want /\ gen.asked # "stop" /\ (gen.countIn = "stop" => gen.cancel)
    /\ startedBy \in {"countIn", "follow"}
            /\ Nowhere({"end", "takesClick", "stopTakes", "letGo"}) =>
          phase = "armed" /\ clickHeld
    /\ \A c \in Clients :
          /\ at[c] = "start" => startedBy = "hand"
          /\ at[c] = "ask" /\ command[c] = "preview" => startedBy = "preview"

\* Once it is shutting down nothing arms and no click starts.
ShutInv ==
    \A c \in Clients :
        /\ command[c] = "shutdown" /\ at[c] \notin {"idle", "begin"} => stopping
        /\ command[c] \in {"arm", "startClick"} /\ at[c] \notin {"idle", "begin"} => ~stopping
        /\ command[c] = "lastStop" => stopping /\ phase = "off"
        /\ command[c] = "lastStop" /\ at[c] = "idle" => open = 0

InTurn == AloneInv /\ PhasePlaces /\ SessionInv /\ ByInv /\ ShutInv
TurnInv == CommandPlaces /\ GenShape /\ (overlapped \/ InTurn)

OneByOne == ControlInv /\ TurnInv

\* The same of one client, when every other is idle.
PhaseAt(c) ==
    /\ phase \in {"off", "arming", "armed", "disarming"}
    /\ phase = "arming" => Arming(c)
    /\ phase = "disarming" => Disarming(c)
    /\ command[c] \in RecordCommands /\ at[c] \notin {"idle", "begin"} => phase = "armed"
    /\ at[c] = "last" => phase = "off"
    /\ at[c] = "disarm" => phase = "armed"

SessionAt(c) ==
    /\ at[c] \notin {"hold", "ringOut", "releaseMetronome"} =>
          (clickHeld <=> "metronome" \in holders)
    /\ Kept(c) => "metronome" \in holders /\ mine[c] = open
    /\ Kept(c) /\ at[c] # "hold" => clickHeld
    /\ at[c] \in Opening => ~clickHeld \/ command[c] = "arm"
    /\ at[c] \in LettingGo \ {"letGo"} => ~clickHeld /\ startedBy \notin {"hand", "countIn", "follow"}

ByAt(c) ==
    /\ startedBy = "hand" /\ at[c] \notin {"hand", "start", "letGo"} =>
          clickHeld /\ gen.want /\ gen.asked # "stop" /\ (gen.countIn = "stop" => gen.cancel)
    /\ startedBy \in {"countIn", "follow"}
            /\ at[c] \notin {"end", "takesClick", "stopTakes", "letGo"} =>
          phase = "armed" /\ clickHeld
    /\ at[c] = "start" => startedBy = "hand"
    /\ at[c] = "ask" /\ command[c] = "preview" => startedBy = "preview"

ShutAt(c) ==
    /\ command[c] = "shutdown" /\ at[c] \notin {"idle", "begin"} => stopping
    /\ command[c] \in {"arm", "startClick"} /\ at[c] \notin {"idle", "begin"} => ~stopping
    /\ command[c] = "lastStop" => stopping /\ phase = "off"
    /\ command[c] = "lastStop" /\ at[c] = "idle" => open = 0

ShutSince == stopping /\ phase = "off" /\ open = 0

\* A client that goes on while every other is idle.
Onward(c) ==
    /\ \A d \in Clients \ {c} : at[d] = "idle" /\ at'[d] = "idle" /\ command'[d] = command[d]
    /\ at[c] # "idle"

LEMMA TurnShape ==
    ASSUME OneByOne
    PROVE  /\ at \in [Clients -> Places] /\ mine \in [Clients -> 0 .. Len(host)]
           /\ command \in [Clients -> AllCommands \cup {"none", "lastStop"}]
           /\ gen \in [want : BOOLEAN, running : BOOLEAN, countIn : CountInKinds, asked : CountInKinds,
                       cancel : BOOLEAN]
           /\ gen.want \in BOOLEAN /\ gen.running \in BOOLEAN /\ gen.cancel \in BOOLEAN
           /\ gen.countIn \in CountInKinds /\ gen.asked \in CountInKinds
BY DEF OneByOne, ControlInv, ShapeInv, TurnInv, GenShape

LEMMA GoesOn ==
    ASSUME OneByOne, NEW c \in Clients, NEW where \in Places, Go(c, where), at[c] # "idle",
           command' = command
    PROVE  /\ at'[c] = where /\ command'[c] = command[c]
           /\ \A d \in Clients \ {c} : at'[d] = at[d] /\ command'[d] = command[d]
           /\ CommandPlace(c)' => CommandPlaces'
           /\ ~overlapped => Onward(c) /\ AloneInv'
<1>1. /\ at'[c] = where /\ command'[c] = command[c]
      /\ \A d \in Clients \ {c} : at'[d] = at[d] /\ command'[d] = command[d]
  BY TurnShape DEF Go
<1>2. CommandPlace(c)' => CommandPlaces'
  BY <1>1 DEF CommandPlaces, CommandPlace, OneByOne, TurnInv
<1>3. ASSUME ~overlapped PROVE Onward(c) /\ AloneInv'
  BY <1>1, <1>3 DEF OneByOne, TurnInv, InTurn, AloneInv, Busy, Onward
<1> QED BY <1>1, <1>2, <1>3

LEMMA OneAt ==
    ASSUME NEW c \in Clients, Onward(c)
    PROVE  /\ PhasePlaces <=> PhaseAt(c)
           /\ SessionInv <=> SessionAt(c)
           /\ ByInv <=> ByAt(c)
           /\ ShutInv <=> ShutAt(c) /\ \A d \in Clients \ {c} : command[d] = "lastStop" => ShutSince
<1>1. \A d \in Clients \ {c} : at[d] = "idle"
  BY DEF Onward
<1>2. \A d \in Clients \ {c} : ~Arming(d) /\ ~Disarming(d) /\ ~Kept(d)
  BY <1>1 DEF Arming, Disarming, DisarmPlaces, StopPlaces, Leaving, Kept
<1>3. PhasePlaces <=> PhaseAt(c)
  BY <1>1, <1>2 DEF PhasePlaces, PhaseAt
<1>4. SessionInv <=> SessionAt(c)
  BY <1>1, <1>2 DEF SessionInv, SessionAt, Nowhere, Opening, LettingGo
<1>5. ByInv <=> ByAt(c)
  <2>1. Nowhere({"hand", "start", "letGo"}) <=> at[c] \notin {"hand", "start", "letGo"}
    BY <1>1 DEF Nowhere
  <2>2. Nowhere({"end", "takesClick", "stopTakes", "letGo"}) <=>
            at[c] \notin {"end", "takesClick", "stopTakes", "letGo"}
    BY <1>1 DEF Nowhere
  <2> QED BY <1>1, <2>1, <2>2 DEF ByInv, ByAt
<1>6. ShutInv <=> ShutAt(c) /\ \A d \in Clients \ {c} : command[d] = "lastStop" => ShutSince
  BY <1>1 DEF ShutInv, ShutAt, ShutSince
<1> QED BY <1>3, <1>4, <1>5, <1>6

LEMMA OneAtNext ==
    ASSUME NEW c \in Clients, Onward(c), PhaseAt(c)', SessionAt(c)', ByAt(c)', ShutAt(c)',
           \A d \in Clients \ {c} : command[d] = "lastStop" => ShutSince'
    PROVE  PhasePlaces' /\ SessionInv' /\ ByInv' /\ ShutInv'
<1>1. \A d \in Clients \ {c} : at'[d] = "idle" /\ command'[d] = command[d]
  BY DEF Onward
<1>2. \A d \in Clients \ {c} : ~Kept(d)'
  BY <1>1 DEF Kept
<1>3. PhasePlaces'
  BY <1>1 DEF PhasePlaces, PhaseAt
<1>4. SessionInv'
  BY <1>1, <1>2 DEF SessionInv, SessionAt, Nowhere, Opening, LettingGo
<1>5. ByInv'
  <2>1. Nowhere({"hand", "start", "letGo"})' => at'[c] \notin {"hand", "start", "letGo"}
    BY DEF Nowhere
  <2>2. Nowhere({"end", "takesClick", "stopTakes", "letGo"})' =>
            at'[c] \notin {"end", "takesClick", "stopTakes", "letGo"}
    BY DEF Nowhere
  <2> QED BY <1>1, <2>1, <2>2 DEF ByInv, ByAt
<1>6. ShutInv'
  BY <1>1 DEF ShutInv, ShutAt, ShutSince
<1> QED BY <1>3, <1>4, <1>5, <1>6

\* What ControlInv says of the one client that is not idle.
PlaceAt(c) ==
    /\ command[c] = "arm" => at[c] \in ArmPlaces
    /\ command[c] \in {"disarm", "shutdown"} =>
          at[c] \in {"idle", "begin", "wait", "look", "disarm", "last"} \cup DisarmPlaces
    /\ at[c] \in {"attach", "armed"} => command[c] = "arm"
    /\ at[c] \in {"end", "detach"} => command[c] \in {"disarm", "shutdown"}
    /\ at[c] \in Leaving => command[c] \in {"arm", "disarm", "shutdown"}
    /\ Arming(c) => phase = "arming"
    /\ Disarming(c) => phase = "disarming"

EngineAt(c) ==
    /\ at[c] \in {"await", "giveUp", "closeRecorder", "closeMetronome"} => open = 0
    /\ at[c] \notin {"await", "giveUp", "closeRecorder", "closeMetronome"} => current = open
    /\ open = 0 <=> holders = {}
    /\ open # 0 => Streams(open)
    /\ holders \subseteq {"recorder", "metronome"}
    /\ phase = "off" => "recorder" \notin holders

LEMMA ControlAt ==
    ASSUME OneByOne, NEW c \in Clients
    PROVE  /\ CommandPlace(c) /\ PlaceAt(c)
           /\ Onward(c) => EngineAt(c)
<1>1. CommandPlace(c) /\ PlaceAt(c)
  BY DEF OneByOne, TurnInv, CommandPlaces, ControlInv, PlaceInv, PhaseInv, PlaceAt
<1>2. ASSUME Onward(c) PROVE EngineAt(c)
  <2>1. \A d \in Clients \ {c} : ~Waiting(d) /\ ~Closing(d)
    BY <1>2 DEF Onward, Waiting, Closing
  <2>2. Waiting(c) \/ Closing(c) => open = 0
    BY DEF OneByOne, ControlInv, LockInv
  <2>3. ~Waiting(c) /\ ~Closing(c) => current = open
    BY <2>1 DEF OneByOne, ControlInv, LockInv
  <2>4. /\ open = 0 <=> holders = {}
        /\ open # 0 => Streams(open)
        /\ holders \subseteq {"recorder", "metronome"}
        /\ phase = "off" => "recorder" \notin holders
    BY DEF OneByOne, ControlInv, ShapeInv, OpenInv, PhaseInv, Free, Streams
  <2> QED BY <2>2, <2>3, <2>4 DEF EngineAt, Waiting, Closing
<1> QED BY <1>1, <1>2

LEMMA PhaseTurns ==
    ASSUME OneByOne, NEW c \in Clients,
           \/ Arm(c) \/ Armed(c) \/ Off(c) \/ ArmAsked(c)
           \/ Shutdown(c) \/ ShutdownWaits(c) \/ ShutdownLooks(c)
    PROVE  TurnInv'
<1>1. PICK where \in Places :
         /\ Go(c, where)
         /\ where \in {"acquire", "claim", "idle", "last", "wait", "look", "disarm"}
  BY ControlAt DEF Arm, ArmAsked, Armed, Off, Shutdown, ShutdownWaits,
     ShutdownLooks, Places, StopPlaces, Leaving, Done
<1>2. at[c] # "idle" /\ command' = command /\ overlapped' = overlapped
  BY DEF Arm, ArmAsked, Armed, Off, Shutdown, ShutdownWaits,
     ShutdownLooks, At, givenVars
<1>3. /\ at'[c] = where /\ command'[c] = command[c]
      /\ CommandPlace(c)' => CommandPlaces'
      /\ ~overlapped => Onward(c) /\ AloneInv'
  BY <1>1, <1>2, GoesOn
<1>4. CommandPlace(c) /\ PlaceAt(c)
  BY ControlAt
<1>5. CommandPlaces'
  BY <1>1, <1>3, <1>4 DEF Arm, ArmAsked, Armed, Off, Shutdown, ShutdownWaits,
     ShutdownLooks, At, Go, Done, CommandPlace,
     Opening, Asking, StopPlaces, LettingGo
<1>6. GenShape'
  BY TurnShape DEF Arm, ArmAsked, Armed, Off, Shutdown, ShutdownWaits,
     ShutdownLooks, audioVars, OneByOne, TurnInv, GenShape,
     CountInKinds
<1>7. ASSUME ~overlapped PROVE InTurn'
  <2>1. /\ Onward(c) /\ AloneInv' /\ EngineAt(c)
        /\ PhaseAt(c) /\ SessionAt(c) /\ ByAt(c) /\ ShutAt(c)
        /\ \A d \in Clients \ {c} : command[d] = "lastStop" => ShutSince
    BY <1>3, <1>7, OneAt, ControlAt DEF OneByOne, TurnInv, InTurn
  <2>2. PhaseAt(c)'
    <3>1. CASE ArmAsked(c) \/ Shutdown(c) \/ ShutdownWaits(c) \/ ShutdownLooks(c)
      <4>1. phase' = phase /\ ~Arming(c) /\ ~Disarming(c)
        BY <3>1, <1>4 DEF ArmAsked, Shutdown, ShutdownWaits, ShutdownLooks, At, phaseVars,
           CommandPlace, Arming, Disarming, DisarmPlaces, StopPlaces, Leaving
      <4>2. phase \in {"off", "armed"}
        BY <4>1, <2>1 DEF PhaseAt
      <4>3. command[c] \in {"arm", "shutdown"}
        BY <3>1, <1>4 DEF ArmAsked, Shutdown, ShutdownWaits, ShutdownLooks, At, CommandPlace
      <4>4. (where = "last" => phase = "off") /\ (where = "disarm" => phase = "armed")
        BY <3>1, <4>2, <1>1, <1>3 DEF ArmAsked, Shutdown, ShutdownWaits, ShutdownLooks, At, Done, Go
      <4> QED BY <4>1, <4>2, <4>3, <4>4, <1>3 DEF PhaseAt, RecordCommands
    <3>2. CASE Arm(c)
      <4>1. command[c] = "arm" /\ at[c] = "claim"
        BY <3>2 DEF Arm, At
      <4>2. phase \in {"off", "armed"}
        BY <4>1, <2>1 DEF PhaseAt, Arming, Disarming
      <4>3. \/ phase = "off" /\ phase' = "arming" /\ at'[c] = "acquire"
            \/ phase = "armed" /\ phase' = "armed" /\ at'[c] = "idle"
        BY <3>2, <4>2, <1>3, TurnShape DEF Arm, Go, Done
      <4> QED BY <4>1, <4>3, <1>3 DEF PhaseAt, RecordCommands, Arming
    <3>3. CASE Armed(c)
      <4>1. command[c] = "arm" /\ at'[c] = "idle" /\ phase' = "armed"
        BY <3>3, <1>3, <1>4, TurnShape DEF Armed, Go, Done, PlaceAt
      <4> QED BY <4>1, <1>3 DEF PhaseAt, RecordCommands
    <3>4. CASE Off(c)
      <4>1. /\ command[c] \in {"arm", "disarm", "shutdown"} /\ phase' = "off"
            /\ at'[c] \in {"last", "idle"}
        BY <3>4, <1>3, <1>4, TurnShape DEF Off, Go, PlaceAt, Leaving
      <4> QED BY <4>1, <1>3 DEF PhaseAt, RecordCommands
    <3> QED BY <3>1, <3>2, <3>3, <3>4
  <2>3. SessionAt(c)'
    BY <1>1, <1>3, <1>4, <2>1, TurnShape DEF Arm, ArmAsked, Armed, Off, Shutdown, ShutdownWaits,
     ShutdownLooks, At, Go,
       Done, clickVars, engineVars, SessionAt, EngineAt, ByAt, Kept, Opening, LettingGo,
       RecordCommands, CommandPlace
  <2>4. ByAt(c)'
    BY <1>1, <1>3, <1>4, <2>1, TurnShape DEF Arm, ArmAsked, Armed, Off, Shutdown, ShutdownWaits,
     ShutdownLooks, At, Go,
       Done, clickVars, audioVars, phaseVars, ByAt, PhaseAt, SessionAt, EngineAt, Kept, Opening,
       CommandPlace, PlaceAt, Arming, Disarming, DisarmPlaces, Leaving
  <2>5. ShutAt(c)'
    BY <1>1, <1>3, <1>4, <2>1 DEF Arm, ArmAsked, Armed, Off, Shutdown, ShutdownWaits,
     ShutdownLooks, At, Go, Done,
       engineVars, phaseVars, ShutAt, EngineAt, CommandPlace, LettingGo
  <2>6. \A d \in Clients \ {c} : command[d] = "lastStop" => ShutSince'
    <3>1. CASE ArmAsked(c) \/ Shutdown(c) \/ ShutdownWaits(c) \/ ShutdownLooks(c)
      <4>1. phase' = phase /\ open' = open /\ (stopping => stopping')
        BY <3>1 DEF ArmAsked, Shutdown, ShutdownWaits, ShutdownLooks, engineVars, phaseVars
      <4> QED BY <4>1, <2>1 DEF ShutSince
    <3>2. CASE Arm(c) \/ Armed(c) \/ Off(c)
      <4>1. stopping' = stopping /\ open' = open
        BY <3>2 DEF Arm, Armed, Off, engineVars
      <4>2. ASSUME stopping, phase = "off", open = 0 PROVE phase' = "off"
        <5>1. ~Arm(c)
          BY <4>2, <2>1 DEF Arm, At, ShutAt
        <5>2. ~Armed(c)
          BY <4>2, <2>1, <1>4 DEF Armed, ShutAt, PlaceAt
        <5> QED BY <5>1, <5>2, <3>2 DEF Off
      <4> QED BY <4>1, <4>2, <2>1 DEF ShutSince
    <3> QED BY <3>1, <3>2
  <2> QED BY <2>1, <2>2, <2>3, <2>4, <2>5, <2>6, OneAtNext DEF InTurn
<1> QED BY <1>2, <1>5, <1>6, <1>7 DEF TurnInv

LEMMA DisarmTurns ==
    ASSUME OneByOne, NEW c \in Clients, Disarm(c)
    PROVE  TurnInv'
<1>1. PICK where \in Places : Go(c, where) /\ where \in {"end", "idle", "last"}
  BY ControlAt DEF Disarm, Places, StopPlaces, Leaving
<1>2. at[c] # "idle" /\ command' = command /\ overlapped' = overlapped
  BY DEF Disarm, At, givenVars
<1>3. /\ at'[c] = where /\ command'[c] = command[c]
      /\ CommandPlace(c)' => CommandPlaces'
      /\ ~overlapped => Onward(c) /\ AloneInv'
  BY <1>1, <1>2, GoesOn
<1>4. CommandPlace(c) /\ PlaceAt(c)
  BY ControlAt
<1>5. CommandPlaces'
  BY <1>1, <1>3, <1>4 DEF Disarm, At, Go, CommandPlace, Opening, Asking, StopPlaces, LettingGo
<1>6. GenShape'
  BY TurnShape DEF Disarm, audioVars, OneByOne, TurnInv, GenShape, CountInKinds
<1>7. ASSUME ~overlapped PROVE InTurn'
  <2>1. /\ Onward(c) /\ AloneInv' /\ EngineAt(c)
        /\ PhaseAt(c) /\ SessionAt(c) /\ ByAt(c) /\ ShutAt(c)
        /\ \A d \in Clients \ {c} : command[d] = "lastStop" => ShutSince
    BY <1>3, <1>7, OneAt, ControlAt DEF OneByOne, TurnInv, InTurn
  <2>2. PhaseAt(c)'
    BY <1>1, <1>3, <1>4, <2>1 DEF Disarm, At, Go, PhaseAt, PlaceAt, Arming, Disarming,
       DisarmPlaces, Leaving, StopPlaces, RecordCommands, CommandPlace
  <2>3. SessionAt(c)'
    BY <1>1, <1>3, <1>4, <2>1, TurnShape DEF Disarm, At, Go, clickVars, engineVars, SessionAt,
       EngineAt, ByAt, Kept, Opening, LettingGo, RecordCommands, CommandPlace
  <2>4. ByAt(c)'
    BY <1>1, <1>3, <1>4, <2>1, TurnShape DEF Disarm, At, Go, clickVars, audioVars, ByAt, PhaseAt,
       SessionAt, EngineAt, Kept, Opening, CommandPlace
  <2>5. ShutAt(c)'
    BY <1>1, <1>3, <1>4, <2>1 DEF Disarm, At, Go, engineVars, ShutAt, EngineAt, CommandPlace,
       LettingGo
  <2>6. \A d \in Clients \ {c} : command[d] = "lastStop" => ShutSince'
    BY <1>4, <2>1 DEF Disarm, At, engineVars, ShutSince, PlaceAt, Arming, Leaving, EngineAt
  <2> QED BY <2>1, <2>2, <2>3, <2>4, <2>5, <2>6, OneAtNext DEF InTurn
<1> QED BY <1>2, <1>5, <1>6, <1>7 DEF TurnInv

LEMMA TapTurns ==
    ASSUME OneByOne, NEW c \in Clients,
           Attach(c) \/ Detach(c)
    PROVE  TurnInv'
<1>1. PICK where \in Places : Go(c, where) /\ where \in {"armed", "releaseRecorder"}
  BY ControlAt DEF Attach, Detach, Places, StopPlaces, Leaving
<1>2. at[c] # "idle" /\ command' = command /\ overlapped' = overlapped
  BY DEF Attach, Detach, givenVars
<1>3. /\ at'[c] = where /\ command'[c] = command[c]
      /\ CommandPlace(c)' => CommandPlaces'
      /\ ~overlapped => Onward(c) /\ AloneInv'
  BY <1>1, <1>2, GoesOn
<1>4. CommandPlace(c) /\ PlaceAt(c)
  BY ControlAt
<1>5. CommandPlaces'
  BY <1>1, <1>3, <1>4 DEF Attach, Detach, Go, CommandPlace, Opening, Asking, StopPlaces, LettingGo
<1>6. GenShape'
  BY TurnShape DEF Attach, Detach, OneByOne, TurnInv, GenShape, CountInKinds
<1>7. ASSUME ~overlapped PROVE InTurn'
  <2>1. /\ Onward(c) /\ AloneInv' /\ EngineAt(c)
        /\ PhaseAt(c) /\ SessionAt(c) /\ ByAt(c) /\ ShutAt(c)
        /\ \A d \in Clients \ {c} : command[d] = "lastStop" => ShutSince
    BY <1>3, <1>7, OneAt, ControlAt DEF OneByOne, TurnInv, InTurn
  <2>2. PhaseAt(c)'
    BY <1>1, <1>3, <1>4, <2>1 DEF Attach, Detach, Go, phaseVars, PhaseAt, PlaceAt, Arming,
       Disarming, DisarmPlaces, Leaving, StopPlaces, RecordCommands, CommandPlace
  <2>3. SessionAt(c)'
    BY <1>1, <1>3, <1>4, <2>1, TurnShape DEF Attach, Detach, Go, clickVars, engineVars, SessionAt,
       EngineAt, ByAt, Kept, Opening, LettingGo, RecordCommands, CommandPlace
  <2>4. ByAt(c)'
    BY <1>1, <1>3, <1>4, <2>1, TurnShape DEF Attach, Detach, Go, clickVars, phaseVars, ByAt,
       PhaseAt, SessionAt, EngineAt, Kept, Opening, CommandPlace
  <2>5. ShutAt(c)'
    BY <1>1, <1>3, <1>4, <2>1 DEF Attach, Detach, Go, engineVars, phaseVars, ShutAt, EngineAt,
       CommandPlace, LettingGo
  <2>6. \A d \in Clients \ {c} : command[d] = "lastStop" => ShutSince'
    BY <1>4, <2>1 DEF Attach, Detach, engineVars, phaseVars, ShutSince, PlaceAt, Arming, Leaving,
       EngineAt
  <2> QED BY <2>1, <2>2, <2>3, <2>4, <2>5, <2>6, OneAtNext DEF InTurn
<1> QED BY <1>2, <1>5, <1>6, <1>7 DEF TurnInv

LEMMA RecordTurns ==
    ASSUME OneByOne, NEW c \in Clients,
           Record(c) \/ RecordClick(c) \/ Unlock(c)
    PROVE  TurnInv'
<1>1. PICK where \in Places : Go(c, where) /\ where \in {"idle", "unlock", "click"}
  BY ControlAt DEF Record, RecordClick, Unlock, Places, StopPlaces, Leaving, Done
<1>2. at[c] # "idle" /\ command' = command /\ overlapped' = overlapped
  BY DEF Record, RecordClick, Unlock, At, givenVars
<1>3. /\ at'[c] = where /\ command'[c] = command[c]
      /\ CommandPlace(c)' => CommandPlaces'
      /\ ~overlapped => Onward(c) /\ AloneInv'
  BY <1>1, <1>2, GoesOn
<1>4. CommandPlace(c) /\ PlaceAt(c)
  BY ControlAt
<1>5. CommandPlaces'
  BY <1>1, <1>3, <1>4 DEF Record, RecordClick, Unlock, At, Go, Done, CommandPlace, Opening,
     Asking, StopPlaces, LettingGo, RecordCommands
<1>6. GenShape'
  BY TurnShape DEF Record, RecordClick, Unlock, audioVars, OneByOne, TurnInv, GenShape, CountInKinds,
     Tell
<1>7. ASSUME ~overlapped PROVE InTurn'
  <2>1. /\ Onward(c) /\ AloneInv' /\ EngineAt(c)
        /\ PhaseAt(c) /\ SessionAt(c) /\ ByAt(c) /\ ShutAt(c)
        /\ \A d \in Clients \ {c} : command[d] = "lastStop" => ShutSince
    BY <1>3, <1>7, OneAt, ControlAt DEF OneByOne, TurnInv, InTurn
  <2>2. PhaseAt(c)'
    BY <1>1, <1>3, <1>4, <2>1 DEF Record, RecordClick, Unlock, At, Go, Done, phaseVars, PhaseAt,
       PlaceAt, Arming, Disarming, DisarmPlaces, Leaving, StopPlaces, RecordCommands, CommandPlace
  <2>3. SessionAt(c)'
    <3>1. at[c] \in {"begin", "ask", "unlock"} /\ UNCHANGED <<clickHeld, startedBy, holders>>
      BY DEF Record, RecordClick, Unlock, At, clickVars, engineVars
    <3>2. clickHeld <=> "metronome" \in holders
      BY <2>1, <3>1 DEF SessionAt
    <3> QED BY <1>1, <1>3, <3>1, <3>2 DEF SessionAt, Kept, Opening, LettingGo
  <2>4. ByAt(c)'
    <3>1. at[c] \in {"begin", "ask", "unlock"} /\ UNCHANGED <<clickHeld, startedBy, phase>>
      BY DEF Record, RecordClick, Unlock, At, clickVars, phaseVars
    <3>2. /\ gen.want => gen'.want
          /\ gen'.asked \in {gen.asked, "record"} /\ gen'.countIn = gen.countIn
          /\ gen.cancel => gen'.cancel
      BY TurnShape DEF Record, RecordClick, Unlock, audioVars, Tell
    <3> QED BY <1>1, <1>3, <2>1, <3>1, <3>2 DEF ByAt
  <2>5. ShutAt(c)'
    BY <1>1, <1>3, <1>4, <2>1 DEF Record, RecordClick, Unlock, At, Go, Done, engineVars,
       phaseVars, ShutAt, EngineAt, CommandPlace, LettingGo, RecordCommands
  <2>6. \A d \in Clients \ {c} : command[d] = "lastStop" => ShutSince'
    BY <1>4, <2>1 DEF Record, RecordClick, Unlock, At, engineVars, phaseVars, ShutSince, PlaceAt,
       Arming, Leaving, EngineAt
  <2> QED BY <2>1, <2>2, <2>3, <2>4, <2>5, <2>6, OneAtNext DEF InTurn
<1> QED BY <1>2, <1>5, <1>6, <1>7 DEF TurnInv

LEMMA EndTurns ==
    ASSUME OneByOne, NEW c \in Clients,
           DisarmEnds(c) \/ Stop(c)
    PROVE  TurnInv'
<1>1. PICK where \in Places : Go(c, where) /\ where \in {"takesClick", "idle"}
  BY ControlAt DEF DisarmEnds, Stop, Places, StopPlaces, Leaving, Done, EndTake, takeVars, Go, At
<1>2. at[c] # "idle" /\ command' = command /\ overlapped' = overlapped
  BY DEF DisarmEnds, Stop, At, givenVars, EndTake, takeVars, Done, Go
<1>3. /\ at'[c] = where /\ command'[c] = command[c]
      /\ CommandPlace(c)' => CommandPlaces'
      /\ ~overlapped => Onward(c) /\ AloneInv'
  BY <1>1, <1>2, GoesOn
<1>4. CommandPlace(c) /\ PlaceAt(c)
  BY ControlAt
<1>5. CommandPlaces'
  BY <1>1, <1>3, <1>4 DEF DisarmEnds, Stop, At, Go, Done, CommandPlace, Opening, Asking,
     StopPlaces, LettingGo, EndTake, takeVars, PlaceAt
<1>6. GenShape'
  BY TurnShape DEF DisarmEnds, Stop, OneByOne, TurnInv, GenShape, CountInKinds, EndTake, takeVars, Done,
     Go, At, Tell
<1>7. ASSUME ~overlapped PROVE InTurn'
  <2>1. /\ Onward(c) /\ AloneInv' /\ EngineAt(c)
        /\ PhaseAt(c) /\ SessionAt(c) /\ ByAt(c) /\ ShutAt(c)
        /\ \A d \in Clients \ {c} : command[d] = "lastStop" => ShutSince
    BY <1>3, <1>7, OneAt, ControlAt DEF OneByOne, TurnInv, InTurn
  <2>2. PhaseAt(c)'
    BY <1>1, <1>3, <1>4, <2>1 DEF DisarmEnds, Stop, At, Go, Done, phaseVars, PhaseAt, PlaceAt,
       Arming, Disarming, DisarmPlaces, Leaving, StopPlaces, RecordCommands, CommandPlace,
       EndTake, takeVars
  <2>3. SessionAt(c)'
    BY <1>1, <1>3, <1>4, <2>1, TurnShape DEF DisarmEnds, Stop, At, Go, Done, clickVars,
       engineVars, SessionAt, EngineAt, ByAt, Kept, Opening, LettingGo, RecordCommands,
       CommandPlace, EndTake, takeVars, PlaceAt
  <2>4. ByAt(c)'
    BY <1>1, <1>3, <1>4, <2>1, TurnShape DEF DisarmEnds, Stop, At, Go, Done, clickVars, phaseVars,
       ByAt, PhaseAt, SessionAt, EngineAt, Kept, Opening, CommandPlace, EndTake, takeVars, Tell
  <2>5. ShutAt(c)'
    BY <1>1, <1>3, <1>4, <2>1 DEF DisarmEnds, Stop, At, Go, Done, engineVars, phaseVars, ShutAt,
       EngineAt, CommandPlace, LettingGo, EndTake, takeVars, PlaceAt
  <2>6. \A d \in Clients \ {c} : command[d] = "lastStop" => ShutSince'
    BY <1>4, <2>1 DEF DisarmEnds, Stop, At, engineVars, phaseVars, ShutSince, PlaceAt, Arming,
       Leaving, EngineAt, EndTake, takeVars, Done, Go
  <2> QED BY <2>1, <2>2, <2>3, <2>4, <2>5, <2>6, OneAtNext DEF InTurn
<1> QED BY <1>2, <1>5, <1>6, <1>7 DEF TurnInv

LEMMA LettingGoTurns ==
    ASSUME OneByOne, NEW c \in Clients,
           StopTheTakesClick(c) \/ TakesClickStops(c) \/ LetGoOfClick(c) \/ RingOut(c)
    PROVE  TurnInv'
<1>1. PICK where \in Places :
         /\ Go(c, where)
         /\ where \in {"stopTakes", "detach", "idle", "letGo", "ringOut", "releaseMetronome"}
  BY ControlAt DEF StopTheTakesClick, TakesClickStops, LetGoOfClick, RingOut, Places, StopPlaces,
     Leaving, Released, NotAcquired, CommandPlace, Asking, RecordCommands
<1>2. at[c] # "idle" /\ command' = command /\ overlapped' = overlapped
  BY DEF StopTheTakesClick, TakesClickStops, LetGoOfClick, RingOut, givenVars, Released, NotAcquired
<1>3. /\ at'[c] = where /\ command'[c] = command[c]
      /\ CommandPlace(c)' => CommandPlaces'
      /\ ~overlapped => Onward(c) /\ AloneInv'
  BY <1>1, <1>2, GoesOn
<1>4. CommandPlace(c) /\ PlaceAt(c)
  BY ControlAt
<1>5. CommandPlaces'
  BY <1>1, <1>3, <1>4 DEF StopTheTakesClick, TakesClickStops, LetGoOfClick, RingOut, Go,
     CommandPlace, Opening, Asking, StopPlaces, LettingGo, Released, NotAcquired, ArmPlaces, DisarmPlaces,
     PlaceAt, RecordCommands
<1>6. GenShape'
  BY TurnShape DEF StopTheTakesClick, TakesClickStops, LetGoOfClick, RingOut, audioVars, OneByOne,
     TurnInv, GenShape, CountInKinds, Released, NotAcquired, Tell
<1>7. ASSUME ~overlapped PROVE InTurn'
  <2>1. /\ Onward(c) /\ AloneInv' /\ EngineAt(c)
        /\ PhaseAt(c) /\ SessionAt(c) /\ ByAt(c) /\ ShutAt(c)
        /\ \A d \in Clients \ {c} : command[d] = "lastStop" => ShutSince
    BY <1>3, <1>7, OneAt, ControlAt DEF OneByOne, TurnInv, InTurn
  <2>2. PhaseAt(c)'
    BY <1>1, <1>3, <1>4, <2>1 DEF StopTheTakesClick, TakesClickStops, LetGoOfClick, RingOut, Go,
       phaseVars, PhaseAt, PlaceAt, Arming, Disarming, DisarmPlaces, Leaving, StopPlaces,
       RecordCommands, CommandPlace, Released, NotAcquired, ArmPlaces, EngineAt, SessionAt
  <2>3. SessionAt(c)'
    BY <1>1, <1>3, <1>4, <2>1, TurnShape DEF StopTheTakesClick, TakesClickStops, LetGoOfClick,
       RingOut, Go, clickVars, engineVars, SessionAt, EngineAt, ByAt, Kept, Opening, LettingGo,
       RecordCommands, CommandPlace, Released, NotAcquired, ArmPlaces, DisarmPlaces, PlaceAt
  <2>4. ByAt(c)'
    BY <1>1, <1>3, <1>4, <2>1, TurnShape DEF StopTheTakesClick, TakesClickStops, LetGoOfClick,
       RingOut, Go, clickVars, audioVars, phaseVars, ByAt, PhaseAt, SessionAt, EngineAt, Kept,
       Opening, CommandPlace, Released, NotAcquired, Tell, IsTheTakes
  <2>5. ShutAt(c)'
    BY <1>1, <1>3, <1>4, <2>1 DEF StopTheTakesClick, TakesClickStops, LetGoOfClick, RingOut, Go,
       engineVars, phaseVars, ShutAt, EngineAt, CommandPlace, LettingGo, Released, NotAcquired, ArmPlaces,
       DisarmPlaces, PlaceAt, RecordCommands, SessionAt
  <2>6. \A d \in Clients \ {c} : command[d] = "lastStop" => ShutSince'
    BY <1>4, <2>1 DEF StopTheTakesClick, TakesClickStops, LetGoOfClick, RingOut, engineVars,
       phaseVars, ShutSince, PlaceAt, Arming, Leaving, EngineAt, Released, NotAcquired
  <2> QED BY <2>1, <2>2, <2>3, <2>4, <2>5, <2>6, OneAtNext DEF InTurn
<1> QED BY <1>2, <1>5, <1>6, <1>7 DEF TurnInv

LEMMA StartTurns ==
    ASSUME OneByOne, NEW c \in Clients,
           StartClick(c) \/ HoldClick(c) \/ ByHand(c)
    PROVE  TurnInv'
<1>1. PICK where \in Places :
         /\ Go(c, where)
         /\ where \in {"idle", "click", "unlock", "hold", "acquire", "start"}
  BY ControlAt DEF StartClick, HoldClick, ByHand, Places, StopPlaces, Leaving, NotAcquired, Done,
     CommandPlace, Asking, RecordCommands
<1>2. at[c] # "idle" /\ command' = command /\ overlapped' = overlapped
  BY DEF StartClick, HoldClick, ByHand, At, givenVars, NotAcquired, RecordCommands
<1>3. /\ at'[c] = where /\ command'[c] = command[c]
      /\ CommandPlace(c)' => CommandPlaces'
      /\ ~overlapped => Onward(c) /\ AloneInv'
  BY <1>1, <1>2, GoesOn
<1>4. CommandPlace(c) /\ PlaceAt(c)
  BY ControlAt
<1>5. CommandPlaces'
  BY <1>1, <1>3, <1>4 DEF StartClick, HoldClick, ByHand, At, Go, Done, CommandPlace, Opening, Asking,
     StopPlaces, LettingGo, NotAcquired, RecordCommands
<1>6. GenShape'
  BY TurnShape DEF StartClick, HoldClick, ByHand, audioVars, OneByOne, TurnInv, GenShape, CountInKinds,
     NotAcquired, RecordCommands
<1>7. ASSUME ~overlapped PROVE InTurn'
  <2>1. /\ Onward(c) /\ AloneInv' /\ EngineAt(c)
        /\ PhaseAt(c) /\ SessionAt(c) /\ ByAt(c) /\ ShutAt(c)
        /\ \A d \in Clients \ {c} : command[d] = "lastStop" => ShutSince
    BY <1>3, <1>7, OneAt, ControlAt DEF OneByOne, TurnInv, InTurn
  <2>2. PhaseAt(c)'
    BY <1>1, <1>3, <1>4, <2>1 DEF StartClick, HoldClick, ByHand, At, Go, Done, phaseVars, PhaseAt,
       PlaceAt, Arming, Disarming, DisarmPlaces, Leaving, StopPlaces, RecordCommands,
       CommandPlace, NotAcquired, Asking
  <2>3. SessionAt(c)'
    BY <1>1, <1>3, <1>4, <2>1, TurnShape DEF StartClick, HoldClick, ByHand, At, Go, Done, clickVars,
       engineVars, SessionAt, EngineAt, ByAt, Kept, Opening, LettingGo, RecordCommands,
       CommandPlace, NotAcquired, Asking
  <2>4. ByAt(c)'
    BY <1>1, <1>3, <1>4, <2>1, TurnShape DEF StartClick, HoldClick, ByHand, At, Go, Done, clickVars,
       audioVars, phaseVars, ByAt, PhaseAt, SessionAt, EngineAt, Kept, Opening, CommandPlace,
       NotAcquired, Asking, RecordCommands
  <2>5. ShutAt(c)'
    BY <1>1, <1>3, <1>4, <2>1 DEF StartClick, HoldClick, ByHand, At, Go, Done, engineVars, phaseVars,
       ShutAt, EngineAt, CommandPlace, LettingGo, NotAcquired, Asking, RecordCommands
  <2>6. \A d \in Clients \ {c} : command[d] = "lastStop" => ShutSince'
    BY <1>4, <2>1 DEF StartClick, HoldClick, ByHand, At, engineVars, phaseVars, ShutSince,
       PlaceAt, Arming, Leaving, EngineAt, NotAcquired, CommandPlace, Asking, RecordCommands
  <2> QED BY <2>1, <2>2, <2>3, <2>4, <2>5, <2>6, OneAtNext DEF InTurn
<1> QED BY <1>2, <1>5, <1>6, <1>7 DEF TurnInv

LEMMA ClickHeldTurns ==
    ASSUME OneByOne, NEW c \in Clients, ClickHeld(c)
    PROVE  TurnInv'
<1>1. PICK where \in Places : Go(c, where) /\ where \in {"hand", "ask"}
  BY ControlAt DEF ClickHeld, Places, StopPlaces, Leaving
<1>2. at[c] # "idle" /\ command' = command /\ overlapped' = overlapped
  BY DEF ClickHeld, givenVars
<1>3. /\ at'[c] = where /\ command'[c] = command[c]
      /\ CommandPlace(c)' => CommandPlaces'
      /\ ~overlapped => Onward(c) /\ AloneInv'
  BY <1>1, <1>2, GoesOn
<1>4. CommandPlace(c) /\ PlaceAt(c)
  BY ControlAt
<1>5. CommandPlaces'
  BY <1>1, <1>3, <1>4 DEF ClickHeld, Go, CommandPlace, Opening, Asking, StopPlaces, LettingGo
<1>6. GenShape'
  BY TurnShape DEF ClickHeld, audioVars, OneByOne, TurnInv, GenShape, CountInKinds
<1>7. ASSUME ~overlapped PROVE InTurn'
  <2>1. /\ Onward(c) /\ AloneInv' /\ EngineAt(c)
        /\ PhaseAt(c) /\ SessionAt(c) /\ ByAt(c) /\ ShutAt(c)
        /\ \A d \in Clients \ {c} : command[d] = "lastStop" => ShutSince
    BY <1>3, <1>7, OneAt, ControlAt DEF OneByOne, TurnInv, InTurn
  <2>2. PhaseAt(c)'
    BY <1>1, <1>3, <1>4, <2>1 DEF ClickHeld, Go, phaseVars, PhaseAt, PlaceAt, Arming, Disarming,
       DisarmPlaces, Leaving, StopPlaces, RecordCommands, CommandPlace
  <2>3. SessionAt(c)'
    BY <1>1, <1>3, <1>4, <2>1, TurnShape DEF ClickHeld, Go, engineVars, SessionAt, EngineAt, ByAt,
       Kept, Opening, LettingGo, RecordCommands, CommandPlace
  <2>4. ByAt(c)'
    BY <1>1, <1>3, <1>4, <2>1, TurnShape DEF ClickHeld, Go, audioVars, phaseVars, ByAt, PhaseAt,
       SessionAt, EngineAt, Kept, Opening, CommandPlace, By, RecordCommands, Streams, Asking
  <2>5. ShutAt(c)'
    BY <1>1, <1>3, <1>4, <2>1 DEF ClickHeld, Go, engineVars, phaseVars, ShutAt, EngineAt,
       CommandPlace, LettingGo
  <2>6. \A d \in Clients \ {c} : command[d] = "lastStop" => ShutSince'
    BY <1>4, <2>1 DEF ClickHeld, engineVars, phaseVars, ShutSince, PlaceAt, Arming, Leaving,
       EngineAt
  <2> QED BY <2>1, <2>2, <2>3, <2>4, <2>5, <2>6, OneAtNext DEF InTurn
<1> QED BY <1>2, <1>5, <1>6, <1>7 DEF TurnInv

LEMMA PreviewTurns ==
    ASSUME OneByOne, NEW c \in Clients,
           Preview(c) \/ Tidy(c) \/ Tidied(c)
    PROVE  TurnInv'
<1>1. PICK where \in Places : Go(c, where) /\ where \in {"ask", "idle", "tidy"}
  BY ControlAt DEF Preview, Tidy, Tidied, Places, StopPlaces, Leaving, Done
<1>2. at[c] # "idle" /\ command' = command /\ overlapped' = overlapped
  BY DEF Preview, Tidy, Tidied, At, givenVars
<1>3. /\ at'[c] = where /\ command'[c] = command[c]
      /\ CommandPlace(c)' => CommandPlaces'
      /\ ~overlapped => Onward(c) /\ AloneInv'
  BY <1>1, <1>2, GoesOn
<1>4. CommandPlace(c) /\ PlaceAt(c)
  BY ControlAt
<1>5. CommandPlaces'
  BY <1>1, <1>3, <1>4 DEF Preview, Tidy, Tidied, At, Go, Done, CommandPlace, Opening, Asking,
     StopPlaces, LettingGo
<1>6. GenShape'
  BY TurnShape DEF Preview, Tidy, Tidied, audioVars, OneByOne, TurnInv, GenShape, CountInKinds
<1>7. ASSUME ~overlapped PROVE InTurn'
  <2>1. /\ Onward(c) /\ AloneInv' /\ EngineAt(c)
        /\ PhaseAt(c) /\ SessionAt(c) /\ ByAt(c) /\ ShutAt(c)
        /\ \A d \in Clients \ {c} : command[d] = "lastStop" => ShutSince
    BY <1>3, <1>7, OneAt, ControlAt DEF OneByOne, TurnInv, InTurn
  <2>2. PhaseAt(c)'
    BY <1>1, <1>3, <1>4, <2>1 DEF Preview, Tidy, Tidied, At, Go, Done, phaseVars, PhaseAt,
       PlaceAt, Arming, Disarming, DisarmPlaces, Leaving, StopPlaces, RecordCommands, CommandPlace
  <2>3. SessionAt(c)'
    BY <1>1, <1>3, <1>4, <2>1, TurnShape DEF Preview, Tidy, Tidied, At, Go, Done, clickVars,
       engineVars, SessionAt, EngineAt, ByAt, Kept, Opening, LettingGo, RecordCommands,
       CommandPlace
  <2>4. ByAt(c)'
    BY <1>1, <1>3, <1>4, <2>1, TurnShape DEF Preview, Tidy, Tidied, At, Go, Done, clickVars,
       audioVars, phaseVars, ByAt, PhaseAt, SessionAt, EngineAt, Kept, Opening, CommandPlace
  <2>5. ShutAt(c)'
    BY <1>1, <1>3, <1>4, <2>1 DEF Preview, Tidy, Tidied, At, Go, Done, engineVars, phaseVars,
       ShutAt, EngineAt, CommandPlace, LettingGo
  <2>6. \A d \in Clients \ {c} : command[d] = "lastStop" => ShutSince'
    BY <1>4, <2>1 DEF Preview, Tidy, Tidied, At, engineVars, phaseVars, ShutSince, PlaceAt,
       Arming, Leaving, EngineAt
  <2> QED BY <2>1, <2>2, <2>3, <2>4, <2>5, <2>6, OneAtNext DEF InTurn
<1> QED BY <1>2, <1>5, <1>6, <1>7 DEF TurnInv

LEMMA PreviewAsksTurns ==
    ASSUME OneByOne, NEW c \in Clients, PreviewAsks(c)
    PROVE  TurnInv'
<1>1. PICK where \in Places : Go(c, where) /\ where \in {"idle"}
  BY ControlAt DEF PreviewAsks, Places, StopPlaces, Leaving, Done
<1>2. at[c] # "idle" /\ command' = command /\ overlapped' = overlapped
  BY DEF PreviewAsks, At, givenVars
<1>3. /\ at'[c] = where /\ command'[c] = command[c]
      /\ CommandPlace(c)' => CommandPlaces'
      /\ ~overlapped => Onward(c) /\ AloneInv'
  BY <1>1, <1>2, GoesOn
<1>4. CommandPlace(c) /\ PlaceAt(c)
  BY ControlAt
<1>5. CommandPlaces'
  BY <1>1, <1>3, <1>4 DEF PreviewAsks, At, Go, Done, CommandPlace, Opening, Asking, StopPlaces,
     LettingGo
<1>6. GenShape'
  BY TurnShape DEF PreviewAsks, OneByOne, TurnInv, GenShape, CountInKinds, Tell
<1>7. ASSUME ~overlapped PROVE InTurn'
  <2>1. /\ Onward(c) /\ AloneInv' /\ EngineAt(c)
        /\ PhaseAt(c) /\ SessionAt(c) /\ ByAt(c) /\ ShutAt(c)
        /\ \A d \in Clients \ {c} : command[d] = "lastStop" => ShutSince
    BY <1>3, <1>7, OneAt, ControlAt DEF OneByOne, TurnInv, InTurn
  <2>2. PhaseAt(c)'
    BY <1>1, <1>3, <1>4, <2>1 DEF PreviewAsks, At, Go, Done, phaseVars, PhaseAt, PlaceAt, Arming,
       Disarming, DisarmPlaces, Leaving, StopPlaces, RecordCommands, CommandPlace
  <2>3. SessionAt(c)'
    BY <1>1, <1>3, <1>4, <2>1, TurnShape DEF PreviewAsks, At, Go, Done, clickVars, engineVars,
       SessionAt, EngineAt, ByAt, Kept, Opening, LettingGo, RecordCommands, CommandPlace
  <2>4. ByAt(c)'
    BY <1>1, <1>3, <1>4, <2>1, TurnShape DEF PreviewAsks, At, Go, Done, clickVars, phaseVars,
       ByAt, PhaseAt, SessionAt, EngineAt, Kept, Opening, CommandPlace, Tell
  <2>5. ShutAt(c)'
    BY <1>1, <1>3, <1>4, <2>1 DEF PreviewAsks, At, Go, Done, engineVars, phaseVars, ShutAt,
       EngineAt, CommandPlace, LettingGo
  <2>6. \A d \in Clients \ {c} : command[d] = "lastStop" => ShutSince'
    BY <1>4, <2>1 DEF PreviewAsks, At, engineVars, phaseVars, ShutSince, PlaceAt, Arming, Leaving,
       EngineAt
  <2> QED BY <2>1, <2>2, <2>3, <2>4, <2>5, <2>6, OneAtNext DEF InTurn
<1> QED BY <1>2, <1>5, <1>6, <1>7 DEF TurnInv

LEMMA GotTurns ==
    ASSUME OneByOne, NEW c \in Clients,
           Join(c) \/ Opened(c)
    PROVE  TurnInv'
<1>1. PICK where \in Places : Go(c, where) /\ where \in {"attach", "hold", "releaseMetronome"}
  BY ControlAt DEF Join, Opened, Places, StopPlaces, Leaving, Hold, Acquired, UserOf
<1>2. at[c] # "idle" /\ command' = command /\ overlapped' = overlapped
  BY DEF Join, Opened, givenVars, Hold, Acquired, UserOf
<1>3. /\ at'[c] = where /\ command'[c] = command[c]
      /\ CommandPlace(c)' => CommandPlaces'
      /\ ~overlapped => Onward(c) /\ AloneInv'
  BY <1>1, <1>2, GoesOn
<1>4. CommandPlace(c) /\ PlaceAt(c)
  BY ControlAt
<1>5. CommandPlaces'
  BY <1>1, <1>3, <1>4 DEF Join, Opened, Go, CommandPlace, Opening, Asking, StopPlaces, LettingGo,
     Hold, Acquired, UserOf, RecordCommands, PlaceAt
<1>6. GenShape'
  BY TurnShape DEF Join, Opened, audioVars, OneByOne, TurnInv, GenShape, CountInKinds, Hold, Acquired,
     UserOf
<1>7. ASSUME ~overlapped PROVE InTurn'
  <2>1. /\ Onward(c) /\ AloneInv' /\ EngineAt(c)
        /\ PhaseAt(c) /\ SessionAt(c) /\ ByAt(c) /\ ShutAt(c)
        /\ \A d \in Clients \ {c} : command[d] = "lastStop" => ShutSince
    BY <1>3, <1>7, OneAt, ControlAt DEF OneByOne, TurnInv, InTurn
  <2>2. PhaseAt(c)'
    BY <1>1, <1>3, <1>4, <2>1 DEF Join, Opened, Go, phaseVars, PhaseAt, PlaceAt, Arming,
       Disarming, DisarmPlaces, Leaving, StopPlaces, RecordCommands, CommandPlace, Hold, Acquired,
       UserOf, Asking
  <2>3. SessionAt(c)'
    BY <1>1, <1>3, <1>4, <2>1, TurnShape DEF Join, Opened, Go, clickVars, SessionAt, EngineAt,
       ByAt, Kept, Opening, LettingGo, RecordCommands, CommandPlace, Hold, Acquired, UserOf,
       PlaceAt, Asking
  <2>4. ByAt(c)'
    BY <1>1, <1>3, <1>4, <2>1, TurnShape DEF Join, Opened, Go, clickVars, audioVars, phaseVars,
       ByAt, PhaseAt, SessionAt, EngineAt, Kept, Opening, CommandPlace, Hold, Acquired, UserOf
  <2>5. ShutAt(c)'
    BY <1>1, <1>3, <1>4, <2>1 DEF Join, Opened, Go, phaseVars, ShutAt, EngineAt, CommandPlace,
       LettingGo, Hold, Acquired, UserOf, RecordCommands, PlaceAt, Asking
  <2>6. \A d \in Clients \ {c} : command[d] = "lastStop" => ShutSince'
    BY <1>4, <2>1 DEF Join, Opened, phaseVars, ShutSince, PlaceAt, Arming, Leaving, EngineAt,
       Hold, Acquired, UserOf, RecordCommands, PhaseAt, ShutAt, CommandPlace, Opening, Asking
  <2> QED BY <2>1, <2>2, <2>3, <2>4, <2>5, <2>6, OneAtNext DEF InTurn
<1> QED BY <1>2, <1>5, <1>6, <1>7 DEF TurnInv

LEMMA SpawnTurns ==
    ASSUME OneByOne, NEW c \in Clients,
           Spawn(c)
    PROVE  TurnInv'
<1>1. PICK where \in Places : Go(c, where) /\ where \in {"await"}
  BY ControlAt DEF Spawn, Places, StopPlaces, Leaving
<1>2. at[c] # "idle" /\ command' = command /\ overlapped' = overlapped
  BY DEF Spawn, givenVars
<1>3. /\ at'[c] = where /\ command'[c] = command[c]
      /\ CommandPlace(c)' => CommandPlaces'
      /\ ~overlapped => Onward(c) /\ AloneInv'
  BY <1>1, <1>2, GoesOn
<1>4. CommandPlace(c) /\ PlaceAt(c)
  BY ControlAt
<1>5. CommandPlaces'
  BY <1>1, <1>3, <1>4 DEF Spawn, Go, CommandPlace, Opening, Asking, StopPlaces, LettingGo
<1>6. GenShape'
  BY TurnShape DEF Spawn, audioVars, OneByOne, TurnInv, GenShape, CountInKinds
<1>7. ASSUME ~overlapped PROVE InTurn'
  <2>1. /\ Onward(c) /\ AloneInv' /\ EngineAt(c)
        /\ PhaseAt(c) /\ SessionAt(c) /\ ByAt(c) /\ ShutAt(c)
        /\ \A d \in Clients \ {c} : command[d] = "lastStop" => ShutSince
    BY <1>3, <1>7, OneAt, ControlAt DEF OneByOne, TurnInv, InTurn
  <2>2. PhaseAt(c)'
    BY <1>1, <1>3, <1>4, <2>1 DEF Spawn, Go, phaseVars, PhaseAt, PlaceAt, Arming, Disarming,
       DisarmPlaces, Leaving, StopPlaces, RecordCommands, CommandPlace
  <2>3. SessionAt(c)'
    BY <1>1, <1>3, <1>4, <2>1, TurnShape DEF Spawn, Go, clickVars, SessionAt, EngineAt, ByAt,
       Kept, Opening, LettingGo, RecordCommands, CommandPlace
  <2>4. ByAt(c)'
    BY <1>1, <1>3, <1>4, <2>1, TurnShape DEF Spawn, Go, clickVars, audioVars, phaseVars, ByAt,
       PhaseAt, SessionAt, EngineAt, Kept, Opening, CommandPlace
  <2>5. ShutAt(c)'
    BY <1>1, <1>3, <1>4, <2>1 DEF Spawn, Go, phaseVars, ShutAt, EngineAt, CommandPlace, LettingGo
  <2>6. \A d \in Clients \ {c} : command[d] = "lastStop" => ShutSince'
    BY <1>4, <2>1 DEF Spawn, phaseVars, ShutSince, PlaceAt, Arming, Leaving, EngineAt
  <2> QED BY <2>1, <2>2, <2>3, <2>4, <2>5, <2>6, OneAtNext DEF InTurn
<1> QED BY <1>2, <1>5, <1>6, <1>7 DEF TurnInv

LEMMA TimedOutTurns ==
    ASSUME OneByOne, NEW c \in Clients,
           TimedOut(c)
    PROVE  TurnInv'
<1>1. PICK where \in Places : Go(c, where) /\ where \in {"giveUp"}
  BY ControlAt DEF TimedOut, Places, StopPlaces, Leaving
<1>2. at[c] # "idle" /\ command' = command /\ overlapped' = overlapped
  BY DEF TimedOut, givenVars
<1>3. /\ at'[c] = where /\ command'[c] = command[c]
      /\ CommandPlace(c)' => CommandPlaces'
      /\ ~overlapped => Onward(c) /\ AloneInv'
  BY <1>1, <1>2, GoesOn
<1>4. CommandPlace(c) /\ PlaceAt(c)
  BY ControlAt
<1>5. CommandPlaces'
  BY <1>1, <1>3, <1>4 DEF TimedOut, Go, CommandPlace, Opening, Asking, StopPlaces, LettingGo
<1>6. GenShape'
  BY TurnShape DEF TimedOut, audioVars, OneByOne, TurnInv, GenShape, CountInKinds
<1>7. ASSUME ~overlapped PROVE InTurn'
  <2>1. /\ Onward(c) /\ AloneInv' /\ EngineAt(c)
        /\ PhaseAt(c) /\ SessionAt(c) /\ ByAt(c) /\ ShutAt(c)
        /\ \A d \in Clients \ {c} : command[d] = "lastStop" => ShutSince
    BY <1>3, <1>7, OneAt, ControlAt DEF OneByOne, TurnInv, InTurn
  <2>2. PhaseAt(c)'
    BY <1>1, <1>3, <1>4, <2>1 DEF TimedOut, Go, phaseVars, PhaseAt, PlaceAt, Arming, Disarming,
       DisarmPlaces, Leaving, StopPlaces, RecordCommands, CommandPlace
  <2>3. SessionAt(c)'
    BY <1>1, <1>3, <1>4, <2>1, TurnShape DEF TimedOut, Go, clickVars, engineVars, SessionAt,
       EngineAt, ByAt, Kept, Opening, LettingGo, RecordCommands, CommandPlace
  <2>4. ByAt(c)'
    BY <1>1, <1>3, <1>4, <2>1, TurnShape DEF TimedOut, Go, clickVars, audioVars, phaseVars, ByAt,
       PhaseAt, SessionAt, EngineAt, Kept, Opening, CommandPlace
  <2>5. ShutAt(c)'
    BY <1>1, <1>3, <1>4, <2>1 DEF TimedOut, Go, engineVars, phaseVars, ShutAt, EngineAt,
       CommandPlace, LettingGo
  <2>6. \A d \in Clients \ {c} : command[d] = "lastStop" => ShutSince'
    BY <1>4, <2>1 DEF TimedOut, engineVars, phaseVars, ShutSince, PlaceAt, Arming, Leaving,
       EngineAt
  <2> QED BY <2>1, <2>2, <2>3, <2>4, <2>5, <2>6, OneAtNext DEF InTurn
<1> QED BY <1>2, <1>5, <1>6, <1>7 DEF TurnInv

LEMMA MissedTurns ==
    ASSUME OneByOne, NEW c \in Clients,
           NotOpened(c) \/ GiveUp(c)
    PROVE  TurnInv'
<1>1. PICK where \in Places : Go(c, where) /\ where \in {"off", "unlock", "idle"}
  BY ControlAt DEF NotOpened, GiveUp, Places, StopPlaces, Leaving, NotAcquired, CommandPlace,
     Asking, Opening, RecordCommands
<1>2. at[c] # "idle" /\ command' = command /\ overlapped' = overlapped
  BY DEF NotOpened, GiveUp, givenVars, NotAcquired, RecordCommands
<1>3. /\ at'[c] = where /\ command'[c] = command[c]
      /\ CommandPlace(c)' => CommandPlaces'
      /\ ~overlapped => Onward(c) /\ AloneInv'
  BY <1>1, <1>2, GoesOn
<1>4. CommandPlace(c) /\ PlaceAt(c)
  BY ControlAt
<1>5. CommandPlaces'
  BY <1>1, <1>3, <1>4 DEF NotOpened, GiveUp, Go, CommandPlace, Opening, Asking, StopPlaces,
     LettingGo, NotAcquired, RecordCommands
<1>6. GenShape'
  BY TurnShape DEF NotOpened, GiveUp, audioVars, OneByOne, TurnInv, GenShape, CountInKinds, NotAcquired,
     RecordCommands
<1>7. ASSUME ~overlapped PROVE InTurn'
  <2>1. /\ Onward(c) /\ AloneInv' /\ EngineAt(c)
        /\ PhaseAt(c) /\ SessionAt(c) /\ ByAt(c) /\ ShutAt(c)
        /\ \A d \in Clients \ {c} : command[d] = "lastStop" => ShutSince
    BY <1>3, <1>7, OneAt, ControlAt DEF OneByOne, TurnInv, InTurn
  <2>2. PhaseAt(c)'
    BY <1>1, <1>3, <1>4, <2>1 DEF NotOpened, GiveUp, Go, phaseVars, PhaseAt, PlaceAt, Arming,
       Disarming, DisarmPlaces, Leaving, StopPlaces, RecordCommands, CommandPlace, NotAcquired,
       Asking, Opening
  <2>3. SessionAt(c)'
    BY <1>1, <1>3, <1>4, <2>1, TurnShape DEF NotOpened, GiveUp, Go, clickVars, SessionAt,
       EngineAt, ByAt, Kept, Opening, LettingGo, RecordCommands, CommandPlace, NotAcquired, Asking
  <2>4. ByAt(c)'
    BY <1>1, <1>3, <1>4, <2>1, TurnShape DEF NotOpened, GiveUp, Go, clickVars, audioVars,
       phaseVars, ByAt, PhaseAt, SessionAt, EngineAt, Kept, Opening, CommandPlace, NotAcquired,
       Asking, RecordCommands
  <2>5. ShutAt(c)'
    BY <1>1, <1>3, <1>4, <2>1 DEF NotOpened, GiveUp, Go, phaseVars, ShutAt, EngineAt,
       CommandPlace, LettingGo, NotAcquired, Asking, Opening, RecordCommands
  <2>6. \A d \in Clients \ {c} : command[d] = "lastStop" => ShutSince'
    BY <1>4, <2>1 DEF NotOpened, GiveUp, phaseVars, ShutSince, PlaceAt, Arming, Leaving, EngineAt,
       NotAcquired, CommandPlace, Asking, Opening, RecordCommands
  <2> QED BY <2>1, <2>2, <2>3, <2>4, <2>5, <2>6, OneAtNext DEF InTurn
<1> QED BY <1>2, <1>5, <1>6, <1>7 DEF TurnInv

LEMMA ReleaseTurns ==
    ASSUME OneByOne, NEW c \in Clients,
           Release(c, "recorder") \/ Release(c, "metronome")
    PROVE  TurnInv'
<1>1. PICK where \in Places :
         /\ Go(c, where)
         /\ where \in {"closeRecorder", "off", "idle", "unlock", "closeMetronome", "detach"}
  BY ControlAt DEF Release, Places, StopPlaces, Leaving, ReleaseOf, CloseOf, Released, NotAcquired, Asking
<1>2. at[c] # "idle" /\ command' = command /\ overlapped' = overlapped
  BY DEF Release, givenVars, ReleaseOf, CloseOf, Released, NotAcquired, Asking
<1>3. /\ at'[c] = where /\ command'[c] = command[c]
      /\ CommandPlace(c)' => CommandPlaces'
      /\ ~overlapped => Onward(c) /\ AloneInv'
  BY <1>1, <1>2, GoesOn
<1>4. CommandPlace(c) /\ PlaceAt(c)
  BY ControlAt
<1>5. CommandPlaces'
  BY <1>1, <1>3, <1>4 DEF Release, Go, CommandPlace, Opening, Asking, StopPlaces, LettingGo,
     ReleaseOf, CloseOf, Released, NotAcquired, Asking, ArmPlaces, DisarmPlaces, PlaceAt, RecordCommands
<1>6. GenShape'
  BY TurnShape DEF Release, audioVars, OneByOne, TurnInv, GenShape, CountInKinds, ReleaseOf, CloseOf,
     Released, NotAcquired, Asking
<1>7. ASSUME ~overlapped PROVE InTurn'
  <2>1. /\ Onward(c) /\ AloneInv' /\ EngineAt(c)
        /\ PhaseAt(c) /\ SessionAt(c) /\ ByAt(c) /\ ShutAt(c)
        /\ \A d \in Clients \ {c} : command[d] = "lastStop" => ShutSince
    BY <1>3, <1>7, OneAt, ControlAt DEF OneByOne, TurnInv, InTurn
  <2>2. PhaseAt(c)'
    BY <1>1, <1>3, <1>4, <2>1 DEF Release, Go, phaseVars, PhaseAt, PlaceAt, Arming, Disarming,
       DisarmPlaces, Leaving, StopPlaces, RecordCommands, CommandPlace, ReleaseOf, CloseOf,
       Released, NotAcquired, Asking, ArmPlaces, EngineAt, SessionAt
  <2>3. SessionAt(c)'
    BY <1>1, <1>3, <1>4, <2>1, TurnShape DEF Release, Go, clickVars, SessionAt, EngineAt, ByAt,
       Kept, Opening, LettingGo, RecordCommands, CommandPlace, ReleaseOf, CloseOf, Released, NotAcquired, Asking,
       ArmPlaces, DisarmPlaces, PlaceAt
  <2>4. ByAt(c)'
    BY <1>1, <1>3, <1>4, <2>1, TurnShape DEF Release, Go, clickVars, audioVars, phaseVars, ByAt,
       PhaseAt, SessionAt, EngineAt, Kept, Opening, CommandPlace, ReleaseOf, CloseOf, Released, NotAcquired, Asking
  <2>5. ShutAt(c)'
    BY <1>1, <1>3, <1>4, <2>1 DEF Release, Go, phaseVars, ShutAt, EngineAt, CommandPlace,
       LettingGo, ReleaseOf, CloseOf, Released, NotAcquired, Asking, ArmPlaces, DisarmPlaces, PlaceAt, RecordCommands,
       SessionAt
  <2>6. \A d \in Clients \ {c} : command[d] = "lastStop" => ShutSince'
    BY <1>4, <2>1 DEF Release, phaseVars, ShutSince, PlaceAt, Arming, Leaving, EngineAt,
       ReleaseOf, CloseOf, Released, NotAcquired, Asking
  <2> QED BY <2>1, <2>2, <2>3, <2>4, <2>5, <2>6, OneAtNext DEF InTurn
<1> QED BY <1>2, <1>5, <1>6, <1>7 DEF TurnInv

LEMMA CloseTurns ==
    ASSUME OneByOne, NEW c \in Clients,
           Close(c, "recorder") \/ Close(c, "metronome")
    PROVE  TurnInv'
<1>1. PICK where \in Places : Go(c, where) /\ where \in {"off", "idle", "unlock", "detach"}
  BY ControlAt DEF Close, Places, StopPlaces, Leaving, CloseOf, Released, NotAcquired, Asking
<1>2. at[c] # "idle" /\ command' = command /\ overlapped' = overlapped
  BY DEF Close, givenVars, CloseOf, Released, NotAcquired, Asking
<1>3. /\ at'[c] = where /\ command'[c] = command[c]
      /\ CommandPlace(c)' => CommandPlaces'
      /\ ~overlapped => Onward(c) /\ AloneInv'
  BY <1>1, <1>2, GoesOn
<1>4. CommandPlace(c) /\ PlaceAt(c)
  BY ControlAt
<1>5. CommandPlaces'
  BY <1>1, <1>3, <1>4 DEF Close, Go, CommandPlace, Opening, Asking, StopPlaces, LettingGo,
     CloseOf, Released, NotAcquired, Asking, ArmPlaces, DisarmPlaces, PlaceAt, RecordCommands
<1>6. GenShape'
  BY TurnShape DEF Close, audioVars, OneByOne, TurnInv, GenShape, CountInKinds, CloseOf, Released, NotAcquired, Asking
<1>7. ASSUME ~overlapped PROVE InTurn'
  <2>1. /\ Onward(c) /\ AloneInv' /\ EngineAt(c)
        /\ PhaseAt(c) /\ SessionAt(c) /\ ByAt(c) /\ ShutAt(c)
        /\ \A d \in Clients \ {c} : command[d] = "lastStop" => ShutSince
    BY <1>3, <1>7, OneAt, ControlAt DEF OneByOne, TurnInv, InTurn
  <2>2. PhaseAt(c)'
    BY <1>1, <1>3, <1>4, <2>1 DEF Close, Go, phaseVars, PhaseAt, PlaceAt, Arming, Disarming,
       DisarmPlaces, Leaving, StopPlaces, RecordCommands, CommandPlace, CloseOf, Released, NotAcquired, Asking,
       ArmPlaces, EngineAt, SessionAt
  <2>3. SessionAt(c)'
    BY <1>1, <1>3, <1>4, <2>1, TurnShape DEF Close, Go, clickVars, SessionAt, EngineAt, ByAt,
       Kept, Opening, LettingGo, RecordCommands, CommandPlace, CloseOf, Released, NotAcquired, Asking, ArmPlaces,
       DisarmPlaces, PlaceAt
  <2>4. ByAt(c)'
    BY <1>1, <1>3, <1>4, <2>1, TurnShape DEF Close, Go, clickVars, audioVars, phaseVars, ByAt,
       PhaseAt, SessionAt, EngineAt, Kept, Opening, CommandPlace, CloseOf, Released, NotAcquired, Asking
  <2>5. ShutAt(c)'
    BY <1>1, <1>3, <1>4, <2>1 DEF Close, Go, phaseVars, ShutAt, EngineAt, CommandPlace, LettingGo,
       CloseOf, Released, NotAcquired, Asking, ArmPlaces, DisarmPlaces, PlaceAt, RecordCommands, SessionAt
  <2>6. \A d \in Clients \ {c} : command[d] = "lastStop" => ShutSince'
    BY <1>4, <2>1 DEF Close, phaseVars, ShutSince, PlaceAt, Arming, Leaving, EngineAt, CloseOf,
       Released, NotAcquired, Asking
  <2> QED BY <2>1, <2>2, <2>3, <2>4, <2>5, <2>6, OneAtNext DEF InTurn
<1> QED BY <1>2, <1>5, <1>6, <1>7 DEF TurnInv

LEMMA HandStartsTurns ==
    ASSUME OneByOne, NEW c \in Clients, HandStarts(c)
    PROVE  TurnInv'
<1>1. Go(c, "idle") /\ "idle" \in Places /\ at[c] = "start" /\ command' = command
  BY DEF HandStarts, Done, Places
<1>2. /\ at'[c] = "idle" /\ command'[c] = command[c]
      /\ CommandPlace(c)' => CommandPlaces'
      /\ ~overlapped => Onward(c) /\ AloneInv'
  BY <1>1, GoesOn
<1>3. CommandPlace(c) /\ PlaceAt(c)
  BY ControlAt
<1>4. CommandPlaces'
  BY <1>1, <1>2 DEF CommandPlace, Opening, StopPlaces, LettingGo
<1>5. GenShape'
  BY TurnShape DEF HandStarts, Tell, GenShape
<1>6. ASSUME ~overlapped, ~overlapped' PROVE InTurn'
  <2>1. /\ Onward(c) /\ AloneInv' /\ EngineAt(c)
        /\ PhaseAt(c) /\ SessionAt(c) /\ ByAt(c) /\ ShutAt(c)
        /\ \A d \in Clients \ {c} : command[d] = "lastStop" => ShutSince
    BY <1>2, <1>6, OneAt, ControlAt DEF OneByOne, TurnInv, InTurn
  <2>2. command[c] = "startClick"
    BY <1>1, <1>3 DEF CommandPlace
  <2>3. PhaseAt(c)'
    BY <1>1, <1>2, <2>1, <2>2 DEF HandStarts, phaseVars, PhaseAt, Arming, Disarming,
       RecordCommands
  <2>4. SessionAt(c)'
    BY <1>1, <1>2, <2>1 DEF HandStarts, clickVars, engineVars, SessionAt, Kept, Opening, LettingGo
  <2>5. ByAt(c)'
    <3>1. mine[c] = open /\ "metronome" \in holders /\ clickHeld
      BY <1>1, <2>1 DEF SessionAt, Kept
    <3>2. Streams(mine[c])
      BY <2>1, <3>1 DEF EngineAt
    <3>3. gen' = [gen EXCEPT !.cancel = TRUE, !.want = TRUE] /\ gen.asked = "none"
      BY <1>6, <3>2 DEF HandStarts, Tell
    <3>4. gen'.want /\ gen'.cancel /\ gen'.asked = "none"
      BY <3>3, TurnShape
    <3>5. startedBy' = "hand" /\ clickHeld'
      BY <1>1, <2>1, <3>1 DEF HandStarts, clickVars, ByAt
    <3> QED BY <1>2, <3>4, <3>5 DEF ByAt
  <2>6. ShutAt(c)'
    BY <1>2, <2>2 DEF ShutAt
  <2>7. \A d \in Clients \ {c} : command[d] = "lastStop" => ShutSince'
    BY <2>1 DEF HandStarts, engineVars, phaseVars, ShutSince
  <2>8. PhasePlaces' /\ SessionInv' /\ ByInv' /\ ShutInv'
    BY <2>1, <2>3, <2>4, <2>5, <2>6, <2>7, OneAtNext
  <2> QED BY <2>1, <2>8 DEF InTurn
<1>7. overlapped => overlapped'
  BY DEF HandStarts
<1> QED BY <1>4, <1>5, <1>6, <1>7 DEF TurnInv

LEMMA StopClickTurns ==
    ASSUME OneByOne, NEW c \in Clients, StopClick(c)
    PROVE  TurnInv'
<1>1. /\ at' = [at EXCEPT ![c] = "letGo"] /\ overlapped' = overlapped
      /\ command' = [command EXCEPT ![c] = IF @ = "shutdown" THEN "lastStop" ELSE @]
      /\ \/ at[c] = "begin" /\ command[c] = "stopClick"
         \/ at[c] = "last" /\ command[c] = "shutdown"
  BY DEF StopClick, Go, At
<1>2. /\ at'[c] = "letGo"
      /\ command'[c] = IF command[c] = "shutdown" THEN "lastStop" ELSE command[c]
      /\ \A d \in Clients \ {c} : at'[d] = at[d] /\ command'[d] = command[d]
  BY <1>1, TurnShape
<1>3. CommandPlaces'
  <2>1. CommandPlace(c)'
    BY <1>1, <1>2 DEF CommandPlace, Opening, StopPlaces, LettingGo
  <2> QED BY <1>2, <2>1 DEF OneByOne, TurnInv, CommandPlaces, CommandPlace
<1>4. GenShape'
  BY TurnShape DEF StopClick, Tell, GenShape
<1>5. ASSUME ~overlapped PROVE InTurn'
  <2>1. Onward(c) /\ AloneInv'
    BY <1>1, <1>2, <1>5 DEF OneByOne, TurnInv, InTurn, AloneInv, Busy, Onward
  <2>2. /\ EngineAt(c) /\ PhaseAt(c) /\ SessionAt(c) /\ ByAt(c) /\ ShutAt(c)
        /\ \A d \in Clients \ {c} : command[d] = "lastStop" => ShutSince
    BY <1>5, <2>1, OneAt, ControlAt DEF OneByOne, TurnInv, InTurn
  <2>3. PhaseAt(c)'
    BY <1>1, <1>2, <2>2 DEF StopClick, phaseVars, PhaseAt, Arming, Disarming, DisarmPlaces,
       StopPlaces, Leaving, RecordCommands
  <2>4. SessionAt(c)'
    BY <1>1, <1>2, <2>2 DEF StopClick, clickVars, engineVars, SessionAt, Kept, Opening, LettingGo
  <2>5. ByAt(c)'
    BY <1>1, <1>2 DEF ByAt
  <2>6. ShutAt(c)'
    BY <1>1, <1>2, <2>2 DEF StopClick, phaseVars, ShutAt, PhaseAt
  <2>7. \A d \in Clients \ {c} : command[d] = "lastStop" => ShutSince'
    BY <2>2 DEF StopClick, engineVars, phaseVars, ShutSince
  <2> QED BY <2>1, <2>3, <2>4, <2>5, <2>6, <2>7, OneAtNext DEF InTurn
<1> QED BY <1>1, <1>3, <1>4, <1>5 DEF TurnInv

LEMMA GivenTurns ==
    ASSUME OneByOne, NEW c \in Clients, NEW what \in AllCommands, Give(c, what)
    PROVE  TurnInv'
<1>1. /\ at' = [at EXCEPT ![c] = "begin"] /\ at[c] = "idle"
      /\ command' = [command EXCEPT ![c] = what]
      /\ UNCHANGED <<phaseVars, clickVars, engineVars, gen>>
  BY DEF Give, audioVars
<1>2. /\ at'[c] = "begin" /\ command'[c] = what
      /\ \A d \in Clients \ {c} : at'[d] = at[d] /\ command'[d] = command[d]
  BY <1>1, TurnShape
<1>3. CommandPlaces'
  <2>1. what # "lastStop"
    BY DEF AllCommands, RecordCommands
  <2>2. CommandPlace(c)'
    BY <1>2, <2>1 DEF CommandPlace, Opening, StopPlaces
  <2> QED BY <1>2, <2>2 DEF OneByOne, TurnInv, CommandPlaces, CommandPlace
<1>4. GenShape'
  BY <1>1 DEF OneByOne, TurnInv, GenShape
<1>5. ASSUME ~overlapped' PROVE InTurn'
  <2>1. ~overlapped /\ \A d \in Clients : at[d] = "idle"
    BY <1>5 DEF Give
  <2>2. InTurn
    BY <2>1 DEF OneByOne, TurnInv
  <2>3. /\ AloneInv'
        /\ \A d \in Clients \ {c} :
              at[d] = "idle" /\ at'[d] = "idle" /\ command'[d] = command[d]
    BY <1>2, <2>1 DEF AloneInv, Busy
  <2>4. /\ \A d \in Clients : ~Arming(d) /\ ~Disarming(d) /\ ~Kept(d)
        /\ \A d \in Clients : ~Kept(d)' /\ at'[d] \in {"idle", "begin"}
    BY <1>2, <2>1 DEF Arming, Disarming, DisarmPlaces, StopPlaces, Leaving, Kept
  <2>5. phase \in {"off", "armed"}
    BY <2>2, <2>4 DEF InTurn, PhasePlaces
  <2>6. PhasePlaces'
    BY <1>1, <2>4, <2>5 DEF PhasePlaces, phaseVars
  <2>7. SessionInv'
    BY <1>1, <2>1, <2>2, <2>4 DEF InTurn, SessionInv, Nowhere, Opening, LettingGo, clickVars,
       engineVars
  <2>8. ByInv'
    BY <1>1, <2>1, <2>2, <2>4 DEF InTurn, ByInv, Nowhere, phaseVars, clickVars
  <2>9. ShutInv'
    <3>1. what # "lastStop"
      BY DEF AllCommands, RecordCommands
    <3> QED BY <1>1, <1>2, <2>1, <2>2, <2>4, <3>1 DEF InTurn, ShutInv, phaseVars, engineVars
  <2> QED BY <2>3, <2>6, <2>7, <2>8, <2>9 DEF InTurn
<1> QED BY <1>3, <1>4, <1>5 DEF TurnInv

\* What the host threads and the callback do leaves every client where it is.
LEMMA StandingStill ==
    ASSUME OneByOne, GenShape',
           UNCHANGED <<phaseVars, clickVars, engineVars, at, mine, command, overlapped>>,
           startedBy = "hand" /\ clickHeld /\ "metronome" \in holders
                   /\ gen.want /\ gen.asked # "stop" /\ (gen.countIn = "stop" => gen.cancel) =>
               gen'.want /\ gen'.asked # "stop" /\ (gen'.countIn = "stop" => gen'.cancel)
    PROVE  TurnInv'
<1>1. UNCHANGED <<phase, stopping, clickHeld, startedBy, open, holders>>
  BY DEF phaseVars, clickVars, engineVars
<1>2. CommandPlaces'
  BY DEF OneByOne, TurnInv, CommandPlaces, CommandPlace
<1>3. ASSUME InTurn PROVE InTurn'
  <2>1. AloneInv' /\ PhasePlaces' /\ ShutInv'
    BY <1>1, <1>3 DEF InTurn, AloneInv, Busy, PhasePlaces, Arming, Disarming, ShutInv
  <2>2. SessionInv'
    BY <1>1, <1>3 DEF InTurn, SessionInv, Nowhere, Kept
  <2>3. startedBy = "hand" /\ Nowhere({"hand", "start", "letGo"}) =>
            clickHeld /\ "metronome" \in holders
    <3>1. SUFFICES ASSUME startedBy = "hand", Nowhere({"hand", "start", "letGo"})
                   PROVE  clickHeld /\ "metronome" \in holders
      OBVIOUS
    <3>2. clickHeld
      BY <1>3, <3>1 DEF InTurn, ByInv
    <3>3. CASE Nowhere({"hold", "ringOut", "releaseMetronome"})
      BY <1>3, <3>2, <3>3 DEF InTurn, SessionInv
    <3>4. CASE ~Nowhere({"hold", "ringOut", "releaseMetronome"})
      <4>1. PICK c \in Clients : at[c] \in {"hold", "ringOut", "releaseMetronome"}
        BY <3>4 DEF Nowhere
      <4> QED BY <1>3, <3>2, <4>1 DEF InTurn, SessionInv, Kept, LettingGo
    <3> QED BY <3>3, <3>4
  <2>4. ByInv'
    <3>1. Nowhere({"hand", "start", "letGo"})' <=> Nowhere({"hand", "start", "letGo"})
      BY DEF Nowhere
    <3>2. Nowhere({"end", "takesClick", "stopTakes", "letGo"})' <=>
              Nowhere({"end", "takesClick", "stopTakes", "letGo"})
      BY DEF Nowhere
    <3> QED BY <1>1, <1>3, <2>3, <3>1, <3>2 DEF InTurn, ByInv
  <2> QED BY <2>1, <2>2, <2>4 DEF InTurn
<1> QED BY <1>2, <1>3 DEF OneByOne, TurnInv

LEMMA HostTurns ==
    ASSUME OneByOne, NEW n \in DOMAIN host, HostThread(n)
    PROVE  TurnInv'
<1>1. UNCHANGED <<phaseVars, clickVars, engineVars, at, mine, command, overlapped>>
  BY DEF HostThread, TakeTurn, DriversOpen, DriversRefuse, HostStops, givenVars
<1>2. CASE gen' = gen
  BY <1>1, <1>2, StandingStill DEF OneByOne, TurnInv, GenShape
<1>3. CASE gen' # gen
  <2>1. DriversOpen(n) /\ gen' = Quiet /\ host[n] = "opening"
    BY <1>3 DEF HostThread, TakeTurn, DriversOpen, DriversRefuse, HostStops, audioVars
  <2>2. open = 0
    <3>1. n \in Sessions /\ turn = n
      BY <2>1, SessionFacts DEF OneByOne, ControlInv, HostInv
    <3>2. open # 0 => open \in Sessions /\ turn = open /\ host[open] = "streaming"
      BY SessionFacts DEF OneByOne, ControlInv, ShapeInv, HostInv, OpenInv, Sessions
    <3> QED BY <2>1, <3>1, <3>2
  <2>3. "metronome" \notin holders
    BY <2>2 DEF OneByOne, ControlInv, OpenInv
  <2>4. GenShape'
    BY <2>1 DEF GenShape, Quiet, CountInKinds
  <2> QED BY <1>1, <2>3, <2>4, StandingStill
<1> QED BY <1>2, <1>3

LEMMA BlockTurns ==
    ASSUME OneByOne, NEW n \in DOMAIN host, Block(n)
    PROVE  TurnInv'
<1>1. UNCHANGED <<phaseVars, clickVars, engineVars, at, mine, command, overlapped>>
  BY DEF Block, givenVars
<1>2. gen' = TakenUp \/ (TakenUp.countIn # "none" /\ gen' = Counted(TakenUp))
  BY DEF Block
<1>3. /\ TakenUp \in [want : BOOLEAN, running : BOOLEAN, countIn : CountInKinds, asked : CountInKinds,
                      cancel : BOOLEAN]
      /\ TakenUp.want = gen.want /\ TakenUp.asked = "none"
      /\ gen.want /\ gen.asked # "stop" /\ (gen.countIn = "stop" => gen.cancel) =>
            TakenUp.countIn # "stop"
  BY TurnShape DEF TakenUp, CountInKinds
<1>4. GenShape'
  BY <1>2, <1>3 DEF Counted, GenShape, CountInKinds
<1>5. gen.want /\ gen.asked # "stop" /\ (gen.countIn = "stop" => gen.cancel) =>
          gen'.want /\ gen'.asked # "stop" /\ (gen'.countIn = "stop" => gen'.cancel)
  BY <1>2, <1>3 DEF Counted
<1> QED BY <1>1, <1>4, <1>5, StandingStill

\* The types the invariant above has no use for.
RestShape ==
    /\ phase \in {"off", "arming", "armed", "disarming"}
    /\ lease \in 0 .. Len(host) /\ tap \in 0 .. Len(host) /\ turn \in Measuring .. Len(host)
    /\ wanted \in BOOLEAN /\ clickHeld \in BOOLEAN /\ stopping \in BOOLEAN
    /\ startedBy \in {"nobody", "hand", "countIn", "follow", "preview"}
    /\ counting \in 0 .. NotCounting
    /\ phaseLock = {} \/ \E c \in Clients : phaseLock = {c}

Outputs == outputs \in Seq(BOOLEAN)

LEMMA OutputsStep == Outputs /\ [ControlNext]_controlVars => Outputs'
<1> SUFFICES ASSUME Outputs, [ControlNext]_controlVars PROVE Outputs'
  OBVIOUS
<1>1. ASSUME NEW c \in Clients, Spawn(c) PROVE Outputs'
  <2>1. PICK placed \in BOOLEAN : outputs' = Append(outputs, placed)
    BY <1>1 DEF Spawn
  <2> DEFINE Yes == BOOLEAN
  <2>2. outputs \in Seq(Yes) /\ placed \in Yes
    BY DEF Outputs
  <2> HIDE DEF Yes
  <2>3. Append(outputs, placed) \in Seq(Yes)
    BY <2>2, AppendProperties
  <2> QED BY <2>1, <2>3, Zenon DEF Outputs, Yes
<1>2. ASSUME UNCHANGED outputs PROVE Outputs'
  BY <1>2 DEF Outputs
<1>3. ASSUME NEW c \in Clients, CommandStep(c) \/ TimedOut(c), ~Spawn(c) PROVE UNCHANGED outputs
  <2>1. ASSUME Engine(c) \/ TimedOut(c) PROVE UNCHANGED outputs
    BY <1>3, <2>1 DEF Engine, Join, Opened, NotOpened, GiveUp, TimedOut, Release, Close, threadVars
  <2>2. ASSUME Recorder(c) PROVE UNCHANGED outputs
    BY <2>2 DEF Recorder, ArmAsked, Arm, Attach, Armed, Off, Disarm, DisarmEnds, Detach, Record,
       RecordClick, Unlock, Stop, Shutdown, ShutdownWaits, ShutdownLooks, threadVars
  <2>3. ASSUME Click(c) PROVE UNCHANGED outputs
    BY <2>3 DEF Click, StartClick, HoldClick, ClickHeld, ByHand, HandStarts, StopClick,
       StopTheTakesClick, TakesClickStops, LetGoOfClick, RingOut, Preview, PreviewAsks, Tidy,
       Tidied, threadVars
  <2> QED BY <1>3, <2>1, <2>2, <2>3 DEF CommandStep
<1>4. ASSUME NEW n \in DOMAIN host, HostThread(n) \/ Block(n) PROVE UNCHANGED outputs
  BY <1>4 DEF HostThread, TakeTurn, DriversOpen, DriversRefuse, HostStops, Block, threadVars
<1>5. ASSUME NEW c \in Clients, NEW what \in AllCommands, Give(c, what) PROVE UNCHANGED outputs
  BY <1>5 DEF Give, threadVars
<1>6. CASE Measure \/ ReadState \/ UNCHANGED controlVars
  <2>1. UNCHANGED outputs
    BY <1>6 DEF Measure, ReadState, controlVars, threadVars
  <2> QED BY <2>1, <1>2
<1> QED BY <1>1, <1>2, <1>3, <1>4, <1>5, <1>6 DEF ControlNext, IdleNow

LEMMA OutputsAlways == ControlSpec => []Outputs
<1>1. ControlInit => Outputs
  BY EmptySeq DEF ControlInit, Outputs
<1> QED BY <1>1, OutputsStep, PTL DEF ControlSpec

LEMMA RestStep == ControlInv /\ RestShape /\ [ControlNext]_controlVars => RestShape'
<1> SUFFICES ASSUME ControlInv, RestShape, [ControlNext]_controlVars PROVE RestShape'
  OBVIOUS
<1>0. Len(host) \in Nat /\ mine \in [Clients -> 0 .. Len(host)] /\ DOMAIN host = Sessions
  BY SessionFacts DEF ControlInv, ShapeInv
<1>1. ASSUME NEW c \in Clients,
             Join(c) \/ Opened(c) \/ NotOpened(c) \/ GiveUp(c) \/ TimedOut(c)
                \/ \E user \in {"recorder", "metronome"} : Release(c, user) \/ Close(c, user)
      PROVE  RestShape'
  BY <1>1 DEF RestShape, Join, Opened, NotOpened, GiveUp, TimedOut, Release, Close, phaseVars,
     takeVars, clickVars, threadVars, audioVars
<1>2. ASSUME NEW c \in Clients, Spawn(c) PROVE RestShape'
  <2>1. Len(host') = Len(host) + 1
    BY <1>2, AppendProperties DEF Spawn, ControlInv, ShapeInv, HostStates
  <2> QED BY <1>0, <1>2, <2>1 DEF RestShape, Spawn, phaseVars, takeVars, clickVars, audioVars,
     Measuring
<1>3. ASSUME NEW c \in Clients,
             \/ Arm(c) \/ Attach(c) \/ Armed(c) \/ Off(c) \/ Disarm(c) \/ Detach(c)
             \/ ArmAsked(c) \/ Shutdown(c)
      PROVE  RestShape'
  <2>1. mine[c] \in 0 .. Len(host) /\ 0 \in 0 .. Len(host) /\ UNCHANGED <<host, turn>>
    BY <1>0, <1>3 DEF Arm, Attach, Armed, Off, Disarm, Detach, ArmAsked, Shutdown, threadVars
  <2>2. /\ phase' \in {phase, "off", "arming", "armed", "disarming"}
        /\ lease' \in {lease, mine[c], 0} /\ tap' \in {tap, mine[c], 0}
        /\ UNCHANGED <<phaseLock, clickVars, counting>>
    BY <1>3 DEF Arm, Attach, Armed, Off, Disarm, Detach, ArmAsked, Shutdown, phaseVars,
       takeVars, audioVars
  <2>3. wanted' \in BOOLEAN /\ stopping' \in BOOLEAN
    BY <1>3 DEF RestShape, Arm, Attach, Armed, Off, Disarm, Detach, ArmAsked, Shutdown,
       phaseVars, takeVars
  <2> QED BY <2>1, <2>2, <2>3 DEF RestShape, clickVars
<1>4. ASSUME NEW c \in Clients,
             \/ DisarmEnds(c) \/ Stop(c) \/ Record(c) \/ RecordClick(c) \/ Unlock(c)
             \/ ShutdownWaits(c) \/ ShutdownLooks(c)
      PROVE  RestShape'
  <2>1. UNCHANGED <<host, turn, tap, lease, clickHeld, startedBy, phase, stopping>>
    BY <1>4 DEF ShutdownWaits, ShutdownLooks, LooksAtState, DisarmEnds, Stop, Record, RecordClick, Unlock, phaseVars, clickVars, threadVars,
       audioVars
  <2>4. wanted' \in BOOLEAN
    BY <1>4, Zenon DEF RestShape, ShutdownWaits, ShutdownLooks, DisarmEnds, Stop, Record, RecordClick, Unlock, EndTake, takeVars
  <2>5. counting' \in {counting, NotCounting, 0}
    BY <1>4 DEF ShutdownWaits, ShutdownLooks, LooksAtState, DisarmEnds, Stop, Record, RecordClick, Unlock, EndTake, ForgetCounting, takeVars
  <2>2. wanted' \in BOOLEAN /\ counting' \in 0 .. NotCounting
    BY <2>4, <2>5 DEF RestShape, NotCounting
  <2>3. phaseLock' = {} \/ \E d \in Clients : phaseLock' = {d}
    BY <1>4 DEF RestShape, ShutdownWaits, ShutdownLooks, DisarmEnds, Stop, Record, RecordClick, Unlock, phaseVars
  <2> QED BY <2>1, <2>2, <2>3 DEF RestShape
<1>5. ASSUME NEW c \in Clients, Click(c) PROVE RestShape'
  <2>1. UNCHANGED <<phaseVars, wanted, host, turn, tap>>
    BY <1>5 DEF Click, StartClick, HoldClick, ClickHeld, ByHand, HandStarts, StopClick,
       StopTheTakesClick, TakesClickStops, LetGoOfClick, RingOut, Preview, PreviewAsks, Tidy,
       Tidied,
       takeVars, threadVars, audioVars
  <2>2. counting' = counting \/ counting' = NotCounting
    BY <1>5 DEF Click, StartClick, HoldClick, ClickHeld, ByHand, HandStarts, StopClick,
       StopTheTakesClick, TakesClickStops, LetGoOfClick, RingOut, Preview, PreviewAsks, Tidy,
       Tidied,
       takeVars
  <2>3. clickHeld' \in {clickHeld, TRUE, FALSE}
    BY <1>5 DEF Click, StartClick, HoldClick, ClickHeld, ByHand, HandStarts, StopClick,
       StopTheTakesClick, TakesClickStops, LetGoOfClick, RingOut, Preview, PreviewAsks, Tidy,
       Tidied,
       clickVars
  <2>4. startedBy' \in {startedBy, "nobody", "hand", "countIn", "follow", "preview"}
    BY <1>5 DEF Click, StartClick, HoldClick, ClickHeld, ByHand, HandStarts, StopClick,
       StopTheTakesClick, TakesClickStops, LetGoOfClick, RingOut, Preview, PreviewAsks, Tidy,
       Tidied,
       clickVars, By
  <2>5. clickHeld' \in BOOLEAN
    BY <2>3 DEF RestShape
  <2> QED BY <2>1, <2>2, <2>4, <2>5 DEF RestShape, phaseVars, NotCounting
<1>6. ASSUME NEW c \in Clients, NEW what \in AllCommands, Give(c, what) PROVE RestShape'
  BY <1>6 DEF RestShape, Give, phaseVars, takeVars, clickVars, threadVars, audioVars
<1>7. ASSUME NEW n \in DOMAIN host, HostThread(n) PROVE RestShape'
  <2>1. Len(host') = Len(host)
    <3>1. host' = host \/ \E where \in HostStates : host' = [host EXCEPT ![n] = where]
      BY <1>7 DEF HostThread, TakeTurn, DriversOpen, DriversRefuse, HostStops, HostStates
    <3> QED BY <1>7, <3>1, ExceptSeq DEF ControlInv, ShapeInv
  <2>2. turn' \in {turn, n, 0} /\ tap' \in {tap, 0}
    BY <1>7 DEF HostThread, TakeTurn, DriversOpen, DriversRefuse, HostStops, audioVars
  <2>3. n \in 1 .. Len(host)
    BY <1>0, <1>7 DEF Sessions
  <2>4. UNCHANGED <<phaseVars, takeVars, clickVars>>
    BY <1>7 DEF HostThread, TakeTurn, DriversOpen, DriversRefuse, HostStops
  <2>5. turn' \in Measuring .. Len(host') /\ tap' \in 0 .. Len(host')
    BY <1>0, <2>1, <2>2, <2>3 DEF RestShape, Measuring
  <2> QED BY <2>1, <2>4, <2>5 DEF RestShape, phaseVars, takeVars, clickVars
<1>8. ASSUME NEW n \in DOMAIN host, Block(n) PROVE RestShape'
  <2>1. UNCHANGED <<phaseVars, clickVars, threadVars, tap>>
    BY <1>8 DEF Block
  <2>2. wanted' \in BOOLEAN
    BY <1>8 DEF Block, RestShape
  <2>3. counting' \in 0 .. NotCounting
    BY <1>8 DEF Block, RestShape, NotCounting
  <2> QED BY <2>1, <2>2, <2>3 DEF RestShape, phaseVars, clickVars, threadVars
<1>9. CASE Measure
  <2>1. turn' \in {0, Measuring}
    BY <1>9 DEF Measure, Measuring
  <2>2. UNCHANGED <<phaseVars, takeVars, clickVars, host, tap>>
    BY <1>9 DEF Measure, audioVars
  <2> QED BY <1>0, <2>1, <2>2 DEF RestShape, phaseVars, takeVars, clickVars, Measuring
<1>10. CASE ReadState \/ UNCHANGED controlVars
  <2>1. UNCHANGED <<phaseVars, wanted, clickVars, threadVars, tap>>
    BY <1>10 DEF ReadState, controlVars, audioVars, takeVars
  <2>2. counting' \in {counting, NotCounting}
    BY <1>10 DEF ReadState, ForgetCounting, controlVars, takeVars
  <2> QED BY <2>1, <2>2 DEF RestShape, phaseVars, clickVars, threadVars, NotCounting
<1> QED BY <1>1, <1>2, <1>3, <1>4, <1>5, <1>6, <1>7, <1>8, <1>9, <1>10 DEF ControlNext,
   CommandStep,
        Engine, Recorder, IdleNow

LEMMA RestAlways == ControlSpec => []RestShape
<1>1. ControlInit => RestShape
  <2> SUFFICES ASSUME ControlInit PROVE RestShape
    OBVIOUS
  <2>1. Len(host) = 0
    BY EmptySeq DEF ControlInit
  <2>2. wanted \in BOOLEAN /\ clickHeld \in BOOLEAN /\ stopping \in BOOLEAN
    BY DEF ControlInit
  <2> QED BY <2>1, <2>2 DEF ControlInit, RestShape, Measuring, NotCounting
<1> QED BY <1>1, RestStep, ControlAlways, PTL DEF ControlSpec

\* Every variable keeps its type: one client at most is in either lock, and what
\* is said of a session is said of one there is.
LEMMA ControlTypes == ControlSpec => []ControlTypeOK
<1>1. ControlInv /\ RestShape /\ Outputs => ControlTypeOK
  <2> SUFFICES ASSUME ControlInv, RestShape, Outputs PROVE ControlTypeOK
    OBVIOUS
  <2>1. \A c : Cardinality({c}) = 1
    BY FS_Singleton
  <2>2. Cardinality({}) = 0
    BY FS_EmptySet
  <2>3. Cardinality(phaseLock) <= 1
    <3>1. CASE phaseLock = {}
      BY <2>2, <3>1
    <3>2. CASE \E c \in Clients : phaseLock = {c}
      BY <2>1, <3>2
    <3> QED BY <3>1, <3>2 DEF RestShape
  <2>4. Cardinality(openLock) <= 1
    <3>1. openLock = {} \/ \E c \in Clients : openLock = {c}
      BY DEF ControlInv, LockInv
    <3> QED BY <2>1, <2>2, <3>1
  <2> QED BY <2>3, <2>4 DEF ControlTypeOK, RestShape, Outputs, ControlInv, ShapeInv, HostStates,
             Answers
<1> QED BY <1>1, RestAlways, OutputsAlways, ControlAlways, PTL

LEMMA TurnInitOK == ControlInit => TurnInv
<1> SUFFICES ASSUME ControlInit PROVE TurnInv
  OBVIOUS
<1>1. \A c \in Clients : at[c] = "idle" /\ command[c] = "none"
  BY DEF ControlInit
<1>2. CommandPlaces
  BY <1>1 DEF CommandPlaces, CommandPlace, Opening, StopPlaces
<1>3. GenShape
  BY DEF ControlInit, GenShape, Quiet, CountInKinds
<1>4. AloneInv /\ ShutInv
  BY <1>1 DEF AloneInv, Busy, ShutInv
<1>5. PhasePlaces
  BY <1>1 DEF ControlInit, PhasePlaces, RecordCommands
<1>6. SessionInv /\ ByInv
  BY <1>1 DEF ControlInit, SessionInv, ByInv, Kept, Opening, LettingGo
<1> QED BY <1>2, <1>3, <1>4, <1>5, <1>6 DEF TurnInv, InTurn

LEMMA TurnStep == OneByOne /\ [ControlNext]_controlVars => OneByOne'
<1> SUFFICES ASSUME OneByOne, [ControlNext]_controlVars PROVE TurnInv'
  BY ControlStep DEF OneByOne
<1>1. ASSUME NEW c \in Clients, CommandStep(c) \/ TimedOut(c) PROVE TurnInv'
  <2>1. CASE Engine(c)
    BY <2>1, GotTurns, SpawnTurns, MissedTurns, ReleaseTurns, CloseTurns DEF Engine
  <2>2. CASE Recorder(c)
    BY <2>2, PhaseTurns, DisarmTurns, TapTurns, RecordTurns, EndTurns DEF Recorder
  <2>3. CASE Click(c)
    BY <2>3, StartTurns, ClickHeldTurns, HandStartsTurns, StopClickTurns, LettingGoTurns,
       PreviewTurns, PreviewAsksTurns DEF Click
  <2> QED BY <1>1, <2>1, <2>2, <2>3, TimedOutTurns DEF CommandStep
<1>2. ASSUME NEW c \in Clients, NEW what \in AllCommands, Give(c, what) PROVE TurnInv'
  BY <1>2, GivenTurns
<1>3. ASSUME NEW n \in DOMAIN host, HostThread(n) \/ Block(n) PROVE TurnInv'
  BY <1>3, HostTurns, BlockTurns
<1>4. CASE Measure \/ ReadState \/ UNCHANGED controlVars
  <2>1. UNCHANGED <<phaseVars, clickVars, engineVars, at, mine, command, overlapped, gen>>
    BY <1>4 DEF Measure, ReadState, controlVars, givenVars, audioVars
  <2> QED BY <2>1, StandingStill DEF OneByOne, TurnInv, GenShape
<1> QED BY <1>1, <1>2, <1>3, <1>4 DEF ControlNext, IdleNow

LEMMA TurnAlways == ControlSpec => []OneByOne
<1>1. ControlInit => OneByOne
  BY ControlInitOK, TurnInitOK DEF OneByOne
<1> QED BY <1>1, TurnStep, PTL DEF ControlSpec

\* With one command at a time the click holds the session exactly when it
\* believes so, a click a person started plays until a person stops it, a click a
\* take started is gone once the recorder is disarmed, and after a shutdown
\* nothing is open (recorder.rs, StartedBy; recording.rs, shutdown).
THEOREM ClickRight == ControlSpec => []InTurnClickIsRight
<1>1. OneByOne /\ RestShape => InTurnClickIsRight
  <2> SUFFICES ASSUME OneByOne, RestShape, AllIdle, ~overlapped
               PROVE  /\ clickHeld = ("metronome" \in holders)
                      /\ startedBy = "hand" => clickHeld /\ Streams(open) /\ gen.want
                      /\ startedBy \in {"countIn", "follow"} => phase = "armed" /\ clickHeld
                      /\ IsShut => phase = "off" /\ open = 0
    BY DEF InTurnClickIsRight
  <2>1. InTurn /\ \A places : "idle" \notin places => Nowhere(places)
    BY DEF OneByOne, TurnInv, AllIdle, Nowhere
  <2>2. clickHeld <=> "metronome" \in holders
    <3>1. Nowhere({"hold", "ringOut", "releaseMetronome"})
      BY <2>1
    <3> QED BY <2>1, <3>1 DEF InTurn, SessionInv
  <2>3. /\ startedBy = "hand" => clickHeld /\ gen.want
        /\ startedBy \in {"countIn", "follow"} => phase = "armed" /\ clickHeld
    <3>1. /\ Nowhere({"hand", "start", "letGo"})
          /\ Nowhere({"end", "takesClick", "stopTakes", "letGo"})
      BY <2>1
    <3> QED BY <2>1, <3>1 DEF InTurn, ByInv
  <2>4. startedBy = "hand" => Streams(open)
    BY <2>2, <2>3 DEF OneByOne, ControlInv, OpenInv, Streams
  <2>5. IsShut => phase = "off" /\ open = 0
    BY <2>1 DEF InTurn, ShutInv, IsShut
  <2>7. clickHeld \in BOOLEAN
    BY DEF RestShape
  <2>6. clickHeld = ("metronome" \in holders)
    BY <2>2, <2>7
  <2> QED BY <2>3, <2>4, <2>5, <2>6
<1> QED BY <1>1, TurnAlways, RestAlways, PTL
=============================================================================

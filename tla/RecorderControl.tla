-------------------------- MODULE RecorderControl --------------------------
(***************************************************************************)
(* Who opens and closes the interfaces.  The recorder and the metronome    *)
(* share one session (engine.rs); commands of pages, of auto-arm and of    *)
(* the shutdown run on threads of their own and meet at the recorder's     *)
(* phase lock, the engine's open lock and the click's lock (recorder.rs,   *)
(* recording.rs).  Each session has a host thread, which takes the turn    *)
(* no measurement may have meanwhile (engine.rs, host_thread; host.rs,     *)
(* Session).                                                               *)
(*                                                                         *)
(* A block of the callback is one step here: Metronome has its parts, and  *)
(* CaptureRing what a take does with the ring.  Sections under the click's *)
(* lock are one step; the phase and open locks are held across steps.      *)
(***************************************************************************)
EXTENDS Integers, Sequences, FiniteSets

CONSTANTS
    Clients,    \* threads that give commands
    Commands    \* bound: commands given

ASSUME RecorderAssumption == IsFiniteSet(Clients) /\ Commands \in Nat

VARIABLES
    phase,      \* off, arming, armed or disarming
    phaseLock,  \* the clients in the phase lock: one or none
    lease,      \* the session the armed recorder holds
    stopping,   \* the service is shutting down
    wanted,     \* a take is asked for: Capture's recording
    counting,   \* blocks since a take's count-in was asked for, or NotCounting
    clickHeld,  \* the click believes it holds the session
    startedBy,  \* who started the click
    openLock,   \* the clients in the engine's open lock: one or none
    open,       \* the session open for its holders, or 0
    holders,    \* who holds it
    current,    \* what lease() answers, or 0
    host,       \* per session, where its host thread is
    stop,       \* per session, whether the thread is told to stop
    answer,     \* per session, what became of its answer to who opened it
    outputs,    \* per session, whether it was opened with outputs for the click
    turn,       \* the turn: a session, 0 when free, or Measuring
    tap,        \* the session whose callback has the tap, or 0
    gen,        \* the generator of the session that streams
    command, at,\* per client: its command, and where in it
    mine,       \* per client: the session it was handed
    given,      \* commands given so far
    overlapped  \* history: a command was given while another was under way, or
                \* the click started before a preview asked for was taken up

phaseVars == <<phase, phaseLock, lease, stopping>>
takeVars == <<wanted, counting>>
clickVars == <<clickHeld, startedBy>>
engineVars == <<openLock, open, holders, current>>
threadVars == <<host, stop, answer, outputs, turn>>
audioVars == <<tap, gen>>
givenVars == <<command, given, overlapped>>
controlVars == <<phaseVars, takeVars, clickVars, engineVars, threadVars, audioVars, at, mine, givenVars>>

Measuring == -1     \* no session
NotCounting == 4
Quiet == [want |-> FALSE, running |-> FALSE, countIn |-> "none", asked |-> "none", cancel |-> FALSE]

RecordCommands == {"record", "recordCounting", "recordFollowing"}
AllCommands ==
    RecordCommands \cup {"arm", "disarm", "stop", "startClick", "stopClick", "preview", "tidy", "shutdown"}

ControlTypeOK ==
    /\ phase \in {"off", "arming", "armed", "disarming"}
    /\ Cardinality(phaseLock) <= 1 /\ Cardinality(openLock) <= 1
    /\ {lease, open, current, tap} \subseteq 0 .. Len(host) /\ turn \in Measuring .. Len(host)
    /\ wanted \in BOOLEAN /\ clickHeld \in BOOLEAN /\ stopping \in BOOLEAN
    /\ startedBy \in {"nobody", "hand", "countIn", "follow", "preview"}
    /\ counting \in 0 .. NotCounting
    /\ holders \subseteq {"recorder", "metronome"}
    /\ host \in Seq({"new", "opening", "streaming", "closed"})
    /\ stop \in Seq(BOOLEAN) /\ outputs \in Seq(BOOLEAN)
    /\ answer \in Seq({"awaited", "lease", "error", "givenUp"})
    /\ command \in [Clients -> AllCommands \cup {"none", "lastStop"}]
    /\ mine \in [Clients -> 0 .. Len(host)]

ControlInit ==
    /\ phase = "off" /\ phaseLock = {} /\ lease = 0 /\ stopping = FALSE
    /\ wanted = FALSE /\ counting = NotCounting
    /\ clickHeld = FALSE /\ startedBy = "nobody"
    /\ openLock = {} /\ open = 0 /\ holders = {} /\ current = 0
    /\ host = <<>> /\ stop = <<>> /\ answer = <<>> /\ outputs = <<>>
    /\ turn = 0 /\ tap = 0 /\ gen = Quiet
    /\ command = [c \in Clients |-> "none"] /\ at = [c \in Clients |-> "idle"]
    /\ mine = [c \in Clients |-> 0] /\ given = 0 /\ overlapped = FALSE

Give(c, what) ==
    /\ at[c] = "idle" /\ given < Commands
    /\ given' = given + 1
    /\ command' = [command EXCEPT ![c] = what]
    /\ at' = [at EXCEPT ![c] = "begin"]
    /\ mine' = [mine EXCEPT ![c] = 0]
    /\ overlapped' = (overlapped \/ \E d \in Clients : at[d] # "idle")
    /\ UNCHANGED <<phaseVars, takeVars, clickVars, engineVars, threadVars, audioVars>>

-----------------------------------------------------------------------------
(* How a command goes on.                                                  *)

At(c, whats, where) == command[c] \in whats /\ at[c] = where
Go(c, where) == at' = [at EXCEPT ![c] = where]
Done(c) == Go(c, "idle")

UserOf(what) == IF what = "arm" THEN "recorder" ELSE "metronome"
Acquired_Unattached(what, n) ==
    IF what = "arm" THEN "armed" ELSE IF outputs[n] THEN "hold" ELSE "releaseMetronome"

Acquired_NotLetGo(what, n) ==
    IF what = "arm" THEN "attach" ELSE IF outputs[n] THEN "hold" ELSE "idle"

(* With the session in hand: a session without outputs for the click is    *)
(* let go of again, and the click is left as it was.                       *)
Acquired(what, n) ==
    IF what = "arm" THEN "attach" ELSE IF outputs[n] THEN "hold" ELSE "releaseMetronome"
NotAcquired(what) ==
    CASE what = "arm" -> "off" [] what \in RecordCommands -> "unlock" [] OTHER -> "idle"
Released(what, user) ==
    CASE user = "recorder" -> "off"
      [] user = "metronome" /\ what \in {"disarm", "shutdown"} -> "detach"
      [] OTHER -> NotAcquired(what)

Streams(n) == n # 0 /\ host[n] = "streaming"

(* What is asked of a generator reaches the callback while its session     *)
(* streams.                                                                *)
Tell(n, g) == gen' = IF Streams(n) THEN g ELSE gen

-----------------------------------------------------------------------------
(* The engine: acquire and release.                                        *)

Hold(c, n) ==
    /\ holders' = holders \cup {UserOf(command[c])}
    /\ mine' = [mine EXCEPT ![c] = n]
    /\ Go(c, Acquired(command[c], n))

OpenFree_NotLocked == TRUE
OpenFree == openLock = {}

Join(c) ==
    /\ at[c] = "acquire" /\ OpenFree /\ open # 0
    /\ Hold(c, open)
    /\ UNCHANGED <<phaseVars, takeVars, clickVars, openLock, open, current,
                   threadVars, audioVars, givenVars>>

(* The session is opened with the outputs picked by then, which may none   *)
(* of them be found on the interfaces.                                     *)
Spawn(c) ==
    /\ at[c] = "acquire" /\ OpenFree /\ open = 0
    /\ openLock' = openLock \cup {c}
    /\ host' = Append(host, "new")
    /\ stop' = Append(stop, FALSE) /\ answer' = Append(answer, "awaited")
    /\ \E placed \in BOOLEAN : outputs' = Append(outputs, placed)
    /\ mine' = [mine EXCEPT ![c] = Len(host) + 1]
    /\ Go(c, "await")
    /\ UNCHANGED <<phaseVars, takeVars, clickVars, open, holders, current, turn,
                   audioVars, givenVars>>

Opened(c) ==
    /\ at[c] = "await" /\ answer[mine[c]] = "lease"
    /\ openLock' = openLock \ {c}
    /\ open' = mine[c] /\ current' = mine[c]
    /\ Hold(c, mine[c])
    /\ UNCHANGED <<phaseVars, takeVars, clickVars, threadVars, audioVars, givenVars>>

NotOpened_KeepsLock(c) ==
    /\ at[c] = "await" /\ answer[mine[c]] = "error" /\ host[mine[c]] = "closed"
    /\ Go(c, NotAcquired(command[c]))
    /\ UNCHANGED <<phaseVars, takeVars, clickVars, engineVars, threadVars, audioVars,
                   mine, givenVars>>

(* The thread has answered why not, and is joined.                         *)
NotOpened(c) ==
    /\ at[c] = "await" /\ answer[mine[c]] = "error" /\ host[mine[c]] = "closed"
    /\ openLock' = openLock \ {c}
    /\ Go(c, NotAcquired(command[c]))
    /\ UNCHANGED <<phaseVars, takeVars, clickVars, open, holders, current, threadVars,
                   audioVars, mine, givenVars>>

(* After OPEN_TIMEOUT nobody waits for the answer any more; one that comes *)
(* before the channel is dropped is never read.                            *)
TimedOut(c) ==
    /\ at[c] = "await" /\ answer[mine[c]] = "awaited"
    /\ Go(c, "giveUp")
    /\ UNCHANGED <<phaseVars, takeVars, clickVars, engineVars, threadVars, audioVars,
                   mine, givenVars>>

GiveUp(c) ==
    /\ at[c] = "giveUp"
    /\ stop' = [stop EXCEPT ![mine[c]] = TRUE]
    /\ answer' = [answer EXCEPT ![mine[c]] = IF @ = "awaited" THEN "givenUp" ELSE @]
    /\ openLock' = openLock \ {c}
    /\ Go(c, NotAcquired(command[c]))
    /\ UNCHANGED <<phaseVars, takeVars, clickVars, open, holders, current, host, outputs,
                   turn, audioVars, mine, givenVars>>

ReleaseOf(user) == IF user = "recorder" THEN "releaseRecorder" ELSE "releaseMetronome"
CloseOf(user) == IF user = "recorder" THEN "closeRecorder" ELSE "closeMetronome"

(* The last to let go closes the session, and waits until it is closed.    *)
Release(c, user) ==
    /\ at[c] = ReleaseOf(user) /\ OpenFree
    /\ holders' = holders \ {user}
    /\ IF open # 0 /\ holders' = {}
       THEN /\ openLock' = openLock \cup {c}
            /\ stop' = [stop EXCEPT ![open] = TRUE]
            /\ open' = 0
            /\ mine' = [mine EXCEPT ![c] = open]
            /\ Go(c, CloseOf(user))
       ELSE /\ Go(c, Released(command[c], user))
            /\ UNCHANGED <<openLock, stop, open, mine>>
    /\ UNCHANGED <<phaseVars, takeVars, clickVars, current, host, answer, outputs, turn,
                   audioVars, givenVars>>

Close(c, user) ==
    /\ at[c] = CloseOf(user) /\ host[mine[c]] = "closed"
    /\ current' = 0
    /\ openLock' = openLock \ {c}
    /\ Go(c, Released(command[c], user))
    /\ UNCHANGED <<phaseVars, takeVars, clickVars, open, holders, threadVars,
                   audioVars, mine, givenVars>>

Engine(c) ==
    \/ Join(c) \/ Spawn(c) \/ Opened(c) \/ NotOpened(c) \/ GiveUp(c)
    \/ \E user \in {"recorder", "metronome"} : Release(c, user) \/ Close(c, user)

-----------------------------------------------------------------------------
(* The host threads, a measurement, and the callback.                      *)

AnswerWith(n, what) ==
    answer' = [answer EXCEPT ![n] = IF @ = "awaited" THEN what ELSE @]

TurnFree_Unasked == TRUE
TurnFree == turn = 0

(* Session::open takes the turn, or refuses: a measurement has it.         *)
TakeTurn(n) ==
    /\ host[n] = "new"
    /\ IF TurnFree
       THEN turn' = n /\ host' = [host EXCEPT ![n] = "opening"] /\ UNCHANGED answer
       ELSE AnswerWith(n, "error") /\ host' = [host EXCEPT ![n] = "closed"] /\ UNCHANGED turn
    /\ UNCHANGED <<phaseVars, takeVars, clickVars, engineVars, stop, outputs, audioVars,
                   at, mine, givenVars>>

(* The drivers open, and it streams; when nobody takes its answer any more *)
(* it closes again at once.                                                *)
DriversOpen(n) ==
    /\ host[n] = "opening"
    /\ AnswerWith(n, "lease")
    /\ IF answer[n] = "givenUp"
       THEN host' = [host EXCEPT ![n] = "closed"] /\ turn' = 0 /\ UNCHANGED gen
       ELSE host' = [host EXCEPT ![n] = "streaming"] /\ gen' = Quiet /\ UNCHANGED turn
    /\ UNCHANGED <<phaseVars, takeVars, clickVars, engineVars, stop, outputs, tap, at, mine,
                   givenVars>>

DriversRefuse(n) ==
    /\ host[n] = "opening"
    /\ AnswerWith(n, "error")
    /\ host' = [host EXCEPT ![n] = "closed"] /\ turn' = 0
    /\ UNCHANGED <<phaseVars, takeVars, clickVars, engineVars, stop, outputs, audioVars,
                   at, mine, givenVars>>

(* Told to stop: the stream stops, a tap still on it is taken off, and the *)
(* drivers and the turn are let go.  The loop would also end when the pump *)
(* says so, but neither pump there is ever does: it waits for the devices, *)
(* or plays them (engine.rs, wait_for_the_devices; sim.rs, pump).          *)
HostStops(n) ==
    /\ host[n] = "streaming" /\ stop[n]
    /\ host' = [host EXCEPT ![n] = "closed"] /\ turn' = 0
    /\ tap' = IF tap = n THEN 0 ELSE tap
    /\ UNCHANGED <<phaseVars, takeVars, clickVars, engineVars, stop, answer, outputs, gen,
                   at, mine, givenVars>>

HostThread(n) == TakeTurn(n) \/ DriversOpen(n) \/ DriversRefuse(n) \/ HostStops(n)

(* A measurement on the Aggregate page begins, or ends.                    *)
Measure ==
    /\ turn \in {0, Measuring}
    /\ turn' = Measuring - turn
    /\ UNCHANGED <<phaseVars, takeVars, clickVars, engineVars, host, stop, answer, outputs,
                   audioVars, at, mine, givenVars>>

(* A block: what was asked for is taken up, and a count-in under way may   *)
(* have counted.                                                           *)
TakenUp ==
    LET kept == IF ~gen.want \/ gen.cancel THEN "none" ELSE gen.countIn
    IN  [gen EXCEPT !.running = gen.want, !.cancel = FALSE, !.asked = "none",
                    !.countIn = IF gen.want /\ gen.asked # "none" THEN gen.asked ELSE kept]

Counted(g) ==
    IF g.countIn = "stop" THEN [g EXCEPT !.countIn = "none", !.want = FALSE, !.running = FALSE]
    ELSE [g EXCEPT !.countIn = "none"]

Block(n) ==
    /\ Streams(n)
    /\ counting' = IF counting < 3 THEN counting + 1 ELSE counting
    /\ \/ gen' = TakenUp /\ UNCHANGED wanted
       \/ /\ TakenUp.countIn # "none"
          /\ gen' = Counted(TakenUp)
          /\ wanted' = (wanted \/ (TakenUp.countIn = "record" /\ tap = n))
    /\ UNCHANGED <<phaseVars, clickVars, engineVars, threadVars, tap, at, mine, givenVars>>

-----------------------------------------------------------------------------
(* Arm, Disarm and Stop.                                                   *)

PhaseFree == phaseLock = {}

(* Whether a count-in for a take is under way, which also forgets one that *)
(* is not: the callback has had two blocks to take it up.                  *)
CountingOn == counting # NotCounting /\ ~wanted /\ (gen.countIn # "none" \/ counting <= 2)
ForgetCounting == counting' = IF CountingOn THEN counting ELSE NotCounting

(* state() looks whether a count-in is under way when no take is.          *)
LooksAtState == IF phase = "armed" /\ ~wanted THEN ForgetCounting ELSE UNCHANGED counting

(* Refused while shutting down, and for a preset that is not to be had.    *)
ArmAsked(c) ==
    /\ At(c, {"arm"}, "begin")
    /\ Done(c) \/ (~stopping /\ Go(c, "claim"))
    /\ UNCHANGED <<phaseVars, takeVars, clickVars, engineVars, threadVars, audioVars,
                   mine, givenVars>>

Arm(c) ==
    /\ At(c, {"arm"}, "claim") /\ PhaseFree
    /\ IF phase = "off"
       THEN phase' = "arming" /\ Go(c, "acquire") ELSE UNCHANGED phase /\ Done(c)
    /\ UNCHANGED <<phaseLock, lease, stopping, takeVars, clickVars, engineVars,
                   threadVars, audioVars, mine, givenVars>>

(* A fresh ring is hung on the callback; or there is no room for one.      *)
Attach(c) ==
    /\ at[c] = "attach"
    /\ \/ tap = 0 /\ tap' = mine[c] /\ wanted' = FALSE /\ Go(c, "armed")
       \/ UNCHANGED <<tap, wanted>> /\ Go(c, "releaseRecorder")
    /\ UNCHANGED <<phaseVars, counting, clickVars, engineVars, threadVars, gen, mine,
                   givenVars>>

Armed(c) ==
    /\ at[c] = "armed" /\ PhaseFree
    /\ phase' = "armed" /\ lease' = mine[c]
    /\ Done(c)
    /\ UNCHANGED <<phaseLock, stopping, takeVars, clickVars, engineVars, threadVars,
                   audioVars, mine, givenVars>>

Off(c) ==
    /\ at[c] = "off" /\ PhaseFree
    /\ phase' = "off" /\ lease' = 0
    /\ Go(c, IF command[c] = "shutdown" THEN "last" ELSE "idle")
    /\ UNCHANGED <<phaseLock, stopping, takeVars, clickVars, engineVars, threadVars,
                   audioVars, mine, givenVars>>

(* A take being recorded is only stopped this way when it is confirmed.    *)
Disarm(c) ==
    /\ At(c, {"disarm"}, "begin") \/ At(c, {"shutdown"}, "disarm")
    /\ PhaseFree
    /\ \/ phase = "armed" /\ phase' = "disarming" /\ Go(c, "end")
       \/ /\ phase # "armed" \/ (command[c] = "disarm" /\ wanted)
          /\ UNCHANGED phase
          /\ Go(c, IF command[c] = "shutdown" THEN "last" ELSE "idle")
    /\ UNCHANGED <<phaseLock, lease, stopping, takeVars, clickVars, engineVars,
                   threadVars, audioVars, mine, givenVars>>

(* Cancel a count-in and stop the take.                                    *)
EndTake ==
    /\ Tell(lease, [gen EXCEPT !.cancel = TRUE])
    /\ counting' = NotCounting
    /\ wanted' = FALSE

DisarmEnds(c) ==
    /\ at[c] = "end"
    /\ EndTake
    /\ Go(c, "takesClick")
    /\ UNCHANGED <<phaseVars, clickVars, engineVars, threadVars, tap, mine, givenVars>>

(* Off the callback, the ring is closed and the writer finishes its files. *)
Detach(c) ==
    /\ at[c] = "detach"
    /\ tap' = IF tap = lease THEN 0 ELSE tap
    /\ Go(c, "releaseRecorder")
    /\ UNCHANGED <<phaseVars, takeVars, clickVars, engineVars, threadVars, gen, mine,
                   givenVars>>

Stop(c) ==
    /\ At(c, {"stop"}, "begin") /\ PhaseFree
    /\ IF phase = "armed"
       THEN EndTake /\ Go(c, "takesClick")
       ELSE Done(c) /\ UNCHANGED <<gen, takeVars>>
    /\ UNCHANGED <<phaseVars, clickVars, engineVars, threadVars, tap, mine, givenVars>>

(* RecordingService::shutdown: nothing arms from here on; an arm under way *)
(* is waited for, though not for ever.                                     *)
Shutdown(c) ==
    /\ At(c, {"shutdown"}, "begin")
    /\ stopping' = TRUE
    /\ Go(c, "wait")
    /\ UNCHANGED <<phase, phaseLock, lease, takeVars, clickVars, engineVars,
                   threadVars, audioVars, mine, givenVars>>

(* It waits while an arm is under way, for as long as an open takes and a  *)
(* little more, and then looks once more.                                  *)
ShutdownWaits(c) ==
    /\ at[c] = "wait" /\ PhaseFree
    /\ LooksAtState
    /\ Go(c, "look")
    /\ UNCHANGED <<phaseVars, wanted, clickVars, engineVars, threadVars, audioVars,
                   mine, givenVars>>

ShutdownLooks(c) ==
    /\ at[c] = "look" /\ PhaseFree
    /\ LooksAtState
    /\ Go(c, IF phase = "off" THEN "last" ELSE "disarm")
    /\ UNCHANGED <<phaseVars, wanted, clickVars, engineVars, threadVars, audioVars,
                   mine, givenVars>>

-----------------------------------------------------------------------------
(* Record.                                                                 *)

(* With room on the disk a take is asked for, or a count-in to it; the     *)
(* phase lock is kept while the click is held.                             *)
Record(c) ==
    /\ At(c, RecordCommands, "begin") /\ PhaseFree
    /\ IF phase # "armed"
       THEN Done(c) /\ UNCHANGED <<phaseLock, takeVars>>
       ELSE /\ ForgetCounting
            /\ IF wanted \/ CountingOn
               THEN Done(c) /\ UNCHANGED <<phaseLock, wanted>>
               ELSE /\ phaseLock' = {c}
                    /\ \/ Go(c, "unlock") /\ UNCHANGED wanted
                       \/ /\ wanted' = (command[c] # "recordCounting")
                          /\ Go(c, CASE command[c] = "record" -> "unlock"
                                     [] command[c] = "recordFollowing" /\ gen.running -> "unlock"
                                     [] OTHER -> "click")
    /\ UNCHANGED <<phase, lease, stopping, clickVars, engineVars, threadVars,
                   audioVars, mine, givenVars>>

(* The count-in is asked for, or the click is started.                     *)
RecordClick(c) ==
    /\ At(c, RecordCommands, "ask")
    /\ IF command[c] = "recordCounting"
       THEN counting' = 0 /\ Tell(lease, [gen EXCEPT !.asked = "record", !.want = TRUE])
       ELSE UNCHANGED counting /\ Tell(lease, [gen EXCEPT !.want = TRUE])
    /\ Go(c, "unlock")
    /\ UNCHANGED <<phaseVars, wanted, clickVars, engineVars, threadVars, tap, mine, givenVars>>

Unlock(c) ==
    /\ at[c] = "unlock"
    /\ phaseLock' = phaseLock \ {c}
    /\ Done(c)
    /\ UNCHANGED <<phase, lease, stopping, takeVars, clickVars, engineVars,
                   threadVars, audioVars, mine, givenVars>>

(* Reading the state forgets a count-in that is over.                      *)
ReadState ==
    /\ PhaseFree /\ phase = "armed"
    /\ ForgetCounting
    /\ UNCHANGED <<phaseVars, wanted, clickVars, engineVars, threadVars, audioVars,
                   at, mine, givenVars>>

-----------------------------------------------------------------------------
(* The click.                                                              *)

By(what) ==
    CASE what = "recordCounting" -> "countIn"
      [] what = "recordFollowing" -> "follow"
      [] OTHER -> "hand"

(* Refused while shutting down, and with no outputs picked for the click.  *)
StartClick(c) ==
    /\ At(c, {"startClick"}, "begin")
    /\ Done(c) \/ (~stopping /\ Go(c, "click"))
    /\ UNCHANGED <<phaseVars, takeVars, clickVars, engineVars, threadVars, audioVars,
                   mine, givenVars>>

(* hold_click reads whether the click holds the session, and then lets go  *)
(* of the click's lock: opening the interfaces takes a while.              *)
HoldClick(c) ==
    /\ at[c] = "click"
    /\ IF clickHeld
       THEN /\ mine' = [mine EXCEPT ![c] = current]
            /\ Go(c, IF current = 0 THEN NotAcquired(command[c]) ELSE "hold")
       ELSE Go(c, "acquire") /\ UNCHANGED mine
    /\ UNCHANGED <<phaseVars, takeVars, clickVars, engineVars, threadVars, audioVars,
                   givenVars>>

(* A click a person started stays theirs.                                  *)
ClickHeld(c) ==
    /\ at[c] = "hold"
    /\ clickHeld' = TRUE
    /\ startedBy' = IF Streams(mine[c]) /\ gen.want /\ startedBy = "hand" THEN "hand" ELSE By(command[c])
    /\ Go(c, IF command[c] = "startClick" THEN "hand" ELSE "ask")
    /\ UNCHANGED <<phaseVars, takeVars, engineVars, threadVars, audioVars, mine, givenVars>>

ByHand(c) ==
    /\ at[c] = "hand"
    /\ startedBy' = "hand"
    /\ Go(c, "start")
    /\ UNCHANGED <<phaseVars, takeVars, clickHeld, engineVars, threadVars, audioVars,
                   mine, givenVars>>

HandStarts(c) ==
    /\ at[c] = "start"
    /\ Tell(mine[c], [gen EXCEPT !.cancel = TRUE, !.want = TRUE])
    /\ overlapped' = (overlapped \/ gen.asked # "none")
    /\ Done(c)
    /\ UNCHANGED <<phaseVars, takeVars, clickVars, engineVars, threadVars, tap, mine,
                   command, given>>

StopClick(c) ==
    /\ At(c, {"stopClick"}, "begin") \/ At(c, {"shutdown"}, "last")
    /\ Tell(current, [gen EXCEPT !.cancel = TRUE, !.want = FALSE])
    /\ counting' = NotCounting
    /\ command' = [command EXCEPT ![c] = IF @ = "shutdown" THEN "lastStop" ELSE @]
    /\ Go(c, "letGo")
    /\ UNCHANGED <<phaseVars, wanted, clickVars, engineVars, threadVars, tap, mine,
                   given, overlapped>>

IsTheTakes(by) == by \in {"countIn", "follow"}

StopTheTakesClick(c) ==
    /\ at[c] = "takesClick"
    /\ Go(c, IF IsTheTakes(startedBy) THEN "stopTakes" ELSE Released(command[c], "metronome"))
    /\ UNCHANGED <<phaseVars, takeVars, clickVars, engineVars, threadVars, audioVars,
                   mine, givenVars>>

TakesClickStops(c) ==
    /\ at[c] = "stopTakes"
    /\ Tell(current, [gen EXCEPT !.want = FALSE])
    /\ Go(c, "letGo")
    /\ UNCHANGED <<phaseVars, takeVars, clickVars, engineVars, threadVars, tap, mine,
                   givenVars>>

LetGoOfClick(c) ==
    /\ at[c] = "letGo"
    /\ startedBy' = "nobody" /\ clickHeld' = FALSE
    /\ Go(c, IF clickHeld THEN "ringOut" ELSE Released(command[c], "metronome"))
    /\ UNCHANGED <<phaseVars, takeVars, engineVars, threadVars, audioVars, mine, givenVars>>

(* is_active takes the phase lock; then the last click rings out.          *)
RingOut(c) ==
    /\ at[c] = "ringOut" /\ PhaseFree
    /\ Go(c, "releaseMetronome")
    /\ UNCHANGED <<phaseVars, takeVars, clickVars, engineVars, threadVars, audioVars,
                   mine, givenVars>>

Preview(c) ==
    /\ At(c, {"preview"}, "begin") /\ PhaseFree
    /\ IF phase = "armed" /\ current # 0 /\ outputs[current] /\ ~gen.want /\ ~gen.running
       THEN startedBy' = "preview" /\ Go(c, "ask") ELSE UNCHANGED startedBy /\ Done(c)
    /\ mine' = [mine EXCEPT ![c] = current]
    /\ UNCHANGED <<phaseVars, takeVars, clickHeld, engineVars, threadVars, audioVars,
                   givenVars>>

PreviewAsks(c) ==
    /\ At(c, {"preview"}, "ask")
    /\ Tell(mine[c], [gen EXCEPT !.asked = "stop", !.want = TRUE])
    /\ Done(c)
    /\ UNCHANGED <<phaseVars, takeVars, clickVars, engineVars, threadVars, tap, mine,
                   givenVars>>

(* A preview that has stopped itself leaves nothing behind.                *)
Tidy(c) ==
    /\ At(c, {"tidy"}, "begin")
    /\ Go(c, IF startedBy = "preview" /\ (Streams(current) => ~gen.want) THEN "tidy" ELSE "idle")
    /\ UNCHANGED <<phaseVars, takeVars, clickVars, engineVars, threadVars, audioVars,
                   mine, givenVars>>

Tidied(c) ==
    /\ at[c] = "tidy"
    /\ startedBy' = "nobody"
    /\ Done(c)
    /\ UNCHANGED <<phaseVars, takeVars, clickHeld, engineVars, threadVars, audioVars,
                   mine, givenVars>>

Click(c) ==
    \/ StartClick(c) \/ HoldClick(c) \/ ClickHeld(c) \/ ByHand(c) \/ HandStarts(c)
    \/ StopClick(c) \/ StopTheTakesClick(c) \/ TakesClickStops(c) \/ LetGoOfClick(c) \/ RingOut(c)
    \/ Preview(c) \/ PreviewAsks(c) \/ Tidy(c) \/ Tidied(c)

-----------------------------------------------------------------------------
Recorder(c) ==
    \/ ArmAsked(c) \/ Arm(c) \/ Attach(c) \/ Armed(c) \/ Off(c) \/ Disarm(c) \/ DisarmEnds(c) \/ Detach(c)
    \/ Record(c) \/ RecordClick(c) \/ Unlock(c) \/ Stop(c)
    \/ Shutdown(c) \/ ShutdownWaits(c) \/ ShutdownLooks(c)

CommandStep(c) == Engine(c) \/ Recorder(c) \/ Click(c)

IdleNow == (\A c \in Clients : at[c] = "idle") /\ UNCHANGED controlVars

ControlNext ==
    \/ \E c \in Clients : CommandStep(c) \/ TimedOut(c) \/ \E what \in AllCommands : Give(c, what)
    \/ \E n \in DOMAIN host : HostThread(n) \/ Block(n)
    \/ Measure \/ ReadState \/ IdleNow

ControlSpec == ControlInit /\ [][ControlNext]_controlVars

(* The threads of commands and of sessions run; nobody need give a command *)
(* and a measurement need not end.                                         *)
ControlFairSpec ==
    /\ ControlSpec
    /\ \A c \in Clients : WF_controlVars(CommandStep(c))
    /\ \A n \in 1 .. Commands : WF_controlVars(n \in DOMAIN host /\ HostThread(n))

-----------------------------------------------------------------------------
(* Two hosts of one set of drivers never run in this process, whichever    *)
(* session was given up on while its drivers were still opening, and the   *)
(* host of a session nobody holds is told to stop (engine.rs, acquire and  *)
(* start; session.rs of the calibration: "two hosts of one set of vendor   *)
(* drivers in one process is not a thing to try").                         *)
OneHostRuns ==
    /\ \A m, n \in DOMAIN host :
          {host[m], host[n]} \subseteq {"opening", "streaming"} => m = n
    /\ OpenFree =>
          /\ (open # 0) = (holders # {}) /\ current = open
          /\ \A n \in DOMAIN host : n # open /\ host[n] # "closed" => stop[n]

(* While armed, the recorder holds the session it was handed, which        *)
(* streams with the recorder's tap on it; when it is off it holds nothing  *)
(* (recorder.rs, arm and disarm).                                          *)
ArmedIsBacked ==
    /\ phase = "armed" => "recorder" \in holders /\ open = lease /\ Streams(lease) /\ tap = lease
    /\ phase = "off" => "recorder" \notin holders /\ tap = 0

AllIdle == \A c \in Clients : at[c] = "idle"
IsShut == \E c \in Clients : command[c] = "lastStop" /\ at[c] = "idle"

(* With one command at a time, whatever the callback does meanwhile: the   *)
(* click holds the session exactly when it believes so, a click a person   *)
(* started plays until a person stops it, a click a take started is gone   *)
(* once the recorder is disarmed, and after a shutdown nothing is open     *)
(* (recorder.rs, StartedBy; recording.rs, shutdown).                       *)
InTurnClickIsRight ==
    AllIdle /\ ~overlapped =>
        /\ clickHeld = ("metronome" \in holders)
        /\ startedBy = "hand" => clickHeld /\ Streams(open) /\ gen.want
        /\ startedBy \in {"countIn", "follow"} => phase = "armed" /\ clickHeld
        /\ IsShut => phase = "off" /\ open = 0

(* "It holds the session." (recorder.rs, Click::held): whatever commands   *)
(* overlapped, once all are over.                                          *)
ClickHoldsTheSession == AllIdle /\ clickHeld => "metronome" \in holders

(* "Before the process ends: stop any take, finish its files and let go of *)
(* the drivers." (recording.rs, shutdown)                                  *)
ShutdownFinishes == IsShut => phase = "off" /\ open = 0

(* Every command comes to an end, and every session that is told to stop   *)
(* lets its drivers go (recorder.rs; engine.rs, release and host_thread).  *)
CommandsEnd ==
    /\ \A c \in Clients : at[c] # "idle" ~> at[c] = "idle"
    /\ \A n \in 1 .. Commands :
          (n \in DOMAIN host /\ stop[n]) ~> (n \in DOMAIN host /\ host[n] = "closed")

=============================================================================

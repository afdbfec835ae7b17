--------------------------- MODULE AggregateReload ---------------------------
(***************************************************************************)
(* The configuration and the life of the aggregate driver (aggregate's     *)
(* com.rs, aggregate.rs and watch.rs; the server's aggregate/export.rs and *)
(* status.rs).  Gazelle writes the configuration file, bumps a generation  *)
(* in the shared section and signals; a watcher thread in the DAW's        *)
(* process reads the file again and adopts it, queues it for the next      *)
(* createBuffers, or refuses it.                                           *)
(*                                                                         *)
(* A configuration is the number of the save that wrote it.  Every call of *)
(* the DAW but init is one step, under the driver's lock; the watcher lets *)
(* go of the lock between its questions.  Each opening of the interfaces'  *)
(* drivers may fail.                                                       *)
(***************************************************************************)
EXTENDS Integers, FiniteSets, FiniteSetsExt

CONSTANTS
    Saves,      \* bound: how often the configuration is saved
    Refused     \* the saves that do not parse, or name a device this PC has not

ASSUME ReloadAssumption == Saves \in Nat /\ Refused \subseteq 1 .. Saves

None == -1      \* no configuration

VARIABLES
    file,       \* the configuration on disk
    exporting,  \* Gazelle has written the file and not signalled yet
    asked,      \* the generation in the section
    meant,      \* history: the configuration it was asked for
    driver,     \* the COM object: none, made, read, opening, open, watched, leaving
    reading,    \* init: the configuration it read
    config,     \* the configuration in force, None with no plan
    generation, \* the one the driver says is in force
    queued,     \* a configuration for the next createBuffers, with its generation
    stream,     \* the buffers are made
    started,
    watcher,    \* where the watcher thread is
    seen,       \* the generation it last saw
    read,       \* the configuration it read
    refusals,   \* the generations refused, with the reason written down
    resets      \* the generations the DAW was asked to reset for

reloadVars == <<file, exporting, asked, meant, driver, reading, config, generation, queued, stream,
                started, watcher, seen, read, refusals, resets>>

gazelle == <<file, exporting, asked, meant>>
life == <<driver, reading>>
plan == <<config, generation>>
session == <<stream, started>>
watch == <<watcher, seen, read>>

Configs == None .. Saves
Generations == 0 .. Saves
NoneQueued == [config |-> None, generation |-> 0]

ReloadTypeOK ==
    /\ file \in 0 .. Saves /\ exporting \in BOOLEAN /\ asked \in Generations /\ meant \in 0 .. Saves
    /\ driver \in {"none", "made", "read", "opening", "open", "watched", "leaving"}
    /\ {reading, config, read} \subseteq Configs
    /\ {generation, seen} \subseteq Generations
    /\ queued \in [config : Configs, generation : Generations]
    /\ stream \in BOOLEAN /\ started \in BOOLEAN
    /\ watcher \in {"off", "waiting", "asking", "checking", "queueing", "resetting", "adopting"}
    /\ refusals \subseteq Generations /\ resets \subseteq Generations

ReloadInit ==
    /\ file = 0 /\ exporting = FALSE /\ asked = 0 /\ meant = 0
    /\ driver = "none" /\ reading = None
    /\ config = None /\ generation = 0 /\ queued = NoneQueued
    /\ stream = FALSE /\ started = FALSE
    /\ watcher = "off" /\ seen = 0 /\ read = None
    /\ refusals = {} /\ resets = {}

-----------------------------------------------------------------------------
(* Gazelle (export).  With no driver there is no section to bump.          *)
Save ==
    /\ ~exporting /\ file < Saves
    /\ file' = file + 1 /\ exporting' = TRUE
    /\ UNCHANGED <<asked, meant, life, plan, queued, session, watch, refusals, resets>>

Signal ==
    /\ exporting /\ exporting' = FALSE
    /\ IF driver = "none" THEN UNCHANGED <<asked,
                                           meant>> ELSE asked' = asked + 1 /\ meant' = file
    /\ UNCHANGED <<file, life, plan, queued, session, watch, refusals, resets>>

-----------------------------------------------------------------------------
(* The COM object: made, opened by init, let go of by the last release.    *)
Create ==
    /\ driver = "none" /\ driver' = "made"
    /\ asked' = 0 /\ refusals' = {} /\ resets' = {}
    /\ UNCHANGED <<file, exporting, meant, reading, plan, queued, session, watch>>

(* Init reads the file; then Aggregate::init reads the generation, and     *)
(* opens everything, which takes a while.                                  *)
InitReads ==
    /\ driver = "made" /\ file \notin Refused
    /\ driver' = "read" /\ reading' = file
    /\ UNCHANGED <<gazelle, plan, queued, session, watch, refusals, resets>>

InitBegins ==
    /\ driver = "read" /\ driver' = "opening"
    /\ generation' = asked
    /\ UNCHANGED <<gazelle, reading, config, queued, session, watch, refusals, resets>>

InitOpens ==
    /\ driver = "opening"
    /\ \/ driver' = "open" /\ config' = reading
       \/ driver' = "made" /\ UNCHANGED config
    /\ reading' = None
    /\ UNCHANGED <<gazelle, generation, queued, session, watch, refusals, resets>>

(* start_watching, once the lock is let go of; the thread looks at the     *)
(* generation when it begins (watch).                                      *)
WatchBegins ==
    /\ driver = "open" /\ driver' = "watched"
    /\ watcher' = "waiting" /\ seen' = asked
    /\ UNCHANGED <<gazelle, reading, plan, queued, session, read, refusals, resets>>

(* The last release stops the watcher and joins it, and then drops.        *)
Release ==
    /\ driver = "watched" /\ driver' = "leaving"
    /\ UNCHANGED <<gazelle, reading, plan, queued, session, watch, refusals, resets>>

Joined == watcher = "off"

Drop ==
    /\ driver = "leaving" /\ Joined
    /\ driver' = "none"
    /\ config' = None /\ generation' = 0 /\ queued' = NoneQueued
    /\ stream' = FALSE /\ started' = FALSE
    /\ UNCHANGED <<gazelle, reading, watch, refusals, resets>>

-----------------------------------------------------------------------------
(* reconfigure: everything is closed and the new configuration opened; one *)
(* that will not open gives way to what was in force, if that opens again. *)
(* Each alternative is how the openings go.                                *)
Written_Forgotten(g) == refusals
Written(g) == refusals \cup {g}

Reconfigured(c, g) ==
    \/ /\ config' = c /\ generation' = g
       /\ UNCHANGED refusals
    \/ /\ config # None
       /\ UNCHANGED plan
       /\ refusals' = Written(g)
    \/ /\ config' = None
       /\ generation' = IF config = None THEN g ELSE generation
       /\ refusals' = Written(g)

(* create_buffers: a queued configuration is taken up here.                *)
CreateBuffers ==
    /\ driver \in {"open", "watched"} /\ ~stream
    /\ queued' = NoneQueued
    /\ IF queued = NoneQueued THEN UNCHANGED <<plan, refusals>>
       ELSE Reconfigured(queued.config, queued.generation)
    /\ stream' \in IF config' = None THEN {FALSE} ELSE BOOLEAN
    /\ UNCHANGED <<gazelle, life, started, watch, resets>>

Start ==
    /\ stream /\ ~started /\ driver \in {"open", "watched"}
    /\ started' \in BOOLEAN
    /\ UNCHANGED <<gazelle, life, plan, queued, stream, watch, refusals, resets>>

Stop ==
    /\ started /\ driver \in {"open", "watched"}
    /\ started' = FALSE
    /\ UNCHANGED <<gazelle, life, plan, queued, stream, watch, refusals, resets>>

DisposeBuffers ==
    /\ stream /\ driver \in {"open", "watched"}
    /\ stream' = FALSE /\ started' = FALSE
    /\ UNCHANGED <<gazelle, life, plan, queued, watch, refusals, resets>>

-----------------------------------------------------------------------------
(* The watcher's loop, and one reload.                                     *)
Stopping == driver = "leaving"

Goes ==
    /\ watcher = "waiting" /\ Stopping
    /\ watcher' = "off"
    /\ UNCHANGED <<gazelle, life, plan, queued, session, seen, read, refusals, resets>>

(* It wakes on the event, and on a timeout.                                *)
Wakes ==
    /\ watcher = "waiting" /\ ~Stopping /\ asked # seen
    /\ watcher' = "asking" /\ seen' = asked
    /\ UNCHANGED <<gazelle, life, plan, queued, session, read, refusals, resets>>

Reads ==
    /\ watcher = "asking"
    /\ read' = file
    /\ IF file \in Refused
       THEN watcher' = "waiting" /\ refusals' = Written(seen)
       ELSE watcher' = "checking" /\ UNCHANGED refusals
    /\ UNCHANGED <<gazelle, life, plan, queued, session, seen, resets>>

IsStreaming ==
    /\ watcher = "checking"
    /\ watcher' = IF stream THEN "queueing" ELSE "adopting"
    /\ UNCHANGED <<gazelle, life, plan, queued, session, seen, read, refusals, resets>>

Queues ==
    /\ watcher = "queueing"
    /\ queued' = [config |-> read, generation |-> seen]
    /\ watcher' = "resetting"
    /\ UNCHANGED <<gazelle, life, plan, session, seen, read, refusals, resets>>

(* The stream may be gone by now, and then nobody is asked.                *)
AsksToReset ==
    /\ watcher = "resetting"
    /\ resets' = IF stream THEN resets \cup {seen} ELSE resets
    /\ watcher' = "waiting"
    /\ UNCHANGED <<gazelle, life, plan, queued, session, seen, read, refusals>>

(* A DAW that has come for buffers since is left alone.                    *)
HasBuffers_Unlooked == FALSE
HasBuffers == stream

Adopts ==
    /\ watcher = "adopting"
    /\ IF HasBuffers
       THEN UNCHANGED plan /\ refusals' = Written(seen)
       ELSE Reconfigured(read, seen)
    /\ watcher' = "waiting"
    /\ UNCHANGED <<gazelle, life, queued, session, seen, read, resets>>

Watcher == Goes \/ Wakes \/ Reads \/ IsStreaming \/ Queues \/ AsksToReset \/ Adopts

ReloadNext ==
    \/ Save \/ Signal
    \/ Create \/ InitReads \/ InitBegins \/ InitOpens \/ WatchBegins \/ Release \/ Drop
    \/ CreateBuffers \/ Start \/ Stop \/ DisposeBuffers
    \/ Watcher

(* The watcher is a thread that is run, and a signal that was begun is     *)
(* sent.  A DAW need never call again, but a call of its own it has begun  *)
(* comes to its end.                                                       *)
ReloadFairness ==
    WF_reloadVars(Watcher) /\ WF_reloadVars(Signal)
    /\ WF_reloadVars(InitBegins \/ InitOpens) /\ WF_reloadVars(WatchBegins) /\ WF_reloadVars(Drop)

ReloadSpec == ReloadInit /\ [][ReloadNext]_reloadVars
FairReloadSpec == ReloadSpec /\ ReloadFairness

-----------------------------------------------------------------------------
(* A DAW that has the buffers keeps the plan they were made on, whatever   *)
(* the watcher was doing when it came for them (watch.rs, reload).         *)
HeldPlanStays == [][stream /\ stream' => config' = config]_reloadVars

(* What the watcher can reach is never dropped while it runs (com.rs,      *)
(* release), and a release always comes to its end.                        *)
WatcherIsJoined == driver = "none" => watcher = "off"

ReleaseEnds == driver = "leaving" ~> driver = "none"

(* A generation asked for is answered: what it was asked for is in force,  *)
(* or refused with the reason, or the DAW was asked to reset for it, or    *)
(* takes it up when it comes back.                                         *)
Answered(g) ==
    \/ driver \notin {"read", "opening", "open", "watched"}
    \/ asked # g
    \/ generation = g \/ config >= meant
    \/ g \in refusals \cup resets
    \/ queued.generation = g

(* Once the watcher watches, whatever Gazelle asks for is answered.        *)
WatchedIsAnswered ==
    \A g \in 1 .. Saves : (driver = "watched" /\ seen # g /\ asked = g) ~> Answered(g)

(* The thread waits for Gazelle to say that the configuration has changed, *)
(* and re-plans when it does (watch.rs, its first lines).  It does not for *)
(* a change that Gazelle made while the interfaces were being opened.      *)
AskedIsAnswered ==
    \A g \in 1 .. Saves : (driver # "none" /\ asked = g) ~> Answered(g)

(* With nothing streaming a new plan is adopted there and then (watch.rs,  *)
(* its rules), and so no older one comes after it.  One that was queued    *)
(* for a DAW that went away does.                                          *)
AdoptedStays == [][config # None /\ config' # None => config' >= config]_reloadVars

=============================================================================

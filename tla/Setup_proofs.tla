---------------------------- MODULE Setup_proofs ----------------------------
(***************************************************************************)
(* The setup of the aggregate driver and what the server does for it, for  *)
(* every number of saves, pages, setups, interfaces and mishaps: a DAW     *)
(* that has the buffers keeps its plan, the files are whole and current    *)
(* and nothing that was edited goes back, and an alignment suite keeps its *)
(* word.  All parts of MCAggregate together come last.                     *)
(***************************************************************************)
EXTENDS MCAggregate, Aggregate_proofs

USE ReloadAssumption

-----------------------------------------------------------------------------
(* A reload.                                                                 *)

\* The types, by what they are about.
GazelleTypes ==
    /\ file \in 0 .. Saves /\ exporting \in BOOLEAN /\ asked \in 0 .. Saves
    /\ meant \in 0 .. Saves
PlanTypes ==
    /\ reading \in Configs /\ config \in Configs /\ read \in Configs
    /\ generation \in 0 .. Saves /\ seen \in 0 .. Saves
    /\ queued \in [config : Configs, generation : 0 .. Saves]
LifeTypes ==
    /\ driver \in {"none", "made", "read", "opening", "open", "watched", "leaving"}
    /\ stream \in BOOLEAN /\ started \in BOOLEAN
    /\ watcher \in {"off", "waiting", "asking", "checking", "queueing", "resetting",
                    "adopting"}
ToldTypes ==
    refusals \subseteq 0 .. Saves /\ resets \subseteq 0 .. Saves

\* A driver that is not open has no buffers, and no watcher is begun before it
\* is; Gazelle has asked for no more than it saved.
AskedInv == asked <= file /\ (exporting => asked < file)
LifeInv ==
    /\ driver \in {"none", "made", "read", "opening"} => ~stream
    /\ driver \in {"none", "made", "read", "opening", "open"} => watcher = "off"

ReloadInv ==
    /\ GazelleTypes /\ PlanTypes /\ LifeTypes /\ ToldTypes
    /\ AskedInv /\ LifeInv

LEMMA PlansAre ==
    /\ Configs = -1 .. Saves
    /\ 0 .. Saves \subseteq Configs /\ None \in Configs
    /\ NoneQueued \in [config : Configs, generation : 0 .. Saves]
  BY DEF Configs, None, NoneQueued

LEMMA ReloadStarts == ReloadInit => ReloadInv
<1> SUFFICES ASSUME ReloadInit PROVE ReloadInv
  OBVIOUS
<1> USE DEF ReloadInit
<1>1. GazelleTypes
  <2>1. 0 \in 0 .. Saves
    OBVIOUS
  <2>2. exporting \in BOOLEAN
    OBVIOUS
  <2> QED BY <2>1, <2>2 DEF GazelleTypes
<1>6. AskedInv
  BY DEF AskedInv
<1>2. PlanTypes
  BY PlansAre DEF PlanTypes
<1>3. LifeTypes
  BY DEF LifeTypes
<1>4. LifeInv
  BY DEF LifeInv
<1>5. ToldTypes
  BY DEF ToldTypes
<1> QED BY <1>1, <1>2, <1>3, <1>4, <1>5, <1>6 DEF ReloadInv

\* What taking up a configuration leaves in force is one, or none.
LEMMA TakesOneUp ==
    ASSUME PlanTypes, ToldTypes, NEW c \in Configs, NEW g \in 0 .. Saves,
           Reconfigured(c, g)
    PROVE  config' \in Configs /\ generation' \in 0 .. Saves
           /\ refusals' \subseteq 0 .. Saves
<1>1. config' \in Configs /\ generation' \in 0 .. Saves
  BY PlansAre DEF PlanTypes, Reconfigured, plan
<1>2. refusals' \subseteq 0 .. Saves
  BY DEF ToldTypes, Reconfigured, Written
<1> QED BY <1>1, <1>2

LEMMA GazelleTypesStep ==
    ASSUME GazelleTypes, AskedInv, [ReloadNext]_reloadVars
    PROVE  GazelleTypes' /\ AskedInv'
<1> USE DEF GazelleTypes, AskedInv, gazelle
<1>1. CASE Save
  BY <1>1 DEF Save
<1>2. CASE Signal
  <2>1. CASE driver = "none"
    BY <1>2, <2>1 DEF Signal
  <2>2. CASE driver # "none"
    <3>1. exporting /\ exporting' = FALSE /\ asked' = asked + 1 /\ meant' = file
          /\ file' = file
      BY <1>2, <2>2 DEF Signal
    <3>2. exporting' \in BOOLEAN /\ ~exporting'
      BY <3>1
    <3>3. asked' \in 0 .. Saves /\ meant' \in 0 .. Saves /\ file' \in 0 .. Saves
          /\ asked' <= file'
      BY <3>1
    <3> QED BY <3>2, <3>3
  <2> QED BY <2>1, <2>2
<1>3. CASE Create
  BY <1>3 DEF Create
<1>4. CASE UNCHANGED reloadVars
  BY <1>4 DEF reloadVars
<1>5. CASE InitReads \/ InitBegins \/ InitOpens \/ WatchBegins \/ Release \/
           Drop
  BY <1>5 DEF InitReads, InitBegins, InitOpens, WatchBegins, Release, Drop
<1>6. CASE CreateBuffers \/ Start \/ Stop \/ DisposeBuffers
  <2>1. UNCHANGED gazelle
    BY <1>6 DEF CreateBuffers, Start, Stop, DisposeBuffers
  <2> QED BY <2>1
<1>7. CASE Goes \/ Wakes \/ Reads \/ IsStreaming \/ Queues \/ AsksToReset \/
           Adopts
  BY <1>7 DEF Goes, Wakes, Reads, IsStreaming, Queues, AsksToReset, Adopts
<1> QED
  BY <1>1, <1>2, <1>3, <1>4, <1>5, <1>6, <1>7 DEF ReloadNext, Watcher

LEMMA PlanTypesStep ==
    ASSUME GazelleTypes, PlanTypes, ToldTypes, [ReloadNext]_reloadVars
    PROVE  PlanTypes'
<1> USE DEF PlanTypes, plan, watch, life
<1>1. CASE Save \/ Signal \/ Create \/ Release
  BY <1>1 DEF Save, Signal, Create, Release
<1>2. CASE Start \/ Stop \/ DisposeBuffers
  BY <1>2 DEF Start, Stop, DisposeBuffers
<1>3. CASE Goes \/ IsStreaming \/ AsksToReset
  BY <1>3 DEF Goes, IsStreaming, AsksToReset
<1>4. CASE InitReads
  BY <1>4, PlansAre DEF InitReads, GazelleTypes
<1>5. CASE InitBegins
  BY <1>5, PlansAre DEF InitBegins, GazelleTypes
<1>6. CASE InitOpens
  BY <1>6, PlansAre DEF InitOpens
<1>7. CASE WatchBegins
  BY <1>7, PlansAre DEF WatchBegins, GazelleTypes
<1>8. CASE Drop
  BY <1>8, PlansAre DEF Drop
<1>9. CASE Wakes
  BY <1>9, PlansAre DEF Wakes, GazelleTypes
<1>10. CASE Reads
  BY <1>10, PlansAre DEF Reads, GazelleTypes
<1>11. CASE Queues
  BY <1>11, PlansAre DEF Queues
<1>12. CASE CreateBuffers
  <2>1. CASE queued = NoneQueued
    BY <1>12, <2>1 DEF CreateBuffers
  <2>2. CASE queued # NoneQueued
    <3>1. queued.config \in Configs /\ queued.generation \in 0 .. Saves
      OBVIOUS
    <3>2. config' \in Configs /\ generation' \in 0 .. Saves
      BY <1>12, <2>2, <3>1, TakesOneUp DEF CreateBuffers
    <3> QED BY <1>12, <3>2, PlansAre DEF CreateBuffers
  <2> QED BY <2>1, <2>2
<1>13. CASE Adopts
  <2>1. config' \in Configs /\ generation' \in 0 .. Saves
    <3>1. CASE HasBuffers
      BY <1>13, <3>1 DEF Adopts
    <3>2. CASE ~HasBuffers
      BY <1>13, <3>2, TakesOneUp DEF Adopts
    <3> QED BY <3>1, <3>2
  <2> QED BY <1>13, <2>1 DEF Adopts
<1>14. CASE UNCHANGED reloadVars
  BY <1>14 DEF reloadVars
<1> QED
  BY <1>1, <1>2, <1>3, <1>4, <1>5, <1>6, <1>7, <1>8, <1>9, <1>10, <1>11,
     <1>12, <1>13, <1>14 DEF ReloadNext, Watcher

LEMMA LifeStep ==
    ASSUME LifeTypes, LifeInv, [ReloadNext]_reloadVars
    PROVE  LifeTypes' /\ LifeInv'
<1> USE DEF LifeTypes, LifeInv, life, session, watch
<1>1. CASE Save
  BY <1>1 DEF Save
<1>2. CASE Signal
  BY <1>2 DEF Signal
<1>3. CASE Create
  BY <1>3 DEF Create
<1>4. CASE InitReads
  BY <1>4 DEF InitReads
<1>5. CASE InitBegins
  BY <1>5 DEF InitBegins
<1>6. CASE InitOpens
  BY <1>6 DEF InitOpens
<1>7. CASE WatchBegins
  BY <1>7 DEF WatchBegins
<1>8. CASE Release
  BY <1>8 DEF Release
<1>9. CASE Drop
  BY <1>9 DEF Drop, Joined
<1>10. CASE CreateBuffers
  <2>1. stream' \in BOOLEAN
    BY <1>10 DEF CreateBuffers
  <2> QED BY <1>10, <2>1 DEF CreateBuffers
<1>11. CASE Start
  <2>1. started' \in BOOLEAN
    BY <1>11 DEF Start
  <2> QED BY <1>11, <2>1 DEF Start
<1>12. CASE Stop
  BY <1>12 DEF Stop
<1>13. CASE DisposeBuffers
  BY <1>13 DEF DisposeBuffers
<1>14. CASE Goes
  BY <1>14 DEF Goes
<1>15. CASE Wakes
  BY <1>15 DEF Wakes
<1>16. CASE Reads
  BY <1>16 DEF Reads
<1>17. CASE IsStreaming
  BY <1>17 DEF IsStreaming
<1>18. CASE Queues
  BY <1>18 DEF Queues
<1>19. CASE AsksToReset
  BY <1>19 DEF AsksToReset
<1>20. CASE Adopts
  BY <1>20 DEF Adopts
<1>21. CASE UNCHANGED reloadVars
  BY <1>21 DEF reloadVars
<1> QED
  BY <1>1, <1>2, <1>3, <1>4, <1>5, <1>6, <1>7, <1>8, <1>9, <1>10, <1>11,
     <1>12, <1>13, <1>14, <1>15, <1>16, <1>17, <1>18, <1>19, <1>20, <1>21 DEF
     ReloadNext, Watcher

LEMMA ToldTypesStep ==
    ASSUME PlanTypes, ToldTypes, [ReloadNext]_reloadVars
    PROVE  ToldTypes'
<1> USE DEF ToldTypes
<1>1. CASE Save \/ Signal \/ Create \/ InitReads \/ InitBegins \/ InitOpens
           \/ WatchBegins \/ Release \/ Drop
  BY <1>1 DEF Save, Signal, Create, InitReads, InitBegins, InitOpens,
     WatchBegins, Release, Drop
<1>2. CASE Start \/ Stop \/ DisposeBuffers
  BY <1>2 DEF Start, Stop, DisposeBuffers
<1>3. CASE Goes \/ Wakes \/ IsStreaming \/ Queues
  BY <1>3 DEF Goes, Wakes, IsStreaming, Queues
<1>4. CASE Reads
  BY <1>4 DEF Reads, Written, PlanTypes
<1>5. CASE AsksToReset
  BY <1>5 DEF AsksToReset, PlanTypes
<1>6. CASE CreateBuffers
  <2>1. CASE queued = NoneQueued
    BY <1>6, <2>1 DEF CreateBuffers
  <2>2. CASE queued # NoneQueued
    <3>1. queued.config \in Configs /\ queued.generation \in 0 .. Saves
      BY DEF PlanTypes
    <3>2. refusals' \subseteq 0 .. Saves
      BY <1>6, <2>2, <3>1, TakesOneUp DEF CreateBuffers
    <3> QED BY <1>6, <3>2 DEF CreateBuffers
  <2> QED BY <2>1, <2>2
<1>7. CASE Adopts
  <2>1. read \in Configs /\ seen \in 0 .. Saves
    BY DEF PlanTypes
  <2>2. refusals' \subseteq 0 .. Saves
    <3>1. CASE HasBuffers
      BY <1>7, <2>1, <3>1 DEF Adopts, Written
    <3>2. CASE ~HasBuffers
      BY <1>7, <2>1, <3>2, TakesOneUp DEF Adopts
    <3> QED BY <3>1, <3>2
  <2> QED BY <1>7, <2>2 DEF Adopts
<1>8. CASE UNCHANGED reloadVars
  BY <1>8 DEF reloadVars
<1> QED
  BY <1>1, <1>2, <1>3, <1>4, <1>5, <1>6, <1>7, <1>8 DEF ReloadNext, Watcher

LEMMA ReloadGoesOn == ReloadInv /\ [ReloadNext]_reloadVars => ReloadInv'
  BY GazelleTypesStep, PlanTypesStep, LifeStep, ToldTypesStep DEF ReloadInv

\* With the buffers made, only an opening, a taking up and a dropping put
\* another configuration in force, and each of them is without buffers.
LEMMA HeldPlanStep ==
    ASSUME ReloadInv, [ReloadNext]_reloadVars, stream, stream'
    PROVE  config' = config
<1> USE DEF plan
<1>1. ~InitOpens
  BY DEF ReloadInv, LifeInv, InitOpens
<1>2. ~Drop /\ ~CreateBuffers
  BY DEF Drop, CreateBuffers
<1>3. Adopts => config' = config
  BY DEF Adopts, HasBuffers
<1> QED
  BY <1>1, <1>2, <1>3 DEF ReloadNext, Watcher, Save, Signal, Create, InitReads,
     InitBegins, WatchBegins, Release, Start, Stop, DisposeBuffers, Goes, Wakes,
     Reads, IsStreaming, Queues, AsksToReset, reloadVars

LEMMA ReloadAlways == ReloadSpec => []ReloadInv
  BY ReloadStarts, ReloadGoesOn, PTL DEF ReloadSpec

\* Whatever the watcher was doing when the DAW came for its buffers, they keep
\* the plan they were made on (watch.rs, reload).
THEOREM PlanHeld == ReloadSpec => HeldPlanStays
<1>1. ReloadInv /\ [ReloadNext]_reloadVars
        => [stream /\ stream' => config' = config]_reloadVars
  BY HeldPlanStep
<1> QED BY <1>1, ReloadAlways, PTL DEF ReloadSpec, HeldPlanStays

\* What the watcher can reach is never dropped while it runs (com.rs, release).
THEOREM WatcherJoined == ReloadSpec => []WatcherIsJoined
<1>1. ReloadInv => WatcherIsJoined
  BY DEF ReloadInv, LifeInv, WatcherIsJoined
<1> QED BY <1>1, ReloadAlways, PTL

LEMMA ReloadTypes == ReloadInv => ReloadTypeOK
  BY DEF ReloadInv, GazelleTypes, PlanTypes, LifeTypes, ToldTypes, ReloadTypeOK,
     Generations

HIDE ReloadAssumption
USE StoreAssumption

-----------------------------------------------------------------------------
(* The stored setup.                                                         *)

\* What is known in a workspace is of the interface its entry is tied to.
Sound(w) == Has(w) /\ w.known # NothingKnown => w.known.of = w.tied

\* The driver's file is what the workspace says, or its export failed.
Current == unexported \/ ~UnlikeTheFile(stored)

\* Who holds the lock, or is starting the server, is at work, and nobody else.
LockInv == \A a \in Actors : job[a].at # "idle" <=> holder = a

\* The routing the server has seen of the interface is the one it has.
SeenInv ==
    /\ best <= routing
    /\ remembered # 0 => remembered = routing /\ listed

\* What is stored was saved last, and nothing known of it went back; with
\* nobody at it, the driver's file is current.
RestInv ==
    /\ EditsStay
    /\ Sound(stored)
    /\ stored.tied = "here" => stored.known.names >= best
    /\ stored.tied # "here" => best = 0
    /\ LockFree => Current

\* What an actor is about to store: the follower, what is stored with what is
\* known brought up to date; a page, its own; and neither goes back.
FitsToStore(a) ==
    LET toStore == job[a].next
    IN  /\ a # "start" /\ toStore \in Workspace
        /\ a = "follower" => toStore.note = stored.note /\ toStore.tied = stored.tied
        /\ job[a].before \in {Text(stored), NoFile}
        /\ Sound(toStore)
        /\ toStore.tied = "here" /\ stored.tied = "here" => toStore.known.names >= best

WorkInv ==
    \A a \in Actors :
        /\ job[a].at \in {"write", "rename"} => FitsToStore(a)
        /\ job[a].at = "rename" => draft = job[a].next
        /\ job[a].at \in {"export", "renameExport"} =>
             job[a].next = stored /\ Has(stored)
        /\ job[a].at = "renameExport" => draft = Text(stored)
        /\ job[a].at \in {"write", "rename", "release"} => Current

Tied == {"none", "here", "elsewhere"}

FilesTypes ==
    /\ stored \in Workspace /\ driverFile \in Document \cup {NoFile}
    /\ draft \in Workspace \cup Document \cup {Half, NoFile}
Jobs ==
    [at : {"idle", "write", "rename", "export", "renameExport", "release"},
     before : Document \cup {NoFile}, next : Workspace \cup {NoWorkspace}]
JobTypes ==
    /\ holder \in Actors \cup {"nobody"}
    /\ job \in [Actors -> Jobs]
    /\ toSave \in [Savers -> Workspace \cup {NoWorkspace}]
FollowTypes ==
    /\ followerAt \in {"refresh", "holding", "ask", "wait"}
    /\ woken \in BOOLEAN /\ groupAsked \in BOOLEAN /\ listed \in BOOLEAN
    /\ dawOpen \in BOOLEAN /\ serving \in BOOLEAN /\ unexported \in BOOLEAN
    /\ unfollowed \in BOOLEAN /\ rateMissed \in BOOLEAN
NumberTypes ==
    /\ routing \in Nat /\ remembered \in 0 .. routing /\ best \in Nat
    /\ tuned \in 1 .. 2 /\ edits \in 0 .. Edits

StoredInv ==
    /\ FilesTypes /\ JobTypes /\ FollowTypes /\ NumberTypes
    /\ LockInv /\ SeenInv /\ RestInv /\ WorkInv

LEMMA StoredStarts == StoredInit => StoredInv
<1> SUFFICES ASSUME StoredInit PROVE StoredInv
  OBVIOUS
<1> USE DEF StoredInit
<1>1. stored \in Workspace
  BY DEF Workspace, Known, NothingKnown
<1>2. FilesTypes
  BY <1>1 DEF FilesTypes
<1>3. Idle \in Jobs /\ Idle.at = "idle"
  BY DEF Idle, Jobs
<1>4. JobTypes
  BY <1>3 DEF JobTypes
<1>5. FollowTypes
  BY DEF FollowTypes
<1>10. NumberTypes
  BY DEF NumberTypes
<1>6. LockInv
  BY <1>3 DEF LockInv, Actors
<1>7. SeenInv
  BY DEF SeenInv
<1>8. RestInv
  BY DEF RestInv, EditsStay, Sound, Has, Current, UnlikeTheFile
<1>9. WorkInv
  BY <1>3 DEF WorkInv
<1> QED BY <1>2, <1>4, <1>5, <1>6, <1>7, <1>8, <1>9, <1>10
  DEF StoredInv

\* A routing that goes up keeps what was a workspace one.
LEMMA WorkspacesGrow ==
    ASSUME routing \in Nat, routing' \in Nat, routing' >= routing
    PROVE  /\ Workspace \subseteq Workspace'
           /\ Document \subseteq Document'
           /\ Jobs \subseteq Jobs'
<1>1. Known \subseteq Known'
  <2>1. 0 .. routing \subseteq 0 .. routing'
    OBVIOUS
  <2> QED BY <2>1 DEF Known
<1>2. Workspace \subseteq Workspace' /\ Document \subseteq Document'
  BY <1>1 DEF Workspace, Document
<1>3. (NoWorkspace)' = NoWorkspace /\ (NoFile)' = NoFile
  BY DEF NoWorkspace, NoFile, NothingKnown
<1> QED
  BY <1>2, <1>3 DEF Jobs

\* What an actor's next step changes of its job.
LEMMA OneGoesOn ==
    ASSUME JobTypes, NEW a \in Actors,
           NEW onTo \in {"rename", "export", "renameExport", "release"},
           GoesOnTo(a, onTo)
    PROVE  /\ job' \in [Actors -> Jobs]
           /\ job'[a].at = onTo
           /\ job'[a].next = job[a].next /\ job'[a].before = job[a].before
           /\ \A b \in Actors \ {a} : job'[b] = job[b]
  BY DEF GoesOnTo, JobTypes, Jobs

\* The same of one that is given another job.
LEMMA OneIsGiven ==
    ASSUME JobTypes, NEW a \in Actors, NEW w \in Jobs,
           job' = [job EXCEPT ![a] = w]
    PROVE  /\ job' \in [Actors -> Jobs]
           /\ job'[a] = w
           /\ \A b \in Actors \ {a} : job'[b] = job[b]
  BY DEF JobTypes

\* A document is what a workspace with an entry says, and tells its entry.
LEMMA TextIsADocument ==
    ASSUME NEW w \in Workspace
    PROVE  /\ Has(w) => Text(w) \in Document /\ Text(w) # NoFile
           /\ ~Has(w) => Text(w) = NoFile
  BY DEF Has, Text, Workspace, Document, NoFile

\* What is known, brought up to date, is of the entry, and of no routing before
\* the ones it has been known by.
LEMMA KnownIsKept ==
    ASSUME FollowTypes, NumberTypes, SeenInv,
           stored \in Workspace, Sound(stored),
           stored.tied = "here" => stored.known.names >= best,
           NEW w \in Workspace, NEW toStore, toStore = WithKnown(w, stored)
    PROVE  /\ toStore \in Workspace /\ toStore.note = w.note /\ toStore.tied = w.tied
           /\ Sound(toStore)
           /\ toStore.tied = "here" /\ stored.tied = "here" =>
                toStore.known.names >= best
<1> DEFINE earlier == stored
           e == Earlier(w, earlier)
<1>1. e \in Known
  BY DEF Earlier, Has, Workspace, Known, NothingKnown, NumberTypes, NoWorkspace
<1>2. ASSUME Has(w)
      PROVE  KnownFor(w.tied, e) \in Known
  BY <1>1, <1>2 DEF KnownFor, Known, NumberTypes, FollowTypes, Has
<1>3. toStore \in Workspace /\ toStore.note = w.note /\ toStore.tied = w.tied
  BY <1>2 DEF WithKnown, Workspace
<1>4. Has(w) => toStore.known = KnownFor(w.tied, e)
  BY DEF WithKnown, Workspace
<1>5. Sound(toStore)
  BY <1>3, <1>4 DEF Sound, Has, KnownFor
<1>6. ASSUME toStore.tied = "here", stored.tied = "here"
      PROVE  toStore.known.names >= best
  <2>1. w.tied = "here" /\ toStore.known = KnownFor("here", e)
    BY <1>3, <1>4, <1>6 DEF Has
  <2>2. best \in Nat /\ remembered \in Nat /\ e.names \in Nat
    BY <1>1 DEF NumberTypes, Known
  <2>3. e = stored.known /\ e.names >= best
    BY <1>6 DEF Earlier, Has
  <2>4. e = NothingKnown \/ e.of = "here"
    BY <1>6, <2>3 DEF Sound, Has
  <2> QED
    BY <2>1, <2>2, <2>3, <2>4 DEF KnownFor, SeenInv, NothingKnown
<1> QED BY <1>3, <1>5, <1>6

\* Nothing of the files, of who works and of what was saved is changed.
RestsOnDisk == UNCHANGED <<filesVars, holder, job, serving, latest, best, unexported>>

\* Then what is said of them still holds.
LEMMA DiskRests ==
    ASSUME StoredInv, RestsOnDisk, routing \in Nat, routing' \in Nat,
           routing' >= routing
    PROVE  /\ FilesTypes' /\ job' \in [Actors -> Jobs'] /\ holder' = holder
           /\ LockInv' /\ RestInv' /\ WorkInv'
<1> USE DEF StoredInv, RestsOnDisk, filesVars
<1>1. FilesTypes'
  BY WorkspacesGrow DEF FilesTypes, NoFile, Half
<1>2. job' \in [Actors -> Jobs']
  BY WorkspacesGrow DEF JobTypes
<1>3. LockInv'
  BY DEF LockInv
<1>4. RestInv'
  BY DEF RestInv, EditsStay, Sound, LockFree, Current, UnlikeTheFile, Has, Text
<1>5. ASSUME NEW a \in Actors PROVE FitsToStore(a) => FitsToStore(a)'
  BY WorkspacesGrow DEF FitsToStore, Sound, Has, Text
<1>6. Current => Current'
  BY DEF Current, UnlikeTheFile, Has, Text
<1>7. WorkInv'
  BY <1>5, <1>6 DEF WorkInv, Has, Text
<1> QED BY <1>1, <1>2, <1>3, <1>4, <1>7

\* The interface comes, goes and is changed, and the DAW opens and closes.
LEMMA TurnsAreSafe ==
    ASSUME StoredInv, ComesOrGoes \/ Rerouted \/ RateTurned \/ DawOpensOrCloses
    PROVE  StoredInv'
<1> USE DEF Turn
<1>1. /\ RestsOnDisk /\ toSave' = toSave /\ followerAt' = followerAt
      /\ UNCHANGED <<unfollowed, rateMissed, edits>>
  BY DEF ComesOrGoes, Rerouted, RateTurned, DawOpensOrCloses, RestsOnDisk,
     savingVars, setupHistory
<1>2. routing \in Nat /\ routing' \in Nat /\ routing' >= routing
  BY DEF StoredInv, NumberTypes, ComesOrGoes, Rerouted, RateTurned,
     DawOpensOrCloses
<1>3. FollowTypes'
  BY <1>1 DEF StoredInv, FollowTypes, ComesOrGoes, Rerouted, RateTurned,
     DawOpensOrCloses, RestsOnDisk
<1>4. NumberTypes'
  BY <1>1 DEF StoredInv, NumberTypes, ComesOrGoes, Rerouted, RateTurned,
     DawOpensOrCloses, RestsOnDisk
<1>5. SeenInv'
  BY <1>1 DEF StoredInv, NumberTypes, FollowTypes, SeenInv, ComesOrGoes,
     Rerouted, RateTurned, DawOpensOrCloses, RestsOnDisk
<1>6. JobTypes'
  BY <1>1, <1>2, DiskRests, WorkspacesGrow DEF StoredInv, JobTypes, NoWorkspace
<1> QED BY <1>1, <1>2, <1>3, <1>4, <1>5, <1>6, DiskRests DEF StoredInv

\* A page changes its workspace.
LEMMA PutsAreSafe ==
    ASSUME StoredInv, NEW s \in Savers, PutWorkspace(s)
    PROVE  StoredInv'
<1> USE DEF PutWorkspace
<1>1. RestsOnDisk /\ UNCHANGED <<followVars, interfaceVars, unfollowed, rateMissed>>
  BY DEF RestsOnDisk, setupHistory
<1>2. routing \in Nat /\ routing' = routing
  BY <1>1 DEF StoredInv, NumberTypes, interfaceVars, followVars
<1>3. FollowTypes'
  BY <1>1 DEF StoredInv, FollowTypes, RestsOnDisk, followVars, interfaceVars
<1>4. NumberTypes'
  BY <1>1 DEF StoredInv, NumberTypes, RestsOnDisk, interfaceVars, followVars
<1>5. SeenInv'
  BY <1>1 DEF StoredInv, SeenInv, RestsOnDisk, interfaceVars, followVars
<1>6. JobTypes'
  <2>1. PICK tied \in Tied :
          toSave' = [toSave EXCEPT ![s] =
                       [note |-> edits', tied |-> tied,
                        known |-> IF tied = "none" THEN NothingKnown
                                  ELSE [of |-> "here", names |-> 0, rate |-> 1]]]
    BY DEF Tied
  <2>2. edits' \in 0 .. Edits
    BY <1>4 DEF NumberTypes
  <2>3. [note |-> edits', tied |-> tied,
         known |-> IF tied = "none" THEN NothingKnown
                   ELSE [of |-> "here", names |-> 0, rate |-> 1]] \in Workspace
    BY <1>2, <2>2 DEF Workspace, Known, NothingKnown, Tied
  <2>4. toSave' \in [Savers -> Workspace \cup {NoWorkspace}]
    BY <2>1, <2>3 DEF StoredInv, JobTypes
  <2>5. Workspace' = Workspace /\ (NoWorkspace)' = NoWorkspace
    BY <1>2 DEF Workspace, Known, NoWorkspace, NothingKnown
  <2> QED
    BY <1>1, <1>2, <2>4, <2>5, DiskRests DEF StoredInv, JobTypes
<1> QED BY <1>1, <1>2, <1>3, <1>4, <1>5, <1>6, DiskRests DEF StoredInv

\* The follower asks for the routing, and waits.
LEMMA AskingIsSafe ==
    ASSUME StoredInv, FollowerAsks \/ FollowerWakes
    PROVE  StoredInv'
<1> USE DEF FollowerAsks, FollowerWakes
<1>1. /\ RestsOnDisk /\ toSave' = toSave
      /\ UNCHANGED <<listed, routing, tuned, dawOpen, unfollowed, rateMissed, edits>>
  BY DEF RestsOnDisk, setupHistory, savingVars, interfaceVars
<1>2. routing \in Nat /\ routing' = routing
  BY <1>1 DEF StoredInv, NumberTypes
<1>3. FollowTypes'
  BY <1>1 DEF StoredInv, FollowTypes, RestsOnDisk, interfaceVars
<1>4. NumberTypes'
  BY <1>1 DEF StoredInv, NumberTypes, RestsOnDisk, interfaceVars
<1>5. SeenInv'
  BY <1>1 DEF StoredInv, SeenInv, RestsOnDisk, interfaceVars
<1>6. JobTypes'
  BY <1>1, <1>2, DiskRests, WorkspacesGrow DEF StoredInv, JobTypes, NoWorkspace
<1> QED BY <1>1, <1>2, <1>3, <1>4, <1>5, <1>6, DiskRests DEF StoredInv

\* With the same routing, the same are workspaces.
LEMMA SameAreWorkspaces ==
    ASSUME routing' = routing
    PROVE  /\ Workspace' = Workspace /\ Document' = Document /\ Jobs' = Jobs
           /\ (NoWorkspace)' = NoWorkspace /\ (NoFile)' = NoFile
           /\ (Half)' = Half
  BY DEF Workspace, Document, Jobs, Known, NoWorkspace, NoFile, Half, NothingKnown

\* Where an actor takes the lock, nobody was at work, and the driver's file was
\* current.
LEMMA TheFreeAreIdle ==
    ASSUME StoredInv, holder = "nobody"
    PROVE  \A a \in Actors : job[a].at = "idle"
<1>1. "nobody" \notin Actors
  BY DEF Actors
<1> QED BY <1>1 DEF StoredInv, LockInv

\* A save takes the lock and reads what is stored.
LEMMA LookingIsSafe ==
    ASSUME StoredInv, NEW s \in Savers, SaveLooks(s)
    PROVE  StoredInv'
<1> DEFINE given == job'[s]
<1>1. /\ UNCHANGED <<filesVars, toSave, followVars, interfaceVars, serving, latest,
                     unexported, unfollowed, rateMissed, edits>>
      /\ LockFree /\ holder' = s /\ toSave[s] # NoWorkspace
      /\ s \in Actors /\ s # "start" /\ s # "follower"
  BY DEF SaveLooks, Actors
<1>2. /\ toSave[s] \in Workspace /\ stored \in Workspace
      /\ Text(stored) \in Document \cup {NoFile}
  BY <1>1, TextIsADocument DEF StoredInv, JobTypes, FilesTypes
<1>3. /\ Workspace' = Workspace /\ Document' = Document /\ Jobs' = Jobs
      /\ (NoWorkspace)' = NoWorkspace /\ (NoFile)' = NoFile /\ (Half)' = Half
  BY <1>1, SameAreWorkspaces DEF interfaceVars
<1>4. PICK w \in Workspace, b \in {Text(stored), NoFile} :
         /\ job' = [job EXCEPT ![s] = [at |-> "write", before |-> b, next |-> w]]
         /\ w.note = toSave[s].note /\ w.tied = toSave[s].tied /\ Sound(w)
         /\ w.tied = "here" /\ stored.tied = "here" => w.known.names >= best'
         /\ best' = best \/ best' = 0
  <2>1. CASE /\ job' = [job EXCEPT ![s] = [at |-> "write", before |-> Text(stored),
                                           next |-> WithKnown(toSave[s], stored)]]
             /\ UNCHANGED <<mishaps, best>>
    <3>1. /\ Sound(stored)
          /\ stored.tied = "here" => stored.known.names >= best
          /\ FollowTypes /\ NumberTypes /\ SeenInv
      BY DEF StoredInv, RestInv
    <3> DEFINE w == WithKnown(toSave[s], stored)
    <3>2. /\ w \in Workspace /\ w.note = toSave[s].note
          /\ w.tied = toSave[s].tied /\ Sound(w)
          /\ w.tied = "here" /\ stored.tied = "here" => w.known.names >= best
      <4> HIDE DEF w
      <4>1. w = WithKnown(toSave[s], stored)
        BY DEF w
      <4> QED BY <1>2, <3>1, <4>1, KnownIsKept
    <3> QED BY <2>1, <3>2
  <2>2. CASE /\ job' = [job EXCEPT ![s] = [at |-> "write", before |-> NoFile,
                                           next |-> WithKnown(toSave[s], NoWorkspace)]]
             /\ best' = 0
    <3>1. ~Has(NoWorkspace)
      BY DEF Has, NoWorkspace
    <3> DEFINE w == WithKnown(toSave[s], NoWorkspace)
    <3>2. Earlier(toSave[s], NoWorkspace) = NothingKnown
      BY <3>1 DEF Earlier
    <3>3. Has(toSave[s]) => KnownFor(toSave[s].tied, NothingKnown) \in Known
      BY DEF KnownFor, NothingKnown, Known, Has, StoredInv, NumberTypes
    <3>4. w \in Workspace /\ w.note = toSave[s].note /\ w.tied = toSave[s].tied
      BY <1>2, <3>2, <3>3 DEF WithKnown, Workspace
    <3>5. Has(toSave[s]) => w.known = KnownFor(toSave[s].tied, NothingKnown)
      BY <1>2, <3>2 DEF WithKnown, Workspace
    <3>6. Sound(w)
      BY <3>4, <3>5 DEF Sound, Has, KnownFor, NothingKnown
    <3>7. w.known.names >= 0
      BY <3>4 DEF Workspace, Known, StoredInv, NumberTypes
    <3> QED BY <2>2, <3>4, <3>6, <3>7
  <2> QED BY <2>1, <2>2 DEF SaveLooks
<1>5. /\ job' \in [Actors -> Jobs]
      /\ job'[s] = [at |-> "write", before |-> b, next |-> w]
      /\ \A a \in Actors \ {s} : job'[a] = job[a] /\ job[a].at = "idle"
  <2>1. [at |-> "write", before |-> b, next |-> w] \in Jobs
    BY <1>2 DEF Jobs
  <2>2. \A a \in Actors : job[a].at = "idle"
    BY <1>1, TheFreeAreIdle DEF LockFree
  <2> HIDE DEF Jobs, given
  <2> QED BY <1>1, <1>4, <2>1, <2>2, OneIsGiven DEF StoredInv
<1>6. FilesTypes' /\ JobTypes'
  BY <1>1, <1>3, <1>5 DEF StoredInv, FilesTypes, JobTypes, filesVars
<1>7. FollowTypes'
  BY <1>1 DEF StoredInv, FollowTypes, followVars, interfaceVars
<1>8. NumberTypes' /\ SeenInv'
  BY <1>1, <1>4 DEF StoredInv, NumberTypes, SeenInv, interfaceVars
<1>9. LockInv'
  BY <1>1, <1>5 DEF LockInv
<1>10. Current /\ Current'
  BY <1>1 DEF StoredInv, RestInv, Current, UnlikeTheFile, Has, Text, filesVars
<1>11. RestInv'
  <2>1. EditsStay' /\ Sound(stored)' /\ stored' = stored
    BY <1>1 DEF StoredInv, RestInv, EditsStay, Sound, Has, filesVars
  <2>2. stored.tied = "here" => stored.known.names >= best'
    BY <1>2, <1>4 DEF StoredInv, RestInv, Workspace, Known, NumberTypes
  <2>3. stored.tied # "here" => best' = 0
    BY <1>4 DEF StoredInv, RestInv
  <2> QED BY <1>10, <2>1, <2>2, <2>3 DEF RestInv
<1>12. FitsToStore(s)'
  <2>1. stored' = stored
    BY <1>1 DEF filesVars
  <2> QED BY <1>1, <1>3, <1>4, <1>5, <2>1 DEF FitsToStore, Sound, Has, Text
<1>13. WorkInv'
  BY <1>5, <1>10, <1>12 DEF WorkInv
<1> QED BY <1>6, <1>7, <1>8, <1>9, <1>11, <1>13 DEF StoredInv

\* The follower takes the lock, to bring up to date what is known.
LEMMA RefreshingIsSafe ==
    ASSUME StoredInv, RefreshLooks
    PROVE  StoredInv'
<1> DEFINE f == "follower"
           now == WithKnown(stored, stored)
<1>1. /\ UNCHANGED <<filesVars, toSave, woken, groupAsked, interfaceVars, serving,
                     latest, best, unexported, edits>>
      /\ LockFree /\ holder' = f /\ followerAt' = "holding"
      /\ f \in Actors /\ f # "start"
  BY DEF RefreshLooks, Actors
<1>2. stored \in Workspace /\ Text(stored) \in Document \cup {NoFile}
  BY TextIsADocument DEF StoredInv, FilesTypes
<1>3. /\ Workspace' = Workspace /\ Document' = Document /\ Jobs' = Jobs
      /\ (NoWorkspace)' = NoWorkspace /\ (NoFile)' = NoFile /\ (Half)' = Half
  BY <1>1, SameAreWorkspaces DEF interfaceVars
<1>4. /\ now \in Workspace /\ now.note = stored.note /\ now.tied = stored.tied
      /\ Sound(now)
      /\ now.tied = "here" /\ stored.tied = "here" => now.known.names >= best
  <2>1. /\ Sound(stored)
        /\ stored.tied = "here" => stored.known.names >= best
        /\ FollowTypes /\ NumberTypes /\ SeenInv
    BY DEF StoredInv, RestInv
  <2>2. now = WithKnown(stored, stored)
    OBVIOUS
  <2> HIDE DEF now
  <2> QED BY <1>2, <2>1, <2>2, KnownIsKept
<1>5. PICK w \in Jobs :
         /\ job' = [job EXCEPT ![f] = w]
         /\ \/ w.at \in {"release", "write"} /\ w.before = Text(stored) /\ w.next = now
            \/ w.at = "release"
  <2>1. CASE job' = [job EXCEPT ![f] = [at |-> IF now = stored THEN "release" ELSE "write",
                                        before |-> Text(stored), next |-> now]]
    <3>1. [at |-> IF now = stored THEN "release" ELSE "write",
           before |-> Text(stored), next |-> now] \in Jobs
      BY <1>2, <1>4 DEF Jobs
    <3> QED BY <2>1, <3>1
  <2>2. CASE job' = [job EXCEPT ![f] = [Idle EXCEPT !.at = "release"]]
    <3>1. [Idle EXCEPT !.at = "release"] \in Jobs
          /\ [Idle EXCEPT !.at = "release"].at = "release"
      BY DEF Jobs, Idle
    <3> QED BY <2>2, <3>1
  <2> QED BY <2>1, <2>2 DEF RefreshLooks
<1>6. /\ job' \in [Actors -> Jobs] /\ job'[f] = w
      /\ \A a \in Actors \ {f} : job'[a] = job[a] /\ job[a].at = "idle"
  <2>2. \A a \in Actors : job[a].at = "idle"
    BY <1>1, TheFreeAreIdle DEF LockFree
  <2> HIDE DEF Jobs, f
  <2> QED BY <1>1, <1>5, <2>2, OneIsGiven DEF StoredInv
<1>7. FilesTypes' /\ JobTypes'
  BY <1>1, <1>3, <1>6 DEF StoredInv, FilesTypes, JobTypes, filesVars
<1>8. FollowTypes'
  BY <1>1 DEF StoredInv, FollowTypes, interfaceVars, RefreshLooks
<1>9. NumberTypes' /\ SeenInv'
  BY <1>1 DEF StoredInv, NumberTypes, SeenInv, interfaceVars
<1>10. LockInv'
  BY <1>1, <1>5, <1>6 DEF LockInv
<1>11. Current /\ Current'
  BY <1>1 DEF StoredInv, RestInv, Current, UnlikeTheFile, Has, Text, filesVars
<1>12. RestInv'
  <2>1. EditsStay' /\ Sound(stored)' /\ stored' = stored /\ best' = best
    BY <1>1 DEF StoredInv, RestInv, EditsStay, Sound, Has, filesVars
  <2> QED BY <1>11, <2>1 DEF StoredInv, RestInv
<1>13. w.at = "write" => FitsToStore(f)'
  <2>1. stored' = stored /\ best' = best
    BY <1>1 DEF filesVars
  <2> QED BY <1>1, <1>3, <1>4, <1>5, <1>6, <2>1 DEF FitsToStore, Sound, Has, Text
<1>14. WorkInv'
  BY <1>5, <1>6, <1>11, <1>13 DEF WorkInv
<1> QED BY <1>7, <1>8, <1>9, <1>10, <1>12, <1>14 DEF StoredInv

\* While an actor is at work it has the lock, and the others have none.
LEMMA OnlyOneWorks ==
    ASSUME StoredInv, NEW a \in Actors, job[a].at # "idle"
    PROVE  /\ holder = a
           /\ \A b \in Actors \ {a} : job[b].at = "idle"
           /\ a # "nobody" /\ ~LockFree
<1>1. "nobody" \notin Actors
  BY DEF Actors
<1> QED BY <1>1 DEF StoredInv, LockInv, LockFree

\* What goes on, with the lock: the actor's next step, and the rest of what
\* none of its steps changes.
Onward(a, onTo) ==
    /\ GoesOnTo(a, onTo)
    /\ UNCHANGED <<holder, toSave, followVars, interfaceVars, serving, edits>>

LEMMA OnwardIsSafe ==
    ASSUME StoredInv, NEW a \in Actors, job[a].at # "idle",
           NEW onTo \in {"rename", "export", "renameExport", "release"},
           Onward(a, onTo)
    PROVE  /\ Workspace' = Workspace /\ Document' = Document /\ Jobs' = Jobs
           /\ (NoWorkspace)' = NoWorkspace /\ (NoFile)' = NoFile /\ (Half)' = Half
           /\ JobTypes' /\ LockInv' /\ ~LockFree'
           /\ job'[a].at = onTo
           /\ job'[a].next = job[a].next /\ job'[a].before = job[a].before
           /\ \A b \in Actors \ {a} : job'[b].at = "idle"
           /\ listed' = listed /\ dawOpen' = dawOpen /\ serving' = serving
           /\ woken' = woken /\ groupAsked' = groupAsked /\ followerAt' = followerAt
           /\ routing' = routing /\ remembered' = remembered /\ tuned' = tuned
           /\ edits' = edits
<1> USE DEF Onward
<1>1. /\ Workspace' = Workspace /\ Document' = Document /\ Jobs' = Jobs
      /\ (NoWorkspace)' = NoWorkspace /\ (NoFile)' = NoFile /\ (Half)' = Half
  BY SameAreWorkspaces DEF interfaceVars
<1>2. /\ holder = a /\ a # "nobody"
      /\ \A b \in Actors \ {a} : job[b].at = "idle"
  BY OnlyOneWorks
<1>3. /\ job' \in [Actors -> Jobs] /\ job'[a].at = onTo
      /\ job'[a].next = job[a].next /\ job'[a].before = job[a].before
      /\ \A b \in Actors \ {a} : job'[b] = job[b]
  BY OneGoesOn DEF StoredInv
<1>4. JobTypes'
  BY <1>1, <1>3 DEF StoredInv, JobTypes
<1>5. LockInv' /\ ~LockFree'
  BY <1>2, <1>3 DEF LockInv, LockFree
<1> QED BY <1>1, <1>2, <1>3, <1>4, <1>5 DEF followVars, interfaceVars

\* The workspace's temporary file is written, or half of it.
LEMMA WritingIsSafe ==
    ASSUME StoredInv, NEW a \in Actors, WritesWorkspace(a)
    PROVE  StoredInv'
<1>1. /\ job[a].at = "write" /\ FitsToStore(a) /\ Current
      /\ UNCHANGED <<stored, driverFile, latest, best, unexported, rateMissed>>
  BY DEF WritesWorkspace, StoredInv, WorkInv
<1>2. PICK onTo \in {"rename", "release"} :
         /\ Onward(a, onTo)
         /\ onTo = "rename" => draft' = job[a].next
         /\ onTo = "release" => draft' = Half
  BY DEF WritesWorkspace, Drafts, Onward
<1>3. /\ Workspace' = Workspace /\ Document' = Document
      /\ (NoFile)' = NoFile /\ (Half)' = Half
      /\ JobTypes' /\ LockInv' /\ ~LockFree'
      /\ job'[a].at = onTo
      /\ job'[a].next = job[a].next /\ job'[a].before = job[a].before
      /\ \A b \in Actors \ {a} : job'[b].at = "idle"
      /\ listed' = listed /\ dawOpen' = dawOpen /\ serving' = serving
      /\ woken' = woken /\ groupAsked' = groupAsked /\ followerAt' = followerAt
      /\ routing' = routing /\ remembered' = remembered /\ tuned' = tuned
      /\ edits' = edits
  BY <1>1, <1>2, OnwardIsSafe
<1>4. FilesTypes'
  BY <1>1, <1>2, <1>3 DEF StoredInv, FilesTypes, FitsToStore
<1>5. FollowTypes'
  <2>1. unfollowed' \in BOOLEAN
    BY DEF WritesWorkspace
  <2> QED BY <1>1, <1>3, <2>1 DEF StoredInv, FollowTypes
<1>6. NumberTypes' /\ SeenInv'
  BY <1>1, <1>3 DEF StoredInv, NumberTypes, SeenInv
<1>7. Current'
  BY <1>1 DEF Current, UnlikeTheFile, Has, Text
<1>8. RestInv'
  BY <1>1, <1>3 DEF StoredInv, RestInv, EditsStay, Sound, Has
<1>9. FitsToStore(a)'
  BY <1>1, <1>3 DEF FitsToStore, Sound, Has, Text
<1>10. WorkInv'
  BY <1>2, <1>3, <1>7, <1>9 DEF WorkInv
<1> QED BY <1>3, <1>4, <1>5, <1>6, <1>8, <1>10 DEF StoredInv

\* The same of the driver's file.
LEMMA WritingTheExportIsSafe ==
    ASSUME StoredInv, NEW a \in Actors, WritesExport(a)
    PROVE  StoredInv'
<1>1. /\ job[a].at = "export" /\ job[a].next = stored /\ Has(stored)
      /\ UNCHANGED <<stored, driverFile, latest, best, unfollowed, rateMissed>>
  BY DEF WritesExport, StoredInv, WorkInv
<1>2. PICK onTo \in {"renameExport", "release"} :
         /\ Onward(a, onTo)
         /\ onTo = "renameExport" => draft' = Text(stored)
         /\ onTo = "release" => draft' = Half
  BY <1>1 DEF WritesExport, Drafts, Onward
<1>3. /\ Workspace' = Workspace /\ Document' = Document
      /\ (NoFile)' = NoFile /\ (Half)' = Half
      /\ JobTypes' /\ LockInv' /\ ~LockFree'
      /\ job'[a].at = onTo
      /\ job'[a].next = job[a].next /\ job'[a].before = job[a].before
      /\ \A b \in Actors \ {a} : job'[b].at = "idle"
      /\ listed' = listed /\ dawOpen' = dawOpen /\ serving' = serving
      /\ woken' = woken /\ groupAsked' = groupAsked /\ followerAt' = followerAt
      /\ routing' = routing /\ remembered' = remembered /\ tuned' = tuned
      /\ edits' = edits
  BY <1>1, <1>2, OnwardIsSafe
<1>4. FilesTypes'
  BY <1>1, <1>2, <1>3, TextIsADocument DEF StoredInv, FilesTypes
<1>5. FollowTypes'
  <2>1. unexported' \in BOOLEAN
    BY DEF WritesExport
  <2> QED BY <1>1, <1>3, <2>1 DEF StoredInv, FollowTypes
<1>6. NumberTypes' /\ SeenInv'
  BY <1>1, <1>3 DEF StoredInv, NumberTypes, SeenInv
<1>7. onTo = "release" => Current'
  BY <1>2 DEF Current, WritesExport
<1>8. RestInv'
  BY <1>1, <1>3 DEF StoredInv, RestInv, EditsStay, Sound, Has
<1>9. Has(stored)' /\ (Text(stored))' = Text(stored)
  BY <1>1 DEF Has, Text
<1>10. WorkInv'
  BY <1>1, <1>2, <1>3, <1>7, <1>9 DEF WorkInv
<1> QED BY <1>3, <1>4, <1>5, <1>6, <1>8, <1>10 DEF StoredInv

\* The driver's file is put in its place, or could not be.
LEMMA RenamingTheExportIsSafe ==
    ASSUME StoredInv, NEW a \in Actors, RenamesExport(a)
    PROVE  StoredInv'
<1>1. /\ job[a].at = "renameExport" /\ job[a].next = stored /\ Has(stored)
      /\ draft = Text(stored)
      /\ UNCHANGED <<stored, latest, best, unfollowed, rateMissed>>
      /\ Onward(a, "release")
  BY DEF RenamesExport, StoredInv, WorkInv, Onward
<1>2. \/ driverFile' = Text(stored) /\ draft' = NoFile /\ unexported' = FALSE
      \/ unexported' = TRUE /\ UNCHANGED <<driverFile, draft>>
  BY <1>1 DEF RenamesExport
<1>3. /\ Workspace' = Workspace /\ Document' = Document
      /\ (NoFile)' = NoFile /\ (Half)' = Half
      /\ JobTypes' /\ LockInv' /\ ~LockFree'
      /\ job'[a].at = "release"
      /\ \A b \in Actors \ {a} : job'[b].at = "idle"
      /\ listed' = listed /\ dawOpen' = dawOpen /\ serving' = serving
      /\ woken' = woken /\ groupAsked' = groupAsked /\ followerAt' = followerAt
      /\ routing' = routing /\ remembered' = remembered /\ tuned' = tuned
      /\ edits' = edits
  BY <1>1, OnwardIsSafe
<1>4. FilesTypes'
  BY <1>1, <1>2, <1>3, TextIsADocument DEF StoredInv, FilesTypes
<1>5. FollowTypes'
  BY <1>1, <1>2, <1>3 DEF StoredInv, FollowTypes
<1>6. NumberTypes' /\ SeenInv'
  BY <1>1, <1>3 DEF StoredInv, NumberTypes, SeenInv
<1>7. Current'
  BY <1>1, <1>2 DEF Current, UnlikeTheFile, Has, Text
<1>8. RestInv'
  BY <1>1, <1>3 DEF StoredInv, RestInv, EditsStay, Sound, Has
<1>9. WorkInv'
  BY <1>3, <1>7 DEF WorkInv
<1> QED BY <1>3, <1>4, <1>5, <1>6, <1>8, <1>9 DEF StoredInv

\* The workspace is put in its place, or could not be; the driver's file is
\* next when it would say something else.
LEMMA RenamingIsSafe ==
    ASSUME StoredInv, NEW a \in Actors, RenamesWorkspace(a)
    PROVE  StoredInv'
<1> DEFINE toStore == job[a].next
<1>1. /\ job[a].at = "rename" /\ FitsToStore(a) /\ Current /\ draft = toStore
      /\ UNCHANGED <<driverFile, unexported, rateMissed>>
  BY DEF RenamesWorkspace, StoredInv, WorkInv
<1>2. stored \in Workspace /\ toStore \in Workspace /\ best \in Nat /\ routing \in Nat
  BY <1>1 DEF FitsToStore, StoredInv, FilesTypes, NumberTypes
<1>3. CASE /\ stored' = draft /\ draft' = NoFile
           /\ latest' = IF a \in Savers THEN [note |-> toStore.note, tied |-> toStore.tied]
                        ELSE latest
           /\ best' = IF toStore.tied # "here" THEN 0
                      ELSE IF latest.tied = "here" /\ best > toStore.known.names THEN best
                      ELSE toStore.known.names
           /\ GoesOnTo(a, IF ~Has(toStore) \/ job[a].before = Text(toStore)
                          THEN "release" ELSE "export")
           /\ UNCHANGED <<mishaps, unfollowed>>
  <2> DEFINE onTo == IF ~Has(toStore) \/ job[a].before = Text(toStore)
                     THEN "release" ELSE "export"
  <2>1. Onward(a, onTo)
    BY <1>3 DEF Onward, RenamesWorkspace
  <2>2. onTo \in {"release", "export"}
    OBVIOUS
  <2>3. /\ Workspace' = Workspace /\ Document' = Document
        /\ (NoFile)' = NoFile /\ (Half)' = Half
        /\ JobTypes' /\ LockInv' /\ ~LockFree'
        /\ job'[a].at = onTo /\ job'[a].next = toStore
        /\ \A b \in Actors \ {a} : job'[b].at = "idle"
        /\ listed' = listed /\ dawOpen' = dawOpen /\ serving' = serving
        /\ woken' = woken /\ groupAsked' = groupAsked /\ followerAt' = followerAt
        /\ routing' = routing /\ remembered' = remembered /\ tuned' = tuned
        /\ edits' = edits
    <3> HIDE DEF onTo, toStore
    <3>1. job[a].next = toStore
      BY DEF toStore
    <3> QED BY <1>1, <2>1, <2>2, <3>1, OnwardIsSafe
  <2>4. FilesTypes'
    BY <1>1, <1>2, <1>3, <2>3 DEF StoredInv, FilesTypes
  <2>5. FollowTypes'
    BY <1>1, <1>3, <2>3 DEF StoredInv, FollowTypes
  <2>6. toStore.known.names \in Nat /\ toStore.known.names <= routing
    BY <1>2 DEF Workspace, Known
  <2>7. /\ stored.tied = latest.tied
        /\ toStore.tied = "here" /\ stored.tied = "here" => toStore.known.names >= best
    BY <1>1 DEF StoredInv, RestInv, EditsStay, FitsToStore
  <2>8. /\ best' \in Nat /\ best' <= routing
        /\ toStore.tied # "here" => best' = 0
        /\ toStore.tied = "here" => best' = toStore.known.names
    BY <1>2, <1>3, <2>6, <2>7
  <2>9. NumberTypes' /\ SeenInv'
    BY <2>3, <2>8 DEF StoredInv, NumberTypes, SeenInv
  <2>10. EditsStay'
    <3>1. a \in Savers \/ a = "follower"
      BY <1>1 DEF FitsToStore, Actors
    <3>2. CASE a \in Savers
      BY <1>1, <1>3, <3>2 DEF EditsStay
    <3>3. CASE a \notin Savers
      BY <1>1, <1>3, <3>1, <3>3 DEF EditsStay, FitsToStore, StoredInv, RestInv
    <3> QED BY <3>2, <3>3
  <2>11. Sound(stored)'
    BY <1>1, <1>3 DEF FitsToStore, Sound, Has
  <2>12. RestInv'
    BY <1>1, <1>3, <2>3, <2>6, <2>8, <2>10, <2>11 DEF RestInv
  <2>13. onTo = "release" => Current'
    <3>1. CASE ~Has(toStore)
      BY <1>1, <1>3, <3>1 DEF Current, UnlikeTheFile, Has
    <3>2. CASE Has(toStore) /\ job[a].before = Text(toStore)
      <4>1. Text(toStore) # NoFile
        BY <1>2, <3>2, TextIsADocument
      <4>2. Text(stored) = Text(toStore) /\ Has(stored)
        BY <1>1, <1>2, <3>2, <4>1, TextIsADocument DEF FitsToStore
      <4>3. unexported \/ driverFile = Text(toStore)
        BY <1>1, <4>2 DEF Current, UnlikeTheFile
      <4> QED
        BY <1>1, <1>3, <4>3 DEF Current, UnlikeTheFile, Text, Has
    <3> QED BY <3>1, <3>2
  <2>14. onTo = "export" => Has(stored)' /\ stored' = toStore
    BY <1>1, <1>3 DEF Has
  <2>15. WorkInv'
    <3> HIDE DEF onTo, toStore
    <3> QED BY <2>2, <2>3, <2>13, <2>14 DEF WorkInv
  <2> QED BY <2>3, <2>4, <2>5, <2>9, <2>12, <2>15 DEF StoredInv
<1>4. CASE /\ GoesOnTo(a, "release")
           /\ unfollowed' = (unfollowed \/ a = "follower")
           /\ UNCHANGED <<stored, draft, latest, best>>
  <2>1. Onward(a, "release")
    BY <1>4 DEF Onward, RenamesWorkspace
  <2>2. /\ Workspace' = Workspace /\ Document' = Document
        /\ (NoFile)' = NoFile /\ (Half)' = Half
        /\ JobTypes' /\ LockInv' /\ ~LockFree'
        /\ job'[a].at = "release"
        /\ \A b \in Actors \ {a} : job'[b].at = "idle"
        /\ listed' = listed /\ dawOpen' = dawOpen /\ serving' = serving
        /\ woken' = woken /\ groupAsked' = groupAsked /\ followerAt' = followerAt
        /\ routing' = routing /\ remembered' = remembered /\ tuned' = tuned
        /\ edits' = edits
    BY <1>1, <2>1, OnwardIsSafe
  <2>3. FilesTypes'
    BY <1>1, <1>4, <2>2 DEF StoredInv, FilesTypes
  <2>4. FollowTypes'
    <3>1. unfollowed' \in BOOLEAN
      BY <1>4
    <3> QED BY <1>1, <2>2, <3>1 DEF StoredInv, FollowTypes
  <2>5. NumberTypes' /\ SeenInv'
    BY <1>4, <2>2 DEF StoredInv, NumberTypes, SeenInv
  <2>6. Current'
    BY <1>1, <1>4 DEF Current, UnlikeTheFile, Has, Text
  <2>7. RestInv'
    BY <1>4, <2>2 DEF StoredInv, RestInv, EditsStay, Sound, Has
  <2>8. WorkInv'
    BY <2>2, <2>6 DEF WorkInv
  <2> QED BY <2>2, <2>3, <2>4, <2>5, <2>7, <2>8 DEF StoredInv
<1> QED BY <1>3, <1>4 DEF RenamesWorkspace

\* The lock is let go of.
LEMMA UnlockingIsSafe ==
    ASSUME StoredInv, NEW a \in Actors, UnlocksStore(a)
    PROVE  StoredInv'
<1> USE DEF UnlocksStore
<1>1. /\ job[a].at = "release" /\ Current /\ holder' = "nobody" /\ draft' = NoFile
      /\ job' = [job EXCEPT ![a] = Idle] /\ serving' = TRUE
      /\ UNCHANGED <<stored, driverFile, groupAsked, interfaceVars, latest, best,
                     unexported, unfollowed, rateMissed, edits>>
  BY DEF StoredInv, WorkInv, setupHistory
<1>2. /\ Workspace' = Workspace /\ Document' = Document /\ Jobs' = Jobs
      /\ (NoWorkspace)' = NoWorkspace /\ (NoFile)' = NoFile /\ (Half)' = Half
  BY <1>1, SameAreWorkspaces DEF interfaceVars
<1>3. Idle \in Jobs /\ Idle.at = "idle"
  BY DEF Idle, Jobs
<1>4. job' \in [Actors -> Jobs] /\ \A b \in Actors : job'[b].at = "idle"
  <2>1. \A b \in Actors \ {a} : job[b].at = "idle"
    BY <1>1, OnlyOneWorks
  <2>2. /\ job' \in [Actors -> Jobs] /\ job'[a] = Idle
        /\ \A b \in Actors \ {a} : job'[b] = job[b]
    <3>1. JobTypes
      BY DEF StoredInv
    <3> QED BY <1>1, <1>3, <3>1, OneIsGiven
  <2> QED BY <1>3, <2>1, <2>2
<1>5. FilesTypes'
  BY <1>1, <1>2 DEF StoredInv, FilesTypes
<1>6. JobTypes'
  <2>1. toSave' \in [Savers -> Workspace \cup {NoWorkspace}]
    BY DEF StoredInv, JobTypes
  <2> QED BY <1>1, <1>2, <1>4, <2>1 DEF JobTypes
<1>7. FollowTypes'
  <2>1. woken' \in BOOLEAN
    BY DEF StoredInv, FollowTypes
  <2>2. followerAt' \in {"refresh", "holding", "ask", "wait"}
    BY DEF StoredInv, FollowTypes
  <2> QED BY <1>1, <2>1, <2>2 DEF StoredInv, FollowTypes, interfaceVars
<1>8. NumberTypes' /\ SeenInv'
  BY <1>1 DEF StoredInv, NumberTypes, SeenInv, interfaceVars
<1>9. LockInv'
  BY <1>1, <1>4 DEF LockInv, Actors
<1>10. Current'
  BY <1>1 DEF Current, UnlikeTheFile, Has, Text
<1>11. RestInv'
  BY <1>1, <1>10 DEF StoredInv, RestInv, EditsStay, Sound, Has
<1>12. WorkInv'
  BY <1>4 DEF WorkInv
<1> QED BY <1>5, <1>6, <1>7, <1>8, <1>9, <1>11, <1>12 DEF StoredInv

\* The server is killed.
LEMMA KillingIsSafe ==
    ASSUME StoredInv, ServerKilled
    PROVE  StoredInv'
<1> USE DEF ServerKilled
<1>1. UNCHANGED <<stored, driverFile, routing, tuned, dawOpen, latest, best, unexported,
                  unfollowed, rateMissed, edits>>
  BY DEF setupHistory
<1>2. /\ Workspace' = Workspace /\ Document' = Document /\ Jobs' = Jobs
      /\ (NoWorkspace)' = NoWorkspace /\ (NoFile)' = NoFile /\ (Half)' = Half
  BY <1>1, SameAreWorkspaces
<1>3. Idle \in Jobs /\ Idle.at = "idle"
  BY DEF Idle, Jobs
<1>4. job' \in [Actors -> Jobs] /\ \A b \in Actors : job'[b].at = "idle"
  BY <1>3
<1>5. FilesTypes'
  BY <1>1, <1>2 DEF StoredInv, FilesTypes
<1>6. JobTypes'
  BY <1>2, <1>4 DEF JobTypes
<1>7. FollowTypes'
  BY <1>1 DEF StoredInv, FollowTypes
<1>8. NumberTypes' /\ SeenInv'
  BY <1>1 DEF StoredInv, NumberTypes, SeenInv
<1>9. LockInv'
  BY <1>4 DEF LockInv, Actors
<1>10. RestInv'
  BY <1>1 DEF StoredInv, RestInv, EditsStay, Sound, Has, LockFree
<1>11. WorkInv'
  BY <1>4 DEF WorkInv
<1> QED BY <1>5, <1>6, <1>7, <1>8, <1>9, <1>10, <1>11 DEF StoredInv

\* It starts, and compares what the driver has with what is stored.
LEMMA StartingIsSafe ==
    ASSUME StoredInv, Sync
    PROVE  StoredInv'
<1> USE DEF Sync
<1>1. /\ ~serving /\ holder = "nobody"
      /\ UNCHANGED <<filesVars, toSave, followVars, interfaceVars, latest, best,
                     unfollowed, rateMissed, edits>>
  OBVIOUS
<1>2. /\ Workspace' = Workspace /\ Document' = Document /\ Jobs' = Jobs
      /\ (NoWorkspace)' = NoWorkspace /\ (NoFile)' = NoFile /\ (Half)' = Half
  BY <1>1, SameAreWorkspaces DEF interfaceVars
<1>3. \A a \in Actors : job[a].at = "idle"
  BY <1>1, TheFreeAreIdle
<1>4. FilesTypes' /\ NumberTypes' /\ SeenInv'
  BY <1>1, <1>2 DEF StoredInv, FilesTypes, NumberTypes, SeenInv, filesVars,
     interfaceVars
<1>5. EditsStay' /\ Sound(stored)' /\ stored' = stored /\ best' = best
  BY <1>1 DEF StoredInv, RestInv, EditsStay, Sound, Has, filesVars
<1>6. CASE /\ UnlikeTheFile(stored) /\ holder' = "start"
           /\ job' = [job EXCEPT !["start"] = [Idle EXCEPT !.at = "export", !.next = stored]]
           /\ UNCHANGED <<serving, unexported, mishaps>>
  <2> DEFINE w == [Idle EXCEPT !.at = "export", !.next = stored]
  <2>1. w \in Jobs /\ w.at = "export" /\ w.next = stored
    BY DEF Idle, Jobs, StoredInv, FilesTypes
  <2>2. "start" \in Actors
    BY DEF Actors
  <2>3. /\ job' \in [Actors -> Jobs] /\ job'["start"] = w
        /\ \A b \in Actors \ {"start"} : job'[b] = job[b]
    <3> HIDE DEF w
    <3>1. job' = [job EXCEPT !["start"] = w]
      BY <1>6 DEF w
    <3> QED BY <2>1, <2>2, <3>1, OneIsGiven DEF StoredInv
  <2>4. JobTypes'
    BY <1>1, <1>2, <1>6, <2>2, <2>3 DEF StoredInv, JobTypes
  <2>5. FollowTypes'
    BY <1>1, <1>6 DEF StoredInv, FollowTypes, followVars, interfaceVars
  <2>6. LockInv'
    BY <1>3, <1>6, <2>1, <2>2, <2>3 DEF LockInv
  <2>7. RestInv'
    BY <1>1, <1>5, <1>6 DEF StoredInv, RestInv, LockFree
  <2>8. Has(stored)'
    BY <1>5, <1>6 DEF UnlikeTheFile, Has
  <2>9. WorkInv'
    <3> HIDE DEF w
    <3> QED BY <1>3, <1>5, <2>1, <2>3, <2>8 DEF WorkInv
  <2> QED BY <1>4, <2>4, <2>5, <2>6, <2>7, <2>9 DEF StoredInv
<1>7. ASSUME serving' = TRUE, UNCHANGED <<holder, job>>, Current',
             unexported' \in BOOLEAN
      PROVE  StoredInv'
  <2>1. JobTypes'
    BY <1>1, <1>2, <1>7 DEF StoredInv, JobTypes
  <2>2. FollowTypes'
    BY <1>1, <1>7 DEF StoredInv, FollowTypes, followVars, interfaceVars
  <2>3. LockInv'
    BY <1>7 DEF StoredInv, LockInv
  <2>4. RestInv'
    BY <1>5, <1>7 DEF StoredInv, RestInv
  <2>5. WorkInv'
    BY <1>3, <1>7 DEF WorkInv
  <2> QED BY <1>4, <2>1, <2>2, <2>3, <2>4, <2>5 DEF StoredInv
<1>8. CASE ~UnlikeTheFile(stored) /\ serving' = TRUE /\ unexported' = FALSE
           /\ UNCHANGED <<holder, job, mishaps>>
  <2>1. Current'
    BY <1>1, <1>8 DEF Current, UnlikeTheFile, Has, Text, filesVars
  <2> QED BY <1>7, <1>8, <2>1
<1>9. CASE serving' = TRUE /\ unexported' = TRUE /\ UNCHANGED <<holder, job>>
  <2>1. Current'
    BY <1>9 DEF Current
  <2> QED BY <1>7, <1>9, <2>1
<1> QED BY <1>6, <1>8, <1>9

LEMMA StoredGoesOn == StoredInv /\ [StoredNext]_setupVars => StoredInv'
<1> SUFFICES ASSUME StoredInv, [StoredNext]_setupVars PROVE StoredInv'
  OBVIOUS
<1>1. CASE ComesOrGoes \/ Rerouted \/ RateTurned \/ DawOpensOrCloses
  BY <1>1, TurnsAreSafe
<1>2. CASE \E s \in Savers : PutWorkspace(s) \/ SaveLooks(s)
  BY <1>2, PutsAreSafe, LookingIsSafe
<1>3. CASE \E a \in Actors : ActorWrites(a)
  BY <1>3, WritingIsSafe, RenamingIsSafe, WritingTheExportIsSafe,
     RenamingTheExportIsSafe, UnlockingIsSafe DEF ActorWrites
<1>4. CASE RefreshLooks \/ FollowerAsks \/ FollowerWakes
  BY <1>4, RefreshingIsSafe, AskingIsSafe
<1>5. CASE ServerKilled \/ Sync
  BY <1>5, KillingIsSafe, StartingIsSafe
<1>6. CASE UNCHANGED setupVars
  <2>1. /\ RestsOnDisk /\ toSave' = toSave /\ UNCHANGED followVars
        /\ UNCHANGED <<interfaceVars, unfollowed, rateMissed, edits>>
    BY <1>6 DEF setupVars, savingVars, setupHistory, RestsOnDisk
  <2>2. routing \in Nat /\ routing' = routing
    BY <2>1 DEF StoredInv, NumberTypes, interfaceVars
  <2>3. FollowTypes'
    BY <2>1 DEF StoredInv, FollowTypes, RestsOnDisk, interfaceVars, followVars
  <2>4. NumberTypes' /\ SeenInv'
    BY <2>1 DEF StoredInv, NumberTypes, SeenInv, RestsOnDisk, interfaceVars
  <2>5. JobTypes'
    BY <2>1, <2>2, DiskRests, SameAreWorkspaces DEF StoredInv, JobTypes
  <2> QED BY <2>2, <2>1, <2>3, <2>4, <2>5, DiskRests DEF StoredInv
<1> QED BY <1>1, <1>2, <1>3, <1>4, <1>5, <1>6 DEF StoredNext

\* What the invariant says of the files.
LEMMA StoredInvFacts ==
    ASSUME StoredInv
    PROVE  StoredTypeOK /\ StoredIsSafe
<1>1. FilesTypes /\ JobTypes /\ FollowTypes /\ NumberTypes /\ RestInv
  BY DEF StoredInv
<1>2. StoredTypeOK
  BY <1>1 DEF StoredTypeOK, FilesTypes, JobTypes, Jobs, FollowTypes, NumberTypes
<1>3. FilesAreWhole
  BY <1>1 DEF FilesAreWhole, FilesTypes, Workspace, Document, Half, NoFile
<1>4. KnownGoesForward
  BY <1>1 DEF KnownGoesForward, RestInv, Sound
<1>5. EditsStay /\ DriverFileIsCurrent
  BY <1>1 DEF DriverFileIsCurrent, RestInv, Current
<1> QED BY <1>2, <1>3, <1>4, <1>5 DEF StoredIsSafe

LEMMA StoredAlways == StoredSpec => []StoredInv
  BY StoredStarts, StoredGoesOn, PTL DEF StoredSpec

\* However many save at once, whatever is written or renamed fails, and whenever
\* the server is killed: the files are whole, what is stored is what was saved
\* last, what is known of an interface does not go back, and the driver's file is
\* current when nobody is at it (export.rs, ExportingStore; follow.rs).
THEOREM StoredSafe == StoredSpec => []StoredIsSafe
<1>1. StoredInv => StoredIsSafe
  BY StoredInvFacts
<1> QED BY <1>1, StoredAlways, PTL

HIDE StoreAssumption
USE SuiteAssumption

-----------------------------------------------------------------------------
(* The alignment suite.                                                      *)

Settled == {"saved", "failed"}
ShownStates == {"waiting", "switching", "measuring", "saved", "failed", "stopped"}

\* How far the suite is: the setup at turn is one it was asked for, progress is
\* shown of each of those, and a round's figures are not all there yet.
TurnInv ==
    /\ suiteAt \in {"switching", "drivers", "run", "measured", "keeping"} =>
         turn <= setupsAsked
    /\ suiteAt \notin {"off", "claimed"} => Len(progress) = setupsAsked
    /\ Len(figures) < Runs
    /\ suiteAt # "off" => setupsAsked \in Setups

\* Only one is at the measurement, and busy is the suite's claim.
HoldInv ==
    /\ single => measuring
    /\ busy <=> suiteAt # "off"
    /\ SuiteMeasuresAlone

\* What the suite loaded of the workspace is saved where it was loaded, and has
\* the trims the workspace has unless a page wrote it back meanwhile.
LoadedInv ==
    /\ loadedCopy # <<>> => suiteAt \in {"switching", "keeping", "back"}
    /\ loadedCopy # <<>> /\ "trims" \notin touched =>
         loadedCopy.trims = workspace.trims

\* What the page reads of a suite that runs, and what was in force is known.
ShownInv ==
    /\ suiteAt \notin {"off", "claimed", "over"} =>
         says \in {"running", "stopping"}
    /\ suiteAt \notin {"off", "claimed", "over", "reading"} => inForce # <<>>
    /\ suiteAt \in {"off", "claimed", "over"} /\ says \in {"done", "stopped"} =>
         inForce # <<>>

\* The setups before the one at turn are gone through, unless it was stopped.
ProgressInv ==
    /\ suiteAt = "reading" => turn = 1
    /\ suiteAt \in {"next", "switching", "drivers", "run", "measured", "keeping"}
          /\ ~suiteStop =>
         \A s \in DOMAIN progress : s < turn => progress[s] \in Settled
    /\ suiteAt \in {"wrapping", "back", "backDrivers", "backRates",
                    "lettingGo", "ending"} /\ ~suiteStop =>
         \A s \in DOMAIN progress : progress[s] \in Settled
    /\ suiteAt \in {"back", "backDrivers", "backRates", "lettingGo",
                    "ending"} =>
         \A s \in DOMAIN progress : progress[s] \in Settled \cup {"stopped"}
    /\ suiteAt \in {"off", "claimed", "over"} /\ says = "done" =>
         \A s \in DOMAIN progress : progress[s] \in Settled
    /\ suiteAt \in {"off", "claimed", "over"} /\ says = "stopped" =>
         \A s \in DOMAIN progress : progress[s] \in Settled \cup {"stopped"}

\* What has been put back so far stays so, but for what others change.
SetupBack == "setup" \in touched \/ workspace.setup = inForce.setup
DriversBack ==
    inForce.drivers # Unread => \A b \in Boxes : drivers[b] = inForce.drivers
RatesBack ==
    inForce.rates # Unread /\ "rates" \notin touched =>
        \A b \in there : rates[b] = inForce.rates
BackInv ==
    /\ suiteAt \in {"backDrivers", "backRates"} => SetupBack
    /\ suiteAt = "backRates" /\ ~problems => DriversBack
    /\ suiteAt \in {"lettingGo", "ending"} /\ ~problems =>
         SetupBack /\ DriversBack /\ RatesBack
    /\ suiteAt \in {"off", "claimed", "over"} /\ says \in {"done", "stopped"}
          /\ restored = "yes" =>
         SetupBack /\ DriversBack /\ RatesBack

\* Showing a state changes what is shown of the setup at turn alone.
LEMMA ShowsOne ==
    ASSUME progress \in Seq(ShownStates), turn \in Nat,
           NEW s \in ShownStates, Shows(s)
    PROVE  /\ progress' \in Seq(ShownStates) /\ Len(progress') = Len(progress)
           /\ DOMAIN progress' = DOMAIN progress
           /\ \A i \in DOMAIN progress :
                progress'[i] = IF i = turn THEN s ELSE progress[i]
<1>1. progress' = [progress EXCEPT ![turn] = s]
  BY DEF Shows
<1>2. CASE turn \in 1 .. Len(progress)
  <2>1. progress' \in Seq(ShownStates) /\ Len(progress') = Len(progress)
    BY <1>1, <1>2, ExceptSeq
  <2>2. DOMAIN progress' = DOMAIN progress
    BY <1>1
  <2> QED BY <1>1, <2>1, <2>2
<1>3. CASE turn \notin 1 .. Len(progress)
  <2>1. DOMAIN progress = 1 .. Len(progress)
    BY LenProperties
  <2>2. turn \notin DOMAIN progress
    BY <1>3, <2>1
  <2>3. progress' = progress
    BY <1>1, <2>2
  <2> QED BY <2>1, <2>2, <2>3
<1> QED BY <1>2, <1>3

\* The types of what is not the progress shown nor a round's figures.
FlagTypes ==
    /\ measuring \in BOOLEAN /\ single \in BOOLEAN /\ busy \in BOOLEAN
    /\ suiteStop \in BOOLEAN /\ problems \in BOOLEAN
    /\ says \in {"idle", "running", "stopping", "done", "stopped", "failed"}
    /\ restored \in {"unsaid", "yes", "no"} /\ suiteAt \in SuitePlaces
    /\ touched \subseteq {"setup", "trims", "rates"}
CountTypes ==
    /\ setupsAsked \in 0 .. SetupCount
    /\ turn \in 1 .. SetupCount + 1 /\ round \in 1 .. Rounds + 1
    /\ faults \in 0 .. Faults /\ visits \in 0 .. Visits
CopyTypes ==
    /\ workspace \in Workspaces /\ loadedCopy \in Workspaces \cup {<<>>}
    /\ pages \in Workspaces \cup {<<>>} /\ inForce \in ReadBefore \cup {<<>>}
HardwareTypes ==
    /\ drivers \in [Boxes -> Names] /\ rates \in [Boxes -> Names]
    /\ there \subseteq Boxes

\* The suite is at one of its places, and what it says is one of its words.
LEMMA FlagTypesStep ==
    ASSUME FlagTypes, [SuiteNext]_suiteVars
    PROVE  FlagTypes'
<1> USE DEF FlagTypes, SuitePlaces, shownVars, threadVars, hardwareVars,
   others
<1>1. CASE SingleStarts
  BY <1>1 DEF SingleStarts
<1>2. CASE SingleEnds
  BY <1>2 DEF SingleEnds
<1>3. CASE PageReads
  BY <1>3 DEF PageReads
<1>4. CASE PageWrites
  BY <1>4 DEF PageWrites
<1>5. CASE StopSuite
  BY <1>5 DEF StopSuite
<1>6. CASE \E b \in Boxes : PulledOut(b)
  BY <1>6 DEF PulledOut
<1>7. CASE SuiteClaims
  BY <1>7 DEF SuiteClaims, Moves
<1>8. CASE SuiteNotSpawned
  BY <1>8 DEF SuiteNotSpawned
<1>9. CASE SuiteHolds
  BY <1>9 DEF SuiteHolds
<1>10. CASE SuiteReads
  BY <1>10 DEF SuiteReads, Moves
<1>11. CASE SuiteTurns
  BY <1>11 DEF SuiteTurns
<1>12. CASE Loads
  BY <1>12 DEF Loads
<1>13. CASE SwitchesSetup
  BY <1>13 DEF SwitchesSetup, FailsSetup, GoesOn, SavesWorkspace, CannotSave
<1>14. CASE SwitchesDrivers
  BY <1>14 DEF SwitchesDrivers, FailsSetup, GoesOn
<1>15. CASE RunBegins
  BY <1>15 DEF RunBegins, GoesOn
<1>16. CASE RunEnds
  BY <1>16 DEF RunEnds, FailsSetup, GoesOn, Again, Takes
<1>17. CASE KeepsTrims
  BY <1>17 DEF KeepsTrims, SavesWorkspace, CannotSave, FailsSetup, GoesOn
<1>18. CASE SuiteWraps
  BY <1>18 DEF SuiteWraps, Moves
<1>19. CASE PutsBackSetup
  BY <1>19 DEF PutsBackSetup, SavesWorkspace, CannotSave
<1>20. CASE PutsBackDrivers
  BY <1>20 DEF PutsBackDrivers, Moves, PutsDrivers
<1>21. CASE PutsBackRates
  BY <1>21 DEF PutsBackRates, Moves
<1>22. CASE LetsGo
  BY <1>22 DEF LetsGo, Moves
<1>23. CASE SuiteSays
  BY <1>23 DEF SuiteSays, Moves
<1>24. CASE SuiteOver
  BY <1>24 DEF SuiteOver, Moves
<1>25. CASE UNCHANGED suiteVars
  BY <1>25 DEF suiteVars
<1> QED
  BY <1>1, <1>2, <1>3, <1>4, <1>5, <1>6, <1>7, <1>8, <1>9, <1>10, <1>11,
     <1>12, <1>13, <1>14, <1>15, <1>16, <1>17, <1>18, <1>19, <1>20, <1>21,
     <1>22, <1>23, <1>24, <1>25 DEF SuiteNext, Suite

\* What is counted stays within its bound.
LEMMA CountTypesStep ==
    ASSUME CountTypes, TurnInv, [SuiteNext]_suiteVars
    PROVE  CountTypes'
<1> USE DEF CountTypes, shownVars, threadVars, hardwareVars, others
<1>1. CASE SingleStarts
  BY <1>1 DEF SingleStarts, Visited
<1>2. CASE SingleEnds
  BY <1>2 DEF SingleEnds
<1>3. CASE PageReads
  BY <1>3 DEF PageReads, Visited
<1>4. CASE PageWrites
  BY <1>4 DEF PageWrites
<1>5. CASE StopSuite
  BY <1>5 DEF StopSuite
<1>6. CASE \E b \in Boxes : PulledOut(b)
  BY <1>6 DEF PulledOut, Faulted
<1>7. CASE SuiteClaims
  <2>1. PICK n \in Setups : /\ setupsAsked' = n /\ visits' = visits + n
                            /\ visits + n <= Visits
    BY <1>7 DEF SuiteClaims
  <2>2. UNCHANGED <<turn, round, faults>>
    BY <1>7 DEF SuiteClaims
  <2>3. n \in 0 .. SetupCount /\ visits + n \in 0 .. Visits
    BY <2>1 DEF Setups
  <2> QED BY <2>1, <2>2, <2>3
<1>8. CASE SuiteNotSpawned
  BY <1>8 DEF SuiteNotSpawned, Faulted
<1>9. CASE SuiteHolds
  BY <1>9 DEF SuiteHolds
<1>10. CASE SuiteReads
  BY <1>10 DEF SuiteReads, Faulted
<1>11. CASE SuiteTurns
  BY <1>11 DEF SuiteTurns
<1>12. CASE Loads
  BY <1>12 DEF Loads
<1>13. CASE SwitchesSetup
  <2>1. /\ UNCHANGED <<setupsAsked, visits>>
        /\ UNCHANGED faults \/ Faulted
        /\ suiteAt = "switching"
    BY <1>13 DEF SwitchesSetup, SavesWorkspace, CannotSave
  <2>2. \/ UNCHANGED <<turn, round>>
        \/ turn' = turn + 1 /\ round' = 1
    BY <1>13 DEF SwitchesSetup, FailsSetup, GoesOn
  <2>3. turn <= setupsAsked
    BY <2>1 DEF TurnInv
  <2> QED BY <2>1, <2>2, <2>3 DEF Faulted
<1>14. CASE SwitchesDrivers
  BY <1>14 DEF SwitchesDrivers, FailsSetup, GoesOn, PutsDrivers, Faulted,
     TurnInv, Setups
<1>15. CASE RunBegins
  BY <1>15 DEF RunBegins, GoesOn, TurnInv, Setups
<1>16. CASE RunEnds
  BY <1>16 DEF RunEnds, FailsSetup, GoesOn, Again, Takes, Faulted, TurnInv,
     Setups
<1>17. CASE KeepsTrims
  <2>1. /\ UNCHANGED <<setupsAsked, visits>>
        /\ UNCHANGED faults \/ Faulted
        /\ suiteAt = "keeping"
    BY <1>17 DEF KeepsTrims, SavesWorkspace, CannotSave
  <2>2. \/ UNCHANGED <<turn, round>>
        \/ turn' = turn + 1 /\ round' = 1
    BY <1>17 DEF KeepsTrims, FailsSetup, GoesOn
  <2>3. turn <= setupsAsked
    BY <2>1 DEF TurnInv
  <2> QED BY <2>1, <2>2, <2>3 DEF Faulted
<1>18. CASE SuiteWraps
  BY <1>18 DEF SuiteWraps
<1>19. CASE PutsBackSetup
  BY <1>19 DEF PutsBackSetup, CannotSave, Faulted
<1>20. CASE PutsBackDrivers
  BY <1>20 DEF PutsBackDrivers, PutsDrivers, Faulted
<1>21. CASE PutsBackRates
  BY <1>21 DEF PutsBackRates, Faulted
<1>22. CASE LetsGo
  BY <1>22 DEF LetsGo
<1>23. CASE SuiteSays
  BY <1>23 DEF SuiteSays
<1>24. CASE SuiteOver
  BY <1>24 DEF SuiteOver
<1>25. CASE UNCHANGED suiteVars
  BY <1>25 DEF suiteVars
<1> QED
  BY <1>1, <1>2, <1>3, <1>4, <1>5, <1>6, <1>7, <1>8, <1>9, <1>10, <1>11,
     <1>12, <1>13, <1>14, <1>15, <1>16, <1>17, <1>18, <1>19, <1>20, <1>21,
     <1>22, <1>23, <1>24, <1>25 DEF SuiteNext, Suite

\* What is read, copied and saved of the workspace is a workspace.
LEMMA CopyTypesStep ==
    ASSUME CopyTypes, HardwareTypes, CountTypes, ShownInv, TurnInv,
           [SuiteNext]_suiteVars
    PROVE  CopyTypes'
<1> USE DEF CopyTypes, shownVars, threadVars, hardwareVars, others
<1>1. CASE PageReads
  BY <1>1 DEF PageReads
<1>2. CASE PageWrites
  BY <1>2 DEF PageWrites, Workspaces, Names
<1>3. CASE SuiteHolds
  BY <1>3 DEF SuiteHolds
<1>4. CASE SuiteReads
  BY <1>4 DEF SuiteReads, HardwareTypes, ReadBefore, Workspaces
<1>5. CASE Loads
  BY <1>5 DEF Loads
<1>6. CASE SwitchesSetup
  BY <1>6 DEF SwitchesSetup, SavesWorkspace, CannotSave, Workspaces, Names,
     Setups, CountTypes, TurnInv
<1>7. CASE KeepsTrims
  BY <1>7 DEF KeepsTrims, SavesWorkspace, CannotSave, Workspaces, Setups,
     CountTypes, TurnInv
<1>8. CASE PutsBackSetup
  BY <1>8 DEF PutsBackSetup, SavesWorkspace, CannotSave, Workspaces,
     ReadBefore, ShownInv
<1>9. CASE \/ SingleStarts \/ SingleEnds \/ StopSuite
           \/ (\E b \in Boxes : PulledOut(b)) \/ SuiteClaims
           \/ SuiteNotSpawned \/ SuiteTurns \/ SwitchesDrivers \/ RunBegins
           \/ RunEnds \/ SuiteWraps \/ PutsBackDrivers \/ PutsBackRates
           \/ LetsGo \/ SuiteSays \/ SuiteOver \/ UNCHANGED suiteVars
  BY <1>9 DEF SingleStarts, SingleEnds, StopSuite, PulledOut, SuiteClaims,
     SuiteNotSpawned, SuiteTurns, SwitchesDrivers, RunBegins, RunEnds,
     SuiteWraps, PutsBackDrivers, PutsBackRates, LetsGo, SuiteSays, SuiteOver,
     suiteVars, SuiteClaims
<1> QED
  BY <1>1, <1>2, <1>3, <1>4, <1>5, <1>6, <1>7, <1>8, <1>9 DEF SuiteNext, Suite

\* Drivers and rates are on one of the setups.
LEMMA HardwareTypesStep ==
    ASSUME HardwareTypes, CopyTypes, CountTypes, ShownInv, TurnInv,
           [SuiteNext]_suiteVars
    PROVE  HardwareTypes'
<1> USE DEF HardwareTypes, shownVars, threadVars, hardwareVars, others
<1>1. CASE SingleEnds
  BY <1>1 DEF SingleEnds, Names
<1>2. CASE \E b \in Boxes : PulledOut(b)
  BY <1>2 DEF PulledOut
<1>3. CASE SwitchesDrivers
  BY <1>3 DEF SwitchesDrivers, PutsDrivers, Names, Setups, CountTypes, TurnInv
<1>4. CASE RunEnds
  BY <1>4 DEF RunEnds, Names, Setups, CountTypes, TurnInv
<1>5. CASE PutsBackDrivers
  BY <1>5 DEF PutsBackDrivers, PutsDrivers, CopyTypes, ReadBefore, ShownInv,
     Moves
<1>6. CASE PutsBackRates
  BY <1>6 DEF PutsBackRates, CopyTypes, ReadBefore, ShownInv, Moves
<1>7. CASE \/ SingleStarts \/ PageReads \/ PageWrites \/ StopSuite
           \/ SuiteClaims \/ SuiteNotSpawned \/ SuiteHolds \/ SuiteReads
           \/ SuiteTurns \/ Loads \/ SwitchesSetup \/ RunBegins \/ KeepsTrims
           \/ SuiteWraps \/ PutsBackSetup \/ LetsGo \/ SuiteSays \/ SuiteOver
           \/ UNCHANGED suiteVars
  BY <1>7 DEF SingleStarts, PageReads, PageWrites, StopSuite, SuiteClaims,
     SuiteNotSpawned, SuiteHolds, SuiteReads, SuiteTurns, Loads,
     SwitchesSetup, RunBegins, KeepsTrims, SuiteWraps, PutsBackSetup, LetsGo,
     SuiteSays, SuiteOver, suiteVars
<1> QED
  BY <1>1, <1>2, <1>3, <1>4, <1>5, <1>6, <1>7 DEF SuiteNext, Suite

InTurn == {"next", "switching", "drivers", "run", "measured", "keeping"}

\* What is shown changes at the setup at turn, or of all of them at once.
LEMMA ShownSteps ==
    ASSUME FlagTypes, [SuiteNext]_suiteVars
    PROVE  \/ UNCHANGED progress
           \/ suiteAt \in InTurn /\ \E s \in ShownStates : Shows(s)
           \/ SuiteHolds \/ SuiteReads \/ SuiteWraps
<1> USE DEF shownVars, threadVars, hardwareVars, others, InTurn, ShownStates
<1>1. CASE \/ SuiteHolds \/ SuiteReads \/ SuiteWraps
  BY <1>1 DEF SuiteHolds, SuiteReads, SuiteWraps
<1>2. CASE SuiteTurns
  BY <1>2 DEF SuiteTurns
<1>3. CASE SwitchesSetup
  BY <1>3 DEF SwitchesSetup, SavesWorkspace, CannotSave, FailsSetup
<1>4. CASE SwitchesDrivers
  BY <1>4 DEF SwitchesDrivers, FailsSetup
<1>5. CASE RunBegins
  BY <1>5 DEF RunBegins
<1>6. CASE RunEnds
  BY <1>6 DEF RunEnds, FailsSetup, Again, Takes
<1>7. CASE KeepsTrims
  BY <1>7 DEF KeepsTrims, SavesWorkspace, CannotSave, FailsSetup
<1>8. CASE \E b \in Boxes : PulledOut(b)
  BY <1>8 DEF PulledOut
<1>9. CASE \/ SingleStarts \/ SingleEnds \/ PageReads \/ PageWrites
           \/ StopSuite \/ SuiteClaims \/ SuiteNotSpawned \/ Loads
           \/ PutsBackSetup \/ PutsBackDrivers \/ PutsBackRates \/ LetsGo
           \/ SuiteSays \/ SuiteOver \/ UNCHANGED suiteVars
  BY <1>9 DEF SingleStarts, SingleEnds, PageReads, PageWrites, StopSuite,
     SuiteClaims, SuiteNotSpawned, Loads, PutsBackSetup, PutsBackDrivers,
     PutsBackRates, LetsGo, SuiteSays, SuiteOver, suiteVars
<1> QED
  BY <1>1, <1>2, <1>3, <1>4, <1>5, <1>6, <1>7, <1>8, <1>9 DEF SuiteNext, Suite

\* The suite goes through its places in order: to the next setup, where the
\* turn moves on and the round begins anew, or on with this one.
LEMMA TurnSteps ==
    ASSUME FlagTypes, TurnInv, CountTypes, [SuiteNext]_suiteVars
    PROVE  /\ suiteAt' \in {"switching", "drivers", "run", "measured", "keeping"} =>
                turn' <= setupsAsked'
           /\ suiteAt' # "off" => setupsAsked' \in Setups
<1> USE DEF shownVars, threadVars, hardwareVars, others, TurnInv
<1>1. CASE SuiteClaims
  BY <1>1 DEF SuiteClaims, Moves
<1>2. CASE SuiteNotSpawned
  BY <1>2 DEF SuiteNotSpawned
<1>3. CASE SuiteHolds
  BY <1>3 DEF SuiteHolds
<1>4. CASE SuiteReads
  BY <1>4 DEF SuiteReads, Moves
<1>5. CASE SuiteTurns
  BY <1>5 DEF SuiteTurns, CountTypes
<1>6. CASE Loads
  BY <1>6 DEF Loads
<1>7. CASE SwitchesSetup
  BY <1>7 DEF SwitchesSetup, SavesWorkspace, CannotSave, FailsSetup, GoesOn
<1>8. CASE SwitchesDrivers
  BY <1>8 DEF SwitchesDrivers, FailsSetup, GoesOn
<1>9. CASE RunBegins
  BY <1>9 DEF RunBegins, GoesOn
<1>10. CASE RunEnds
  BY <1>10 DEF RunEnds, FailsSetup, GoesOn, Again, Takes
<1>11. CASE KeepsTrims
  BY <1>11 DEF KeepsTrims, SavesWorkspace, CannotSave, FailsSetup, GoesOn
<1>12. CASE SuiteWraps
  BY <1>12 DEF SuiteWraps, Moves
<1>13. CASE PutsBackSetup
  BY <1>13 DEF PutsBackSetup, SavesWorkspace, CannotSave
<1>14. CASE PutsBackDrivers
  BY <1>14 DEF PutsBackDrivers, Moves
<1>15. CASE PutsBackRates
  BY <1>15 DEF PutsBackRates, Moves
<1>16. CASE LetsGo
  BY <1>16 DEF LetsGo, Moves
<1>17. CASE SuiteSays
  BY <1>17 DEF SuiteSays, Moves
<1>18. CASE SuiteOver
  BY <1>18 DEF SuiteOver, Moves
<1>19. CASE \E b \in Boxes : PulledOut(b)
  BY <1>19 DEF PulledOut
<1>20. CASE \/ SingleStarts \/ SingleEnds \/ PageReads \/ PageWrites
            \/ StopSuite \/ UNCHANGED suiteVars
  BY <1>20 DEF SingleStarts, SingleEnds, PageReads, PageWrites, StopSuite,
     suiteVars
<1> QED
  BY <1>1, <1>2, <1>3, <1>4, <1>5, <1>6, <1>7, <1>8, <1>9, <1>10, <1>11,
     <1>12, <1>13, <1>14, <1>15, <1>16, <1>17, <1>18, <1>19, <1>20 DEF
     SuiteNext, Suite

\* A figure that is taken is one more of the round's, or they begin anew.
LEMMA TakesFigures ==
    ASSUME figures \in Seq(Figures), Len(figures) < Runs,
           NEW f \in Figures, Takes(f)
    PROVE  figures' \in Seq(Figures) /\ Len(figures') < Runs
<1> DEFINE all == Append(figures, f)
<1>1. all \in Seq(Figures)
  BY AppendProperties
<1>2. <<>> \in Seq(Figures) /\ Len(<<>>) < Runs
  BY EmptySeq
<1>3. \/ Len(all) < Runs /\ figures' = all
      \/ figures' = <<>> \/ UNCHANGED figures
  BY DEF Takes, Again, FailsSetup, GoesOn
<1> HIDE DEF all
<1> QED BY <1>1, <1>2, <1>3

\* A round's figures are short of a run, and begin anew when they are all there.
LEMMA FiguresStep ==
    ASSUME figures \in Seq(Figures), Len(figures) < Runs,
           [SuiteNext]_suiteVars
    PROVE  figures' \in Seq(Figures) /\ Len(figures') < Runs
<1> USE DEF shownVars, threadVars, hardwareVars, others
<1>e. <<>> \in Seq(Figures) /\ Len(<<>>) < Runs
  BY EmptySeq
<1>1. CASE RunEnds
  BY <1>1, <1>e, TakesFigures DEF RunEnds, FailsSetup, GoesOn, Again
<1>2. CASE \/ SwitchesSetup \/ SwitchesDrivers \/ RunBegins \/ KeepsTrims
  BY <1>2, <1>e DEF SwitchesSetup, SwitchesDrivers, RunBegins, KeepsTrims,
     SavesWorkspace, CannotSave, FailsSetup, GoesOn
<1>3. CASE \E b \in Boxes : PulledOut(b)
  BY <1>3 DEF PulledOut
<1>4. CASE \/ SingleStarts \/ SingleEnds \/ PageReads \/ PageWrites
           \/ StopSuite \/ SuiteClaims \/ SuiteNotSpawned \/ SuiteHolds
           \/ SuiteReads \/ SuiteTurns \/ Loads \/ SuiteWraps
           \/ PutsBackSetup \/ PutsBackDrivers \/ PutsBackRates \/ LetsGo
           \/ SuiteSays \/ SuiteOver \/ UNCHANGED suiteVars
  BY <1>4 DEF SingleStarts, SingleEnds, PageReads, PageWrites, StopSuite,
     SuiteClaims, SuiteNotSpawned, SuiteHolds, SuiteReads, SuiteTurns, Loads,
     SuiteWraps, PutsBackSetup, PutsBackDrivers, PutsBackRates, LetsGo,
     SuiteSays, SuiteOver, suiteVars
<1> QED
  BY <1>1, <1>2, <1>3, <1>4 DEF SuiteNext, Suite

\* What the suite was asked for is fixed while it runs.
LEMMA AskedSteps ==
    ASSUME FlagTypes, [SuiteNext]_suiteVars
    PROVE  suiteAt' \notin {"off", "claimed"} =>
               /\ setupsAsked' = setupsAsked
               /\ suiteAt \notin {"off", "claimed"} \/ SuiteHolds
<1> USE DEF shownVars, threadVars, hardwareVars, others
<1>1. CASE \E b \in Boxes : PulledOut(b)
  BY <1>1 DEF PulledOut
<1>2. CASE SuiteHolds
  BY <1>2 DEF SuiteHolds
<1>3. CASE \/ SuiteClaims \/ SuiteNotSpawned \/ SuiteReads \/ SuiteWraps
           \/ PutsBackSetup \/ PutsBackDrivers \/ PutsBackRates
  BY <1>3 DEF SuiteClaims, SuiteNotSpawned, SuiteReads, SuiteWraps,
     PutsBackSetup, PutsBackDrivers, PutsBackRates, Moves, SavesWorkspace,
     CannotSave
<1>4. CASE \/ LetsGo \/ SuiteSays \/ SuiteOver
  BY <1>4 DEF LetsGo, SuiteSays, SuiteOver, Moves
<1>5. CASE \/ SuiteTurns \/ Loads \/ SwitchesSetup \/ SwitchesDrivers
  BY <1>5 DEF SuiteTurns, Loads, SwitchesSetup, SwitchesDrivers,
     SavesWorkspace, CannotSave
<1>6. CASE \/ RunBegins \/ RunEnds \/ KeepsTrims
  BY <1>6 DEF RunBegins, RunEnds, KeepsTrims, SavesWorkspace, CannotSave
<1>7. CASE \/ SingleStarts \/ SingleEnds \/ PageReads \/ PageWrites
           \/ StopSuite \/ UNCHANGED suiteVars
  BY <1>7 DEF SingleStarts, SingleEnds, PageReads, PageWrites, StopSuite,
     suiteVars
<1> QED
  BY <1>1, <1>2, <1>3, <1>4, <1>5, <1>6, <1>7 DEF SuiteNext, Suite

LEMMA ProgressTypeStep ==
    ASSUME progress \in Seq(ShownStates), FlagTypes, CountTypes, TurnInv,
           [SuiteNext]_suiteVars
    PROVE  /\ progress' \in Seq(ShownStates)
           /\ suiteAt' \notin {"off", "claimed"} => Len(progress') = setupsAsked'
<1>n. setupsAsked \in Nat /\ turn \in Nat
  BY DEF CountTypes
<1>1. CASE UNCHANGED progress /\ ~SuiteHolds
  BY <1>1, AskedSteps DEF TurnInv
<1>2. CASE suiteAt \in InTurn /\ \E s \in ShownStates : Shows(s)
  <2>1. progress' \in Seq(ShownStates) /\ Len(progress') = Len(progress)
    BY <1>n, <1>2, ShowsOne
  <2>2. ~SuiteHolds
    BY <1>2 DEF SuiteHolds, InTurn
  <2> QED BY <2>1, <2>2, AskedSteps DEF TurnInv
<1>3. CASE /\ SuiteHolds \/ SuiteReads \/ SuiteWraps
           /\ \E f \in [1 .. setupsAsked -> ShownStates] : progress' = f
  <2>1. PICK f \in [1 .. setupsAsked -> ShownStates] : progress' = f
    BY <1>3
  <2>2. f \in Seq(ShownStates) /\ Len(f) = setupsAsked
    BY <1>n
  <2>3. setupsAsked' = setupsAsked
    BY <1>3 DEF SuiteHolds, SuiteReads, SuiteWraps, others
  <2> QED BY <2>1, <2>2, <2>3
<1>4. CASE SuiteHolds
  BY <1>3, <1>4 DEF SuiteHolds, shownVars, ShownStates
<1>5. CASE SuiteReads
  <2>1. \/ UNCHANGED progress
        \/ progress' = [s \in 1 .. setupsAsked |-> "failed"]
    BY <1>5 DEF SuiteReads, shownVars
  <2>2. ~SuiteHolds
    BY <1>5 DEF SuiteReads, SuiteHolds, Moves
  <2> QED BY <1>1, <1>3, <1>5, <2>1, <2>2 DEF ShownStates
<1>6. CASE SuiteWraps
  <2>1. \A s \in 1 .. setupsAsked : progress[s] \in ShownStates
    BY <1>6 DEF SuiteWraps, Moves, TurnInv
  <2> QED BY <1>3, <1>6, <2>1 DEF SuiteWraps, ShownStates
<1> QED BY <1>1, <1>2, <1>4, <1>5, <1>6, ShownSteps

\* Only one is at the measurement at a time, from the hold to the letting go.
LEMMA HoldStep ==
    ASSUME FlagTypes, HoldInv, [SuiteNext]_suiteVars
    PROVE  HoldInv'
<1> USE DEF HoldInv, SuiteMeasuresAlone, shownVars, threadVars, hardwareVars,
   others
<1>1. CASE SingleStarts
  BY <1>1 DEF SingleStarts
<1>2. CASE SingleEnds
  BY <1>2 DEF SingleEnds
<1>3. CASE PageReads
  BY <1>3 DEF PageReads
<1>4. CASE PageWrites
  BY <1>4 DEF PageWrites
<1>5. CASE StopSuite
  BY <1>5 DEF StopSuite
<1>6. CASE \E b \in Boxes : PulledOut(b)
  BY <1>6 DEF PulledOut
<1>7. CASE SuiteClaims
  BY <1>7 DEF SuiteClaims, Moves
<1>8. CASE SuiteNotSpawned
  BY <1>8 DEF SuiteNotSpawned
<1>9. CASE SuiteHolds
  BY <1>9 DEF SuiteHolds, Free
<1>10. CASE SuiteReads
  BY <1>10 DEF SuiteReads, Moves
<1>11. CASE SuiteTurns
  BY <1>11 DEF SuiteTurns
<1>12. CASE Loads
  BY <1>12 DEF Loads
<1>13. CASE SwitchesSetup
  BY <1>13 DEF SwitchesSetup, SavesWorkspace, CannotSave, FailsSetup, GoesOn
<1>14. CASE SwitchesDrivers
  BY <1>14 DEF SwitchesDrivers, FailsSetup, GoesOn
<1>15. CASE RunBegins
  BY <1>15 DEF RunBegins, GoesOn
<1>16. CASE RunEnds
  BY <1>16 DEF RunEnds, FailsSetup, GoesOn, Again, Takes
<1>17. CASE KeepsTrims
  BY <1>17 DEF KeepsTrims, SavesWorkspace, CannotSave, FailsSetup, GoesOn
<1>18. CASE SuiteWraps
  BY <1>18 DEF SuiteWraps, Moves
<1>19. CASE PutsBackSetup
  BY <1>19 DEF PutsBackSetup, SavesWorkspace, CannotSave
<1>20. CASE PutsBackDrivers
  BY <1>20 DEF PutsBackDrivers, Moves
<1>21. CASE PutsBackRates
  BY <1>21 DEF PutsBackRates, Moves
<1>22. CASE LetsGo
  BY <1>22 DEF LetsGo, Moves
<1>23. CASE SuiteSays
  BY <1>23 DEF SuiteSays, Moves
<1>24. CASE SuiteOver
  BY <1>24 DEF SuiteOver, Moves
<1>25. CASE UNCHANGED suiteVars
  BY <1>25 DEF suiteVars
<1> QED
  BY <1>1, <1>2, <1>3, <1>4, <1>5, <1>6, <1>7, <1>8, <1>9, <1>10, <1>11,
     <1>12, <1>13, <1>14, <1>15, <1>16, <1>17, <1>18, <1>19, <1>20, <1>21,
     <1>22, <1>23, <1>24, <1>25 DEF SuiteNext, Suite

\* A copy is loaded where it is saved, and is the workspace's until then.
LEMMA CopyStep ==
    ASSUME FlagTypes, CopyTypes, LoadedInv, [SuiteNext]_suiteVars
    PROVE  LoadedInv'
<1> USE DEF LoadedInv, shownVars, threadVars, hardwareVars, others
<1>1. CASE SingleStarts
  BY <1>1 DEF SingleStarts
<1>2. CASE SingleEnds
  BY <1>2 DEF SingleEnds
<1>3. CASE PageReads
  BY <1>3 DEF PageReads
<1>4. CASE PageWrites
  BY <1>4 DEF PageWrites
<1>5. CASE StopSuite
  BY <1>5 DEF StopSuite
<1>6. CASE \E b \in Boxes : PulledOut(b)
  BY <1>6 DEF PulledOut
<1>7. CASE SuiteClaims
  BY <1>7 DEF SuiteClaims, Moves
<1>8. CASE SuiteNotSpawned
  BY <1>8 DEF SuiteNotSpawned
<1>9. CASE SuiteHolds
  BY <1>9 DEF SuiteHolds, Free
<1>10. CASE SuiteReads
  BY <1>10 DEF SuiteReads, Moves
<1>11. CASE SuiteTurns
  BY <1>11 DEF SuiteTurns
<1>12. CASE Loads
  BY <1>12 DEF Loads
<1>13. CASE SwitchesSetup
  BY <1>13 DEF SwitchesSetup, SavesWorkspace, CannotSave, FailsSetup, GoesOn
<1>14. CASE SwitchesDrivers
  BY <1>14 DEF SwitchesDrivers, FailsSetup, GoesOn
<1>15. CASE RunBegins
  BY <1>15 DEF RunBegins, GoesOn
<1>16. CASE RunEnds
  BY <1>16 DEF RunEnds, FailsSetup, GoesOn, Again, Takes
<1>17. CASE KeepsTrims
  BY <1>17 DEF KeepsTrims, SavesWorkspace, CannotSave, FailsSetup, GoesOn
<1>18. CASE SuiteWraps
  BY <1>18 DEF SuiteWraps, Moves
<1>19. CASE PutsBackSetup
  BY <1>19 DEF PutsBackSetup, SavesWorkspace, CannotSave
<1>20. CASE PutsBackDrivers
  BY <1>20 DEF PutsBackDrivers, Moves
<1>21. CASE PutsBackRates
  BY <1>21 DEF PutsBackRates, Moves
<1>22. CASE LetsGo
  BY <1>22 DEF LetsGo, Moves
<1>23. CASE SuiteSays
  BY <1>23 DEF SuiteSays, Moves
<1>24. CASE SuiteOver
  BY <1>24 DEF SuiteOver, Moves
<1>25. CASE UNCHANGED suiteVars
  BY <1>25 DEF suiteVars
<1> QED
  BY <1>1, <1>2, <1>3, <1>4, <1>5, <1>6, <1>7, <1>8, <1>9, <1>10, <1>11,
     <1>12, <1>13, <1>14, <1>15, <1>16, <1>17, <1>18, <1>19, <1>20, <1>21,
     <1>22, <1>23, <1>24, <1>25 DEF SuiteNext, Suite

\* What was read of the setup in force is not nothing.
LEMMA ReadIsSomething ==
    ASSUME NEW a, NEW b, NEW c
    PROVE  [setup |-> a, drivers |-> b, rates |-> c] # <<>>
<1> DEFINE r == [setup |-> a, drivers |-> b, rates |-> c]
<1>1. "setup" \in DOMAIN r
  OBVIOUS
<1>2. DOMAIN <<>> = {}
  OBVIOUS
<1> QED BY <1>1, <1>2

\* A suite that runs says so, and knows what was in force.
LEMMA ShownStep ==
    ASSUME FlagTypes, ShownInv, HoldInv, [SuiteNext]_suiteVars
    PROVE  ShownInv'
<1> USE DEF ShownInv, shownVars, threadVars, hardwareVars, others
<1>1. CASE SingleStarts
  BY <1>1 DEF SingleStarts
<1>2. CASE SingleEnds
  BY <1>2 DEF SingleEnds
<1>3. CASE PageReads
  BY <1>3 DEF PageReads
<1>4. CASE PageWrites
  BY <1>4 DEF PageWrites
<1>5. CASE StopSuite
  BY <1>5 DEF StopSuite
<1>6. CASE \E b \in Boxes : PulledOut(b)
  BY <1>6 DEF PulledOut
<1>7. CASE SuiteClaims
  BY <1>7 DEF SuiteClaims, Moves
<1>8. CASE SuiteNotSpawned
  BY <1>8 DEF SuiteNotSpawned
<1>9. CASE SuiteHolds
  BY <1>9 DEF SuiteHolds, Free
<1>10. CASE SuiteReads
  BY <1>10, ReadIsSomething DEF SuiteReads, Moves
<1>11. CASE SuiteTurns
  BY <1>11 DEF SuiteTurns
<1>12. CASE Loads
  BY <1>12 DEF Loads
<1>13. CASE SwitchesSetup
  BY <1>13 DEF SwitchesSetup, SavesWorkspace, CannotSave, FailsSetup, GoesOn
<1>14. CASE SwitchesDrivers
  BY <1>14 DEF SwitchesDrivers, FailsSetup, GoesOn
<1>15. CASE RunBegins
  BY <1>15 DEF RunBegins, GoesOn
<1>16. CASE RunEnds
  BY <1>16 DEF RunEnds, FailsSetup, GoesOn, Again, Takes
<1>17. CASE KeepsTrims
  BY <1>17 DEF KeepsTrims, SavesWorkspace, CannotSave, FailsSetup, GoesOn
<1>18. CASE SuiteWraps
  BY <1>18 DEF SuiteWraps, Moves
<1>19. CASE PutsBackSetup
  BY <1>19 DEF PutsBackSetup, SavesWorkspace, CannotSave
<1>20. CASE PutsBackDrivers
  BY <1>20 DEF PutsBackDrivers, Moves
<1>21. CASE PutsBackRates
  BY <1>21 DEF PutsBackRates, Moves
<1>22. CASE LetsGo
  BY <1>22 DEF LetsGo, Moves
<1>23. CASE SuiteSays
  BY <1>23 DEF SuiteSays, Moves
<1>24. CASE SuiteOver
  BY <1>24 DEF SuiteOver, Moves
<1>25. CASE UNCHANGED suiteVars
  BY <1>25 DEF suiteVars
<1> QED
  BY <1>1, <1>2, <1>3, <1>4, <1>5, <1>6, <1>7, <1>8, <1>9, <1>10, <1>11,
     <1>12, <1>13, <1>14, <1>15, <1>16, <1>17, <1>18, <1>19, <1>20, <1>21,
     <1>22, <1>23, <1>24, <1>25 DEF SuiteNext, Suite

\* With what is shown of a setup done for, the turn may move past it; and
\* showing anything of it leaves those before it as they are.
LEMMA GoneThrough ==
    ASSUME progress \in Seq(ShownStates), turn \in Nat,
           NEW t \in ShownStates, Shows(t),
           \A s \in DOMAIN progress : s < turn => progress[s] \in Settled,
           \/ turn' = turn
           \/ turn' = turn + 1 /\ t \in Settled
    PROVE  \A s \in DOMAIN progress' : s < turn' => progress'[s] \in Settled
<1>1. /\ DOMAIN progress' = DOMAIN progress /\ DOMAIN progress \subseteq Nat
      /\ \A i \in DOMAIN progress :
           progress'[i] = IF i = turn THEN t ELSE progress[i]
  <2>1. DOMAIN progress = 1 .. Len(progress) /\ Len(progress) \in Nat
    BY LenProperties
  <2>2. /\ DOMAIN progress' = DOMAIN progress
        /\ \A i \in DOMAIN progress :
             progress'[i] = IF i = turn THEN t ELSE progress[i]
    BY ShowsOne
  <2> HIDE DEF Shows
  <2> QED BY <2>1, <2>2
<1> SUFFICES ASSUME NEW s \in DOMAIN progress, s < turn'
             PROVE  progress'[s] \in Settled
  BY <1>1
<1>2. s \in Nat
  BY <1>1
<1>3. CASE s = turn
  <2>1. t \in Settled
    BY <1>2, <1>3
  <2> QED BY <1>1, <1>3, <2>1
<1>4. CASE s # turn
  <2>1. s < turn
    BY <1>2, <1>4
  <2> QED BY <1>1, <1>4, <2>1
<1> QED BY <1>3, <1>4

\* What the suite shows of the setups it has gone through is how they ended.
LEMMA ProgressStep ==
    ASSUME FlagTypes, CountTypes, TurnInv, ShownInv, ProgressInv,
           progress \in Seq(ShownStates), [SuiteNext]_suiteVars
    PROVE  ProgressInv'
<1>n. /\ turn \in Nat /\ setupsAsked \in Nat /\ Len(progress) \in Nat
      /\ DOMAIN progress = 1 .. Len(progress)
  BY LenProperties DEF CountTypes
<1>w. \A s \in Settled : s \in ShownStates
  BY DEF Settled, ShownStates
<1> USE DEF ProgressInv, shownVars, threadVars, hardwareVars, others
<1>1. CASE SingleStarts
  BY <1>1 DEF SingleStarts
<1>2. CASE SingleEnds
  BY <1>2 DEF SingleEnds
<1>3. CASE PageReads
  BY <1>3 DEF PageReads
<1>4. CASE PageWrites
  BY <1>4 DEF PageWrites
<1>5. CASE StopSuite
  BY <1>5 DEF StopSuite
<1>6. CASE \E b \in Boxes : PulledOut(b)
  BY <1>6 DEF PulledOut
<1>7. CASE SuiteClaims
  BY <1>7 DEF SuiteClaims, Moves
<1>8. CASE SuiteNotSpawned
  BY <1>8 DEF SuiteNotSpawned, ShownInv
<1>9. CASE SuiteHolds
  BY <1>9 DEF SuiteHolds, Free, ShownInv
<1>10. CASE Loads
  BY <1>10 DEF Loads
<1>11. CASE PutsBackSetup
  BY <1>11 DEF PutsBackSetup, SavesWorkspace, CannotSave
<1>12. CASE PutsBackDrivers
  BY <1>12 DEF PutsBackDrivers, Moves
<1>13. CASE PutsBackRates
  BY <1>13 DEF PutsBackRates, Moves
<1>14. CASE LetsGo
  BY <1>14 DEF LetsGo, Moves
<1>15. CASE SuiteSays
  BY <1>15 DEF SuiteSays, Moves, SuiteStopped
<1>16. CASE SuiteOver
  BY <1>16 DEF SuiteOver, Moves
<1>17. CASE UNCHANGED suiteVars
  BY <1>17 DEF suiteVars
<1>18. CASE SuiteReads
  <2>1. CASE suiteAt' = "next"
    <3>1. UNCHANGED <<progress, turn, suiteStop>> /\ suiteAt = "reading"
      BY <1>18, <2>1 DEF SuiteReads, Moves
    <3> QED BY <1>n, <2>1, <3>1
  <2>2. CASE suiteAt' = "off" /\ says' = "failed"
    BY <2>2
  <2> QED BY <1>18, <2>1, <2>2 DEF SuiteReads, Moves
<1>19. CASE SuiteTurns
  <2>1. UNCHANGED <<turn, suiteStop, setupsAsked>> /\ suiteAt = "next"
    BY <1>19 DEF SuiteTurns
  <2>2. CASE suiteStop
    BY <1>19, <2>1, <2>2 DEF SuiteTurns, SuiteStopped
  <2>3. CASE ~suiteStop /\ turn > setupsAsked
    <3>1. suiteAt' = "wrapping" /\ UNCHANGED progress
      BY <1>19, <2>3 DEF SuiteTurns
    <3>2. Len(progress) < turn
      BY <1>n, <2>1, <2>3 DEF TurnInv
    <3>3. \A s \in DOMAIN progress : progress[s] \in Settled
      BY <1>n, <2>1, <2>3, <3>2
    <3> QED BY <3>1, <3>3
  <2>4. CASE ~suiteStop /\ ~(turn > setupsAsked)
    <3>1. suiteAt' = "switching" /\ Shows("switching")
      BY <1>19, <2>4 DEF SuiteTurns, SuiteStopped
    <3>2. "switching" \in ShownStates
      BY DEF ShownStates
    <3>3. \A s \in DOMAIN progress' : s < turn' => progress'[s] \in Settled
      BY <1>n, <2>1, <2>4, <3>1, <3>2, GoneThrough
    <3> QED BY <3>1, <3>3
  <2> QED BY <2>2, <2>3, <2>4
<1>20. CASE SwitchesSetup
  <2>1. UNCHANGED suiteStop /\ suiteAt \in InTurn
        /\ suiteAt' \in InTurn
    BY <1>20 DEF SwitchesSetup, SavesWorkspace, CannotSave, FailsSetup, GoesOn, InTurn
  <2>2. SUFFICES ASSUME ~suiteStop
                 PROVE  \A s \in DOMAIN progress' :
                          s < turn' => progress'[s] \in Settled
    BY <2>1 DEF InTurn
  <2>3. \A s \in DOMAIN progress : s < turn => progress[s] \in Settled
    BY <2>1, <2>2 DEF InTurn
  <2>4. \/ UNCHANGED <<progress, turn>>
        \/ Shows("failed") /\ turn' = turn + 1
        \/ Shows("saved") /\ turn' = turn + 1
        \/ Shows("measuring") /\ turn' = turn
    BY <1>20, <2>2 DEF SwitchesSetup, SavesWorkspace, CannotSave, FailsSetup, GoesOn, SuiteStopped
  <2>5. /\ "failed" \in Settled /\ "saved" \in Settled
        /\ "measuring" \in ShownStates
    BY DEF Settled, ShownStates
  <2> QED BY <1>n, <1>w, <2>3, <2>4, <2>5, GoneThrough
<1>21. CASE SwitchesDrivers
  <2>1. UNCHANGED suiteStop /\ suiteAt \in InTurn
        /\ suiteAt' \in InTurn
    BY <1>21 DEF SwitchesDrivers, FailsSetup, GoesOn, InTurn
  <2>2. SUFFICES ASSUME ~suiteStop
                 PROVE  \A s \in DOMAIN progress' :
                          s < turn' => progress'[s] \in Settled
    BY <2>1 DEF InTurn
  <2>3. \A s \in DOMAIN progress : s < turn => progress[s] \in Settled
    BY <2>1, <2>2 DEF InTurn
  <2>4. \/ UNCHANGED <<progress, turn>>
        \/ Shows("failed") /\ turn' = turn + 1
        \/ Shows("saved") /\ turn' = turn + 1
        \/ Shows("measuring") /\ turn' = turn
    BY <1>21, <2>2 DEF SwitchesDrivers, FailsSetup, GoesOn, SuiteStopped
  <2>5. /\ "failed" \in Settled /\ "saved" \in Settled
        /\ "measuring" \in ShownStates
    BY DEF Settled, ShownStates
  <2> QED BY <1>n, <1>w, <2>3, <2>4, <2>5, GoneThrough
<1>22. CASE RunBegins
  <2>1. UNCHANGED suiteStop /\ suiteAt \in InTurn
        /\ suiteAt' \in InTurn
    BY <1>22 DEF RunBegins, GoesOn, InTurn
  <2>2. SUFFICES ASSUME ~suiteStop
                 PROVE  \A s \in DOMAIN progress' :
                          s < turn' => progress'[s] \in Settled
    BY <2>1 DEF InTurn
  <2>3. \A s \in DOMAIN progress : s < turn => progress[s] \in Settled
    BY <2>1, <2>2 DEF InTurn
  <2>4. \/ UNCHANGED <<progress, turn>>
        \/ Shows("failed") /\ turn' = turn + 1
        \/ Shows("saved") /\ turn' = turn + 1
        \/ Shows("measuring") /\ turn' = turn
    BY <1>22, <2>2 DEF RunBegins, GoesOn, SuiteStopped
  <2>5. /\ "failed" \in Settled /\ "saved" \in Settled
        /\ "measuring" \in ShownStates
    BY DEF Settled, ShownStates
  <2> QED BY <1>n, <1>w, <2>3, <2>4, <2>5, GoneThrough
<1>23. CASE RunEnds
  <2>1. UNCHANGED suiteStop /\ suiteAt \in InTurn
        /\ suiteAt' \in InTurn
    BY <1>23 DEF RunEnds, FailsSetup, GoesOn, Again, Takes, InTurn
  <2>2. SUFFICES ASSUME ~suiteStop
                 PROVE  \A s \in DOMAIN progress' :
                          s < turn' => progress'[s] \in Settled
    BY <2>1 DEF InTurn
  <2>3. \A s \in DOMAIN progress : s < turn => progress[s] \in Settled
    BY <2>1, <2>2 DEF InTurn
  <2>4. \/ UNCHANGED <<progress, turn>>
        \/ Shows("failed") /\ turn' = turn + 1
        \/ Shows("saved") /\ turn' = turn + 1
        \/ Shows("measuring") /\ turn' = turn
    BY <1>23, <2>2 DEF RunEnds, FailsSetup, GoesOn, Again, Takes, SuiteStopped
  <2>5. /\ "failed" \in Settled /\ "saved" \in Settled
        /\ "measuring" \in ShownStates
    BY DEF Settled, ShownStates
  <2> QED BY <1>n, <1>w, <2>3, <2>4, <2>5, GoneThrough
<1>24. CASE KeepsTrims
  <2>1. UNCHANGED suiteStop /\ suiteAt \in InTurn
        /\ suiteAt' \in InTurn
    BY <1>24 DEF KeepsTrims, SavesWorkspace, CannotSave, FailsSetup, GoesOn, InTurn
  <2>2. SUFFICES ASSUME ~suiteStop
                 PROVE  \A s \in DOMAIN progress' :
                          s < turn' => progress'[s] \in Settled
    BY <2>1 DEF InTurn
  <2>3. \A s \in DOMAIN progress : s < turn => progress[s] \in Settled
    BY <2>1, <2>2 DEF InTurn
  <2>4. \/ UNCHANGED <<progress, turn>>
        \/ Shows("failed") /\ turn' = turn + 1
        \/ Shows("saved") /\ turn' = turn + 1
        \/ Shows("measuring") /\ turn' = turn
    BY <1>24, <2>2 DEF KeepsTrims, SavesWorkspace, CannotSave, FailsSetup, GoesOn, SuiteStopped
  <2>5. /\ "failed" \in Settled /\ "saved" \in Settled
        /\ "measuring" \in ShownStates
    BY DEF Settled, ShownStates
  <2> QED BY <1>n, <1>w, <2>3, <2>4, <2>5, GoneThrough
<1>25. CASE SuiteWraps
  <2>1. /\ UNCHANGED <<suiteStop, says>> /\ suiteAt = "wrapping"
        /\ suiteAt' = "back"
        /\ progress' = [s \in 1 .. setupsAsked |->
                          IF suiteStop /\ progress[s] \notin {"saved", "failed"}
                          THEN "stopped" ELSE progress[s]]
    BY <1>25 DEF SuiteWraps, Moves, SuiteStopped
  <2>2. DOMAIN progress = 1 .. setupsAsked /\ DOMAIN progress' = 1 .. setupsAsked
    BY <1>n, <2>1 DEF TurnInv
  <2>3. ASSUME NEW s \in 1 .. setupsAsked
        PROVE  /\ ~suiteStop => progress'[s] \in Settled
               /\ progress'[s] \in Settled \cup {"stopped"}
    BY <2>1, <2>2, <2>3 DEF Settled
  <2> QED BY <2>1, <2>2, <2>3
<1> QED
  BY <1>1, <1>2, <1>3, <1>4, <1>5, <1>6, <1>7, <1>8, <1>9, <1>10, <1>11,
     <1>12, <1>13, <1>14, <1>15, <1>16, <1>17, <1>18, <1>19, <1>20, <1>21,
     <1>22, <1>23, <1>24, <1>25 DEF SuiteNext, Suite

\* What is shown as saved was so before, or is now and was just kept.
LEMMA NothingElseSaved ==
    ASSUME progress \in Seq(ShownStates), turn \in Nat,
           NEW t \in ShownStates, Shows(t)
    PROVE  /\ DOMAIN progress' = DOMAIN progress
           /\ \A s \in DOMAIN progress :
                progress'[s] = "saved" =>
                    progress[s] = "saved" \/ (s = turn /\ t = "saved")
<1>1. /\ DOMAIN progress' = DOMAIN progress
      /\ \A i \in DOMAIN progress :
           progress'[i] = IF i = turn THEN t ELSE progress[i]
  BY ShowsOne
<1> QED BY <1>1

\* Saving the copy with another setup leaves the trims there.
LEMMA TrimsOfTheCopy ==
    ASSUME CopyTypes, LoadedInv, loadedCopy # <<>>, NEW x,
           workspace' = [loadedCopy EXCEPT !.setup = x]
    PROVE  "trims" \notin touched => workspace'.trims = workspace.trims
<1>1. loadedCopy \in Workspaces
  BY DEF CopyTypes
<1>2. workspace'.trims = loadedCopy.trims
  BY <1>1 DEF Workspaces
<1> QED BY <1>2 DEF LoadedInv

\* Only a save of the suite or of a page changes the workspace's trims.
LEMMA SavedStep ==
    ASSUME FlagTypes, CountTypes, CopyTypes, LoadedInv, TurnInv, SavedStaysSaved,
           progress \in Seq(ShownStates), [SuiteNext]_suiteVars
    PROVE  SavedStaysSaved'
<1>n. turn \in Nat /\ "failed" \in ShownStates /\ "switching" \in ShownStates
      /\ "measuring" \in ShownStates /\ "saved" \in ShownStates
  BY DEF CountTypes, ShownStates
<1> USE DEF SavedStaysSaved, shownVars, threadVars, hardwareVars, others
<1>1. CASE SingleStarts
  BY <1>1 DEF SingleStarts
<1>2. CASE SingleEnds
  BY <1>2 DEF SingleEnds
<1>3. CASE PageReads
  BY <1>3 DEF PageReads
<1>4. CASE PageWrites
  BY <1>4 DEF PageWrites
<1>5. CASE StopSuite
  BY <1>5 DEF StopSuite
<1>6. CASE \E b \in Boxes : PulledOut(b)
  BY <1>6 DEF PulledOut
<1>7. CASE SuiteClaims
  BY <1>7 DEF SuiteClaims, Moves
<1>8. CASE SuiteNotSpawned
  BY <1>8 DEF SuiteNotSpawned
<1>9. CASE Loads
  BY <1>9 DEF Loads
<1>10. CASE PutsBackDrivers
  BY <1>10 DEF PutsBackDrivers, Moves
<1>11. CASE PutsBackRates
  BY <1>11 DEF PutsBackRates, Moves
<1>12. CASE LetsGo
  BY <1>12 DEF LetsGo, Moves
<1>13. CASE SuiteSays
  BY <1>13 DEF SuiteSays, Moves
<1>14. CASE SuiteOver
  BY <1>14 DEF SuiteOver, Moves
<1>15. CASE UNCHANGED suiteVars
  BY <1>15 DEF suiteVars
<1>16. CASE SuiteHolds
  <2>1. \/ UNCHANGED <<progress, workspace, touched>>
        \/ progress' = [s \in 1 .. setupsAsked |-> "waiting"]
    BY <1>16 DEF SuiteHolds
  <2> QED BY <2>1
<1>17. CASE SuiteReads
  <2>1. /\ UNCHANGED <<workspace, touched>>
        /\ UNCHANGED progress \/ progress' = [s \in 1 .. setupsAsked |-> "failed"]
    BY <1>17 DEF SuiteReads
  <2> QED BY <2>1
<1>18. CASE SuiteTurns
  <2>1. UNCHANGED <<workspace, touched>>
    BY <1>18 DEF SuiteTurns
  <2>2. \/ UNCHANGED progress
        \/ Shows("failed") \/ Shows("switching") \/ Shows("measuring")
    BY <1>18 DEF SuiteTurns
  <2> QED BY <1>n, <2>1, <2>2, NothingElseSaved
<1>19. CASE SwitchesSetup
  <2>1. /\ UNCHANGED touched
        /\ \/ loadedCopy # <<>> /\ workspace' = [loadedCopy EXCEPT !.setup = turn]
              /\ UNCHANGED progress
           \/ Shows("failed") /\ UNCHANGED workspace
    BY <1>19 DEF SwitchesSetup, SavesWorkspace, CannotSave, FailsSetup
  <2>2. "trims" \notin touched => workspace'.trims = workspace.trims
    BY <2>1, TrimsOfTheCopy
  <2> QED BY <1>n, <2>1, <2>2, NothingElseSaved
<1>20. CASE SwitchesDrivers
  <2>1. UNCHANGED <<workspace, touched>>
    BY <1>20 DEF SwitchesDrivers
  <2>2. \/ UNCHANGED progress
        \/ Shows("failed") \/ Shows("switching") \/ Shows("measuring")
    BY <1>20 DEF SwitchesDrivers, FailsSetup, GoesOn
  <2> QED BY <1>n, <2>1, <2>2, NothingElseSaved
<1>21. CASE RunBegins
  <2>1. UNCHANGED <<workspace, touched>>
    BY <1>21 DEF RunBegins
  <2>2. \/ UNCHANGED progress
        \/ Shows("failed") \/ Shows("switching") \/ Shows("measuring")
    BY <1>21 DEF RunBegins, GoesOn
  <2> QED BY <1>n, <2>1, <2>2, NothingElseSaved
<1>22. CASE RunEnds
  <2>1. UNCHANGED <<workspace, touched>>
    BY <1>22 DEF RunEnds
  <2>2. \/ UNCHANGED progress
        \/ Shows("failed") \/ Shows("switching") \/ Shows("measuring")
    BY <1>22 DEF RunEnds, FailsSetup, GoesOn, Again, Takes
  <2> QED BY <1>n, <2>1, <2>2, NothingElseSaved
<1>23. CASE KeepsTrims
  <2>1. /\ UNCHANGED touched
        /\ \/ /\ loadedCopy # <<>> /\ Shows("saved")
              /\ workspace' = [loadedCopy EXCEPT !.trims = @ \cup {turn}]
           \/ Shows("failed") /\ UNCHANGED workspace
    BY <1>23 DEF KeepsTrims, SavesWorkspace, CannotSave, FailsSetup
  <2>2. CASE Shows("failed") /\ UNCHANGED workspace
    BY <1>n, <2>1, <2>2, NothingElseSaved
  <2>3. CASE /\ loadedCopy # <<>> /\ Shows("saved")
             /\ workspace' = [loadedCopy EXCEPT !.trims = @ \cup {turn}]
    <3>1. loadedCopy \in Workspaces
      BY <2>3 DEF CopyTypes
    <3>2. workspace'.trims = loadedCopy.trims \cup {turn}
      BY <2>3, <3>1 DEF Workspaces
    <3>3. "trims" \notin touched => workspace'.trims = workspace.trims \cup {turn}
      BY <2>3, <3>2 DEF LoadedInv
    <3> QED BY <1>n, <2>1, <2>3, <3>3, NothingElseSaved
  <2> QED BY <2>1, <2>2, <2>3
<1>24. CASE SuiteWraps
  <2>1. /\ UNCHANGED <<workspace, touched>> /\ suiteAt = "wrapping"
        /\ progress' = [s \in 1 .. setupsAsked |->
                          IF SuiteStopped /\ progress[s] \notin {"saved", "failed"}
                          THEN "stopped" ELSE progress[s]]
    BY <1>24 DEF SuiteWraps, Moves
  <2>2. DOMAIN progress' = DOMAIN progress
    <3>1. DOMAIN progress = 1 .. Len(progress)
      BY LenProperties
    <3> QED BY <2>1, <3>1 DEF TurnInv
  <2>3. \A s \in DOMAIN progress' : progress'[s] = "saved" => progress[s] = "saved"
    BY <2>1
  <2> QED BY <2>1, <2>2, <2>3
<1>25. CASE PutsBackSetup
  <2>1. /\ UNCHANGED progress
        /\ touched' = touched \ {"setup"} \/ UNCHANGED touched
        /\ \/ loadedCopy # <<>>
              /\ workspace' = [loadedCopy EXCEPT !.setup = inForce.setup]
           \/ UNCHANGED workspace
    BY <1>25 DEF PutsBackSetup, SavesWorkspace, CannotSave
  <2>2. "trims" \notin touched => workspace'.trims = workspace.trims
    BY <2>1, TrimsOfTheCopy
  <2> QED BY <2>1, <2>2
<1> QED
  BY <1>1, <1>2, <1>3, <1>4, <1>5, <1>6, <1>7, <1>8, <1>9, <1>10, <1>11,
     <1>12, <1>13, <1>14, <1>15, <1>16, <1>17, <1>18, <1>19, <1>20, <1>21,
     <1>22, <1>23, <1>24, <1>25 DEF SuiteNext, Suite

\* The suite puts back what it read, and what was put back others change only
\* where they are seen to.
LEMMA BackStep ==
    ASSUME FlagTypes, CountTypes, CopyTypes, HardwareTypes, TurnInv, ShownInv, BackInv,
           [SuiteNext]_suiteVars
    PROVE  BackInv'
<1> USE DEF BackInv, SetupBack, DriversBack, RatesBack, shownVars, threadVars,
   hardwareVars, others
<1>1. CASE SingleStarts
  BY <1>1 DEF SingleStarts
<1>2. CASE SingleEnds
  BY <1>2 DEF SingleEnds
<1>3. CASE PageReads
  BY <1>3 DEF PageReads
<1>4. CASE StopSuite
  BY <1>4 DEF StopSuite
<1>5. CASE \E b \in Boxes : PulledOut(b)
  BY <1>5 DEF PulledOut
<1>6. CASE SuiteClaims
  BY <1>6 DEF SuiteClaims, Moves
<1>7. CASE SuiteNotSpawned
  BY <1>7 DEF SuiteNotSpawned, ShownInv
<1>8. CASE SuiteHolds
  BY <1>8 DEF SuiteHolds, Free, ShownInv
<1>9. CASE SuiteReads
  BY <1>9 DEF SuiteReads, Moves
<1>10. CASE SuiteTurns
  BY <1>10 DEF SuiteTurns
<1>11. CASE Loads
  BY <1>11 DEF Loads
<1>12. CASE SwitchesSetup
  BY <1>12 DEF SwitchesSetup, SavesWorkspace, CannotSave, FailsSetup, GoesOn
<1>13. CASE SwitchesDrivers
  BY <1>13 DEF SwitchesDrivers, FailsSetup, GoesOn
<1>14. CASE RunBegins
  BY <1>14 DEF RunBegins, GoesOn
<1>15. CASE RunEnds
  BY <1>15 DEF RunEnds, FailsSetup, GoesOn, Again, Takes
<1>16. CASE KeepsTrims
  BY <1>16 DEF KeepsTrims, SavesWorkspace, CannotSave, FailsSetup, GoesOn
<1>17. CASE SuiteWraps
  BY <1>17 DEF SuiteWraps, Moves
<1>18. CASE LetsGo
  BY <1>18 DEF LetsGo, Moves
<1>19. CASE SuiteSays
  BY <1>19 DEF SuiteSays, Moves, SuiteStopped
<1>20. CASE SuiteOver
  BY <1>20 DEF SuiteOver, Moves
<1>21. CASE UNCHANGED suiteVars
  BY <1>21 DEF suiteVars
<1>22. CASE PageWrites
  BY <1>22 DEF PageWrites
<1>23. CASE PutsBackSetup
  <2>1. /\ suiteAt = "back" /\ UNCHANGED <<inForce, says>>
        /\ \/ /\ suiteAt' = "backDrivers" /\ loadedCopy # <<>>
              /\ workspace' = [loadedCopy EXCEPT !.setup = inForce.setup]
           \/ suiteAt' = "lettingGo" /\ problems'
    BY <1>23 DEF PutsBackSetup, SavesWorkspace, CannotSave
  <2>2. CASE suiteAt' = "lettingGo" /\ problems'
    BY <2>2
  <2>3. CASE /\ suiteAt' = "backDrivers" /\ loadedCopy # <<>>
             /\ workspace' = [loadedCopy EXCEPT !.setup = inForce.setup]
    <3>1. loadedCopy \in Workspaces
      BY <2>3 DEF CopyTypes
    <3>2. workspace'.setup = inForce.setup
      BY <2>3, <3>1 DEF Workspaces
    <3> QED BY <2>1, <2>3, <3>2
  <2> QED BY <2>1, <2>2, <2>3
<1>24. CASE PutsBackDrivers
  <2>1. /\ suiteAt = "backDrivers" /\ suiteAt' = "backRates"
        /\ UNCHANGED <<inForce, workspace, touched>>
    BY <1>24 DEF PutsBackDrivers, Moves
  <2>2. ~problems' => DriversBack'
    <3>1. CASE inForce.drivers = Unread
      BY <2>1, <3>1
    <3>2. CASE inForce.drivers # Unread
      <4>1. PICK refusing \in SUBSET Boxes :
              PutsDrivers(inForce.drivers, refusing) /\ problems' = (refusing # {})
        BY <1>24, <3>2 DEF PutsBackDrivers
      <4>2. drivers' = [b \in Boxes |->
                          IF b \in refusing THEN drivers[b] ELSE inForce.drivers]
        BY <4>1 DEF PutsDrivers
      <4>3. ~problems' => refusing = {}
        BY <4>1
      <4> QED BY <2>1, <4>2, <4>3
    <3> QED BY <3>1, <3>2
  <2> HIDE DEF DriversBack
  <2> QED BY <2>1, <2>2
<1>25. CASE PutsBackRates
  <2>1. /\ suiteAt = "backRates" /\ suiteAt' = "lettingGo"
        /\ UNCHANGED <<inForce, workspace, drivers, there>>
        /\ touched' = touched \ {"rates"}
    BY <1>25 DEF PutsBackRates, Moves
  <2>2. ~problems' => ~problems /\ RatesBack'
    <3>1. CASE inForce.rates = Unread
      BY <1>25, <2>1, <3>1 DEF PutsBackRates
    <3>2. CASE inForce.rates # Unread
      <4>1. PICK refusing \in SUBSET there :
              /\ rates' = [b \in Boxes |-> IF b \in there \ refusing
                                           THEN inForce.rates ELSE rates[b]]
              /\ problems' = (problems \/ refusing # {})
        BY <1>25, <3>2 DEF PutsBackRates
      <4>2. ~problems' => ~problems /\ refusing = {}
        BY <4>1
      <4> QED BY <2>1, <4>1, <4>2 DEF HardwareTypes
    <3> QED BY <3>1, <3>2
  <2>3. ~problems => SetupBack /\ DriversBack
    BY <2>1
  <2>4. SetupBack' = SetupBack /\ DriversBack' = DriversBack
    BY <2>1
  <2> HIDE DEF SetupBack, DriversBack, RatesBack
  <2> QED BY <2>1, <2>2, <2>3, <2>4
<1> QED
  BY <1>1, <1>2, <1>3, <1>4, <1>5, <1>6, <1>7, <1>8, <1>9, <1>10, <1>11,
     <1>12, <1>13, <1>14, <1>15, <1>16, <1>17, <1>18, <1>19, <1>20, <1>21,
     <1>22, <1>23, <1>24, <1>25 DEF SuiteNext, Suite

SuiteInv ==
    /\ FlagTypes /\ CountTypes /\ CopyTypes /\ HardwareTypes
    /\ progress \in Seq(ShownStates) /\ figures \in Seq(Figures)
    /\ TurnInv /\ HoldInv /\ LoadedInv /\ ShownInv /\ ProgressInv /\ BackInv
    /\ SavedStaysSaved

LEMMA SuiteStarts == SuiteInit => SuiteInv
<1> SUFFICES ASSUME SuiteInit PROVE SuiteInv
  OBVIOUS
<1> USE DEF SuiteInit
<1>1. FlagTypes
  BY DEF FlagTypes, SuitePlaces
<1>12. CountTypes
  BY EmptySeq DEF CountTypes
<1>2. CopyTypes
  BY DEF CopyTypes, Workspaces, Names
<1>3. HardwareTypes
  BY DEF HardwareTypes, Names
<1>4. /\ progress \in Seq(ShownStates) /\ figures \in Seq(Figures)
      /\ Len(figures) = 0 /\ DOMAIN progress = {}
  BY EmptySeq
<1>5. TurnInv
  BY <1>4 DEF TurnInv
<1>6. HoldInv /\ LoadedInv /\ ShownInv /\ ProgressInv /\ BackInv
  BY DEF HoldInv, SuiteMeasuresAlone, LoadedInv, ShownInv, ProgressInv, BackInv
<1>7. SavedStaysSaved
  BY <1>4 DEF SavedStaysSaved
<1> QED BY <1>1, <1>12, <1>2, <1>3, <1>4, <1>5, <1>6, <1>7 DEF SuiteInv

LEMMA SuiteGoesOn == SuiteInv /\ [SuiteNext]_suiteVars => SuiteInv'
<1> SUFFICES ASSUME SuiteInv, [SuiteNext]_suiteVars PROVE SuiteInv'
  OBVIOUS
<1>1. /\ FlagTypes /\ CountTypes /\ CopyTypes /\ HardwareTypes
      /\ progress \in Seq(ShownStates) /\ figures \in Seq(Figures)
      /\ Len(figures) < Runs
      /\ TurnInv /\ HoldInv /\ LoadedInv /\ ShownInv /\ ProgressInv /\ BackInv
      /\ SavedStaysSaved
  BY DEF SuiteInv, TurnInv
<1>2. FlagTypes' /\ CountTypes'
  BY <1>1, FlagTypesStep, CountTypesStep
<1>3. CopyTypes' /\ HardwareTypes'
  BY <1>1, CopyTypesStep, HardwareTypesStep
<1>4. figures' \in Seq(Figures) /\ Len(figures') < Runs
  BY <1>1, FiguresStep
<1>5. /\ progress' \in Seq(ShownStates)
      /\ suiteAt' \notin {"off", "claimed"} => Len(progress') = setupsAsked'
  BY <1>1, ProgressTypeStep
<1>6. /\ suiteAt' \in {"switching", "drivers", "run", "measured", "keeping"} =>
           turn' <= setupsAsked'
      /\ suiteAt' # "off" => setupsAsked' \in Setups
  BY <1>1, TurnSteps
<1>7. TurnInv'
  BY <1>4, <1>5, <1>6 DEF TurnInv, Setups
<1>8. HoldInv' /\ LoadedInv' /\ ShownInv'
  BY <1>1, HoldStep, CopyStep, ShownStep
<1>9. ProgressInv'
  BY <1>1, ProgressStep
<1>10. BackInv'
  BY <1>1, BackStep
<1>11. SavedStaysSaved'
  BY <1>1, SavedStep
<1> QED
  BY <1>2, <1>3, <1>4, <1>5, <1>7, <1>8, <1>9, <1>10, <1>11 DEF SuiteInv

LEMMA SuiteAlways == SuiteSpec => []SuiteInv
  BY SuiteStarts, SuiteGoesOn, PTL DEF SuiteSpec

\* What the invariant says of the types and of what a page is told.
LEMMA SuiteInvFacts ==
    ASSUME SuiteInv
    PROVE  SuiteTypeOK /\ SuiteKeepsItsWord
<1>1. /\ FlagTypes /\ CountTypes /\ CopyTypes /\ HardwareTypes
      /\ progress \in Seq(ShownStates) /\ figures \in Seq(Figures)
      /\ Len(figures) < Runs
      /\ TurnInv /\ HoldInv /\ LoadedInv /\ ShownInv /\ ProgressInv /\ BackInv
      /\ SavedStaysSaved
  BY DEF SuiteInv, TurnInv
<1>2. SuiteTypeOK
  <2>1. Len(figures) \in Nat
    BY <1>1, LenProperties
  <2>2. Len(figures) <= Runs
    BY <1>1, <2>1
  <2> QED
    BY <1>1, <2>2 DEF SuiteTypeOK, FlagTypes, CountTypes, CopyTypes,
       HardwareTypes, ShownStates
<1>3. PutBackOrSaid
  BY <1>1 DEF PutBackOrSaid, Over, BackInv, SetupBack, DriversBack, RatesBack,
     HoldInv
<1>4. SuiteMeasuresAlone
  BY <1>1 DEF HoldInv
<1>5. ProgressIsSettled
  <2>1. Over => suiteAt = "off"
    BY <1>1 DEF Over, HoldInv
  <2>2. ToSet(progress) = {progress[s] : s \in DOMAIN progress}
    BY DEF ToSet
  <2> QED
    BY <1>1, <2>1, <2>2 DEF ProgressIsSettled, ProgressInv, Over, Settled
<1> QED BY <1>1, <1>2, <1>3, <1>4, <1>5 DEF SuiteKeepsItsWord

\* An alignment suite keeps its word, whatever pages write, persons stop and
\* cables fail meanwhile: what it says it put back it did, what it shows as
\* saved is in the workspace, it measures alone, and it leaves no setup shown
\* as under way (suite.rs, run).
THEOREM SuiteHonest == SuiteSpec => []SuiteKeepsItsWord
<1>1. SuiteInv => SuiteKeepsItsWord
  BY SuiteInvFacts
<1> QED BY <1>1, SuiteAlways, PTL

HIDE SuiteAssumption

-----------------------------------------------------------------------------
(* The parts together.                                                       *)

\* A part rests or takes a step of its own.
LEMMA AggregatePartsMove ==
    ASSUME [AggregateNext]_aggregateVars
    PROVE  /\ [RecordNext]_recordVars /\ [RingNext]_ringVars
           /\ [StreamNext]_streamVars /\ [PhaseNext]_phaseVars
           /\ [ReloadNext]_reloadVars /\ [RateNext]_rateVars
           /\ [StoredNext]_setupVars /\ [SuiteNext]_suiteVars
<1>1. CASE UNCHANGED aggregateVars
  BY <1>1 DEF aggregateVars
<1>2. CASE AggregateNext
  BY <1>2 DEF AggregateNext
<1> QED BY <1>1, <1>2

\* The aggregate behaves as each of its parts does.
LEMMA AggregatePartsAreThemselves ==
    AggregateSpec => /\ RecordSpec /\ RingSpec /\ StreamSpec /\ PhaseSpec
                     /\ ReloadSpec /\ RateSpec /\ StoredSpec /\ SuiteSpec
<1>1. AggregateInit => /\ RecordInit /\ RingInit /\ StreamInit /\ PhaseInit
                       /\ ReloadInit /\ RateInit /\ StoredInit /\ SuiteInit
  BY DEF AggregateInit
<1>2. [AggregateNext]_aggregateVars =>
         /\ [RecordNext]_recordVars /\ [RingNext]_ringVars
         /\ [StreamNext]_streamVars /\ [PhaseNext]_phaseVars
         /\ [ReloadNext]_reloadVars /\ [RateNext]_rateVars
         /\ [StoredNext]_setupVars /\ [SuiteNext]_suiteVars
  BY AggregatePartsMove
<1> QED
  BY <1>1, <1>2, PTL DEF AggregateSpec, RecordSpec, RingSpec, StreamSpec, PhaseSpec,
     ReloadSpec, RateSpec, StoredSpec, SuiteSpec

\* A reload changes nothing under a DAW that has the buffers, the watcher has
\* ended before what it reaches is dropped, and the files a reload reads are
\* whole and current, with nothing that was edited or known put back (watch.rs,
\* com.rs, export.rs).
THEOREM SetupSafe == AggregateSpec => SetupIsSafe
  BY AggregatePartsAreThemselves, PlanHeld, WatcherJoined, StoredSafe, PTL
     DEF SetupIsSafe

\* Whatever the drivers, callbacks, pages and devices do, every part of the
\* aggregate keeps its state in its range: the rings hold no more than they have
\* places for, no delay is negative, and no interface is at a rate nobody asked
\* for or knows.
THEOREM AggregateTyped == AggregateSpec => []AggregateTypeOK
<1>1. RecordInv => RecordTypeOK
  BY DEF RecordInv
<1>2. QueueInv => RingTypeOK
  BY DEF QueueInv
<1>3. StreamInv => StreamTypeOK
  BY DEF StreamInv
<1>4. StoredInv => StoredTypeOK
  BY StoredInvFacts
<1>5. SuiteInv => SuiteTypeOK
  BY SuiteInvFacts
<1>6. /\ RecordTypeOK /\ RingTypeOK /\ StreamTypeOK /\ PhaseTypeOK
      /\ ReloadTypeOK /\ RateTypeOK /\ StoredTypeOK /\ SuiteTypeOK
      => AggregateTypeOK
  BY DEF AggregateTypeOK
<1> QED
  BY <1>1, <1>2, <1>3, <1>4, <1>5, <1>6, AggregatePartsAreThemselves, RecordAlways,
     RingInvariant, StreamAlways, PhaseTyped, RateTyped, ReloadAlways, ReloadTypes,
     StoredAlways, SuiteAlways, PTL

=============================================================================

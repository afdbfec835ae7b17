----------------------------- MODULE StoredSetup -----------------------------
(***************************************************************************)
(* The workspace as it is stored, and the file the aggregate driver reads, *)
(* which follows it (aggregate/export.rs, ExportingStore; follow.rs;       *)
(* workspace/store.rs): saves of pages, the follower of the interfaces     *)
(* that brings up to date what is known of them, writes and renames that   *)
(* fail, and a server that is killed and started again.                    *)
(*                                                                         *)
(* The aggregate has one entry, which a person may tie to the interface    *)
(* "here", whose routing and rate change and which comes and goes, or to   *)
(* one that is never there.                                                *)
(***************************************************************************)
EXTENDS Naturals

CONSTANTS
    Savers,     \* pages and others that save workspaces
    Edits,      \* bound: workspaces they save
    Turns,      \* bound: changes of the interface and of the DAW
    Mishaps     \* bound: reads, writes and renames that fail, and crashes

ASSUME StoreAssumption ==
    /\ Edits \in Nat /\ Turns \in Nat /\ Mishaps \in Nat
    /\ Savers \cap {"follower", "start", "nobody"} = {}

VARIABLES
    stored,     \* the workspace's file
    driverFile, \* the aggregate's file: the document in it
    draft,      \* the temporary file of the one being written
    holder,     \* who holds `lock`, or is starting the server
    job,        \* per actor, what it writes and how far it is
    toSave,     \* per saver, the workspace it is to save, or NoWorkspace
    followerAt, \* where the follower is
    woken,      \* it has something to wake it
    groupAsked, \* it has asked for the routing since the interface came
    listed,     \* the interface is in the server's table
    routing,    \* how it is routed, as numbered by the changes
    remembered, \* the routing the server has seen of it, or 0
    tuned,      \* the rate it runs at
    dawOpen,    \* a DAW has the aggregate open
    serving,    \* the server is serving
    latest,     \* history: the workspace saved last, without what is known
    best,       \* history: the latest routing the entry has been known by
    unexported, \* history: the last export failed
    unfollowed, \* history: the last refresh failed
    rateMissed, \* history: the last refresh left a rate alone for the DAW
    edits, turns, mishaps

filesVars == <<stored, driverFile, draft>>
savingVars == <<holder, job, toSave>>
followVars == <<followerAt, woken, groupAsked>>
interfaceVars == <<listed, routing, remembered, tuned, dawOpen>>
setupHistory == <<latest, best, unexported, unfollowed, rateMissed>>
setupVars == <<filesVars, savingVars, followVars, interfaceVars, serving, setupHistory,
               edits, turns, mishaps>>

NothingKnown == [of |-> "nothing", names |-> 0, rate |-> 0]
NoWorkspace == [note |-> 0, tied |-> "noWorkspace", known |-> NothingKnown]
Half == [note |-> 0, tied |-> "halfAFile", known |-> NothingKnown]
NoFile == [tied |-> "noFile", known |-> NothingKnown]

(* A setup is in the workspace when its entry is tied to an interface.     *)
Has(w) == w.tied \in {"here", "elsewhere"}

Actors == Savers \cup {"follower", "start"}
Idle == [at |-> "idle", before |-> NoFile, next |-> NoWorkspace]

Known == [of : {"nothing", "here", "elsewhere"}, names : 0 .. routing, rate : 0 .. 2]
Workspace == [note : 0 .. Edits, tied : {"none", "here", "elsewhere"}, known : Known]
Document == [tied : {"here", "elsewhere"}, known : Known]

StoredTypeOK ==
    /\ stored \in Workspace \cup {Half}
    /\ driverFile \in Document \cup {NoFile, Half}
    /\ draft \in Workspace \cup Document \cup {Half, NoFile}
    /\ holder \in Actors \cup {"nobody"}
    /\ job \in [Actors -> [at : {"idle", "write", "rename", "export", "renameExport", "release"},
                           before : Document \cup {NoFile}, next : Workspace \cup {NoWorkspace}]]
    /\ toSave \in [Savers -> Workspace \cup {NoWorkspace}]
    /\ followerAt \in {"refresh", "holding", "ask", "wait"}
    /\ {woken, groupAsked, listed, dawOpen, serving, unexported, unfollowed, rateMissed} \subseteq BOOLEAN
    /\ tuned \in 1 .. 2 /\ remembered \in 0 .. routing

StoredInit ==
    /\ stored = [note |-> 0, tied |-> "none", known |-> NothingKnown]
    /\ driverFile = NoFile /\ draft = NoFile
    /\ holder = "nobody" /\ job = [a \in Actors |-> Idle] /\ toSave = [s \in Savers |-> NoWorkspace]
    /\ followerAt = "refresh" /\ woken = FALSE /\ groupAsked = FALSE
    /\ listed = FALSE /\ routing = 1 /\ remembered = 0 /\ tuned = 1 /\ dawOpen = FALSE
    /\ serving = TRUE
    /\ latest = [note |-> 0, tied |-> "none"] /\ best = 0
    /\ unexported = FALSE /\ unfollowed = FALSE /\ rateMissed = FALSE
    /\ edits = 0 /\ turns = 0 /\ mishaps = 0

-----------------------------------------------------------------------------
(* The interface, and the DAW.                                             *)

Turn ==
    /\ turns < Turns /\ turns' = turns + 1
    /\ UNCHANGED <<filesVars, savingVars, followerAt, serving, setupHistory, edits, mishaps>>

(* The routing remembered of it goes with it, and the follower hears.      *)
ComesOrGoes ==
    /\ Turn /\ serving
    /\ listed' = ~listed /\ remembered' = 0 /\ woken' = TRUE
    /\ groupAsked' = (groupAsked /\ ~listed)
    /\ UNCHANGED <<routing, tuned, dawOpen>>

(* Through the server, which remembers it; or elsewhere, while it is away. *)
Rerouted ==
    /\ Turn
    /\ routing' = routing + 1
    /\ IF listed THEN remembered' = routing' /\ woken' = TRUE ELSE UNCHANGED <<remembered, woken>>
    /\ UNCHANGED <<groupAsked, listed, tuned, dawOpen>>

(* Its reports carry the rate, and the follower wakes when it is another.  *)
RateTurned ==
    /\ Turn
    /\ tuned' = 3 - tuned /\ woken' = (woken \/ listed)
    /\ UNCHANGED <<groupAsked, listed, routing, remembered, dawOpen>>

DawOpensOrCloses ==
    /\ Turn
    /\ dawOpen' = ~dawOpen
    /\ UNCHANGED <<woken, groupAsked, listed, routing, remembered, tuned>>

-----------------------------------------------------------------------------
(* What is known, and what the driver is given.                            *)

Text(w) == IF Has(w) THEN [tied |-> w.tied, known |-> w.known] ELSE NoFile

(* What was known is of the entry in the store, never of the client's.     *)
Earlier(w, was) == IF Has(was) THEN was.known ELSE NothingKnown

KnownFor(tied, was) ==
    LET same == was.of = tied
    IN  IF tied = "here" /\ listed
        THEN [of |-> "here",
              names |-> IF remembered # 0 THEN remembered ELSE IF same THEN was.names ELSE 0,
              rate |-> IF ~dawOpen THEN tuned ELSE IF same THEN was.rate ELSE 0]
        ELSE IF was = NothingKnown \/ same THEN was
        ELSE [of |-> tied, names |-> 0, rate |-> 0]

WithKnown(w, was) ==
    IF Has(w) THEN [w EXCEPT !.known = KnownFor(w.tied, Earlier(w, was))] ELSE w

-----------------------------------------------------------------------------
(* One save or refresh at a time, under the lock.                          *)

MayFail == mishaps < Mishaps /\ mishaps' = mishaps + 1
LockFree == serving /\ holder = "nobody"

(* A handler with a workspace a page has changed.  What the page has of    *)
(* the interfaces is old.                                                  *)
PutWorkspace(s) ==
    /\ serving /\ toSave[s] = NoWorkspace /\ edits < Edits
    /\ edits' = edits + 1
    /\ \E tied \in {"none", "here", "elsewhere"} :
          toSave' = [toSave EXCEPT ![s] =
                       [note |-> edits', tied |-> tied,
                        known |-> IF tied = "none" THEN NothingKnown
                                  ELSE [of |-> "here", names |-> 0, rate |-> 1]]]
    /\ UNCHANGED <<filesVars, holder, job, followVars, interfaceVars, serving, setupHistory,
                   turns, mishaps>>

(* A store that cannot be read does not refuse a save: nothing is known    *)
(* before it, and the driver's file counts as changed.                     *)
SaveLooks(s) ==
    /\ LockFree /\ toSave[s] # NoWorkspace
    /\ holder' = s
    /\ \/ /\ job' = [job EXCEPT ![s] = [at |-> "write", before |-> Text(stored),
                                       next |-> WithKnown(toSave[s], stored)]]
          /\ UNCHANGED <<mishaps, best>>
       \/ /\ job' = [job EXCEPT ![s] = [at |-> "write", before |-> NoFile,
                                       next |-> WithKnown(toSave[s], NoWorkspace)]]
          /\ best' = 0 /\ MayFail
    /\ UNCHANGED <<filesVars, toSave, followVars, interfaceVars, serving, latest, unexported,
                   unfollowed, rateMissed, edits, turns>>

RefreshLooks ==
    /\ LockFree /\ followerAt = "refresh"
    /\ holder' = "follower" /\ followerAt' = "holding"
    /\ \/ LET now == WithKnown(stored, stored)
          IN  /\ job' = [job EXCEPT !["follower"] = [at |-> IF now = stored THEN "release" ELSE "write",
                                                   before |-> Text(stored), next |-> now]]
              /\ unfollowed' = FALSE /\ rateMissed' = (listed /\ dawOpen)
              /\ UNCHANGED mishaps
       \/ /\ job' = [job EXCEPT !["follower"] = [Idle EXCEPT !.at = "release"]]
          /\ unfollowed' = TRUE /\ MayFail
          /\ UNCHANGED rateMissed
    /\ UNCHANGED <<filesVars, toSave, woken, groupAsked, interfaceVars, serving, latest, best,
                   unexported, edits, turns>>

GoesOnTo(a, step) == job' = [job EXCEPT ![a].at = step]

(* The temporary file is written first.  A disk that is full leaves half   *)
(* of it, and the save or the export ends there.                           *)
Drafts(a, what, then) ==
    \/ draft' = what /\ GoesOnTo(a, then) /\ UNCHANGED mishaps
    \/ draft' = Half /\ GoesOnTo(a, "release") /\ MayFail

WritesWorkspace(a) ==
    /\ job[a].at = "write" /\ Drafts(a, job[a].next, "rename")
    /\ unfollowed' = (unfollowed \/ (draft' = Half /\ a = "follower"))
    /\ UNCHANGED <<stored, driverFile, holder, toSave, followVars, interfaceVars, serving,
                   latest, best, unexported, rateMissed, edits, turns>>

(* The driver's file is next, when what the driver would be given is not   *)
(* what it was.                                                            *)
RenamesWorkspace(a) ==
    LET next == job[a].next
    IN  /\ job[a].at = "rename"
        /\ \/ /\ stored' = draft /\ draft' = NoFile
              /\ latest' = IF a \in Savers THEN [note |-> next.note, tied |-> next.tied] ELSE latest
              /\ best' = IF next.tied # "here" THEN 0
                         ELSE IF latest.tied = "here" /\ best > next.known.names THEN best
                         ELSE next.known.names
              /\ GoesOnTo(a, IF ~Has(next) \/ job[a].before = Text(next) THEN "release" ELSE "export")
              /\ UNCHANGED <<mishaps, unfollowed>>
           \/ /\ GoesOnTo(a, "release") /\ MayFail
              /\ unfollowed' = (unfollowed \/ a = "follower")
              /\ UNCHANGED <<stored, draft, latest, best>>
        /\ UNCHANGED <<driverFile, holder, toSave, followVars, interfaceVars, serving,
                       unexported, rateMissed, edits, turns>>

WritesExport(a) ==
    /\ job[a].at = "export" /\ Drafts(a, Text(job[a].next), "renameExport")
    /\ unexported' = (unexported \/ draft' = Half)
    /\ UNCHANGED <<stored, driverFile, holder, toSave, followVars, interfaceVars, serving,
                   latest, best, unfollowed, rateMissed, edits, turns>>

RenamesExport(a) ==
    /\ job[a].at = "renameExport" /\ GoesOnTo(a, "release")
    /\ \/ driverFile' = draft /\ draft' = NoFile /\ unexported' = FALSE /\ UNCHANGED mishaps
       \/ unexported' = TRUE /\ MayFail /\ UNCHANGED <<driverFile, draft>>
    /\ UNCHANGED <<stored, holder, toSave, followVars, interfaceVars, serving, latest, best,
                   unfollowed, rateMissed, edits, turns>>

(* The lock is let go.  A save that went through wakes the follower; a     *)
(* start serves, whatever became of its export.                            *)
UnlocksStore(a) ==
    /\ job[a].at = "release"
    /\ job' = [job EXCEPT ![a] = Idle] /\ holder' = "nobody" /\ draft' = NoFile
    /\ IF a \in Savers
       THEN /\ toSave' = [toSave EXCEPT ![a] = NoWorkspace]
            /\ woken' = (woken \/ stored.note = toSave[a].note)
       ELSE UNCHANGED <<toSave, woken>>
    /\ followerAt' = IF a = "follower" THEN "ask" ELSE followerAt
    /\ serving' = TRUE
    /\ UNCHANGED <<stored, driverFile, groupAsked, interfaceVars, setupHistory, edits, turns,
                   mishaps>>

ActorWrites(a) ==
    WritesWorkspace(a) \/ RenamesWorkspace(a) \/ WritesExport(a) \/ RenamesExport(a) \/ UnlocksStore(a)

-----------------------------------------------------------------------------
(* The follower, between two refreshes.                                    *)

(* The routing the names come from is asked for once; the answer wakes it. *)
FollowerAsks ==
    /\ serving /\ followerAt = "ask"
    /\ followerAt' = "wait"
    /\ IF listed /\ remembered = 0 /\ ~groupAsked /\ stored.tied = "here"
       THEN /\ groupAsked' = TRUE
            /\ \/ remembered' = routing /\ woken' = TRUE /\ UNCHANGED mishaps
               \/ MayFail /\ UNCHANGED <<remembered, woken>>
       ELSE UNCHANGED <<groupAsked, remembered, woken, mishaps>>
    /\ UNCHANGED <<filesVars, savingVars, listed, routing, tuned, dawOpen, serving,
                   setupHistory, edits, turns>>

FollowerWakes ==
    /\ serving /\ followerAt = "wait" /\ woken
    /\ woken' = FALSE /\ followerAt' = "refresh"
    /\ UNCHANGED <<filesVars, savingVars, groupAsked, interfaceVars, serving, setupHistory,
                   edits, turns, mishaps>>

-----------------------------------------------------------------------------
(* The server is killed at any point, and started again: what the driver   *)
(* has is compared with the workspace before anything is served.           *)

ServerKilled ==
    /\ serving \/ holder = "start"
    /\ MayFail
    /\ serving' = FALSE /\ listed' = FALSE /\ remembered' = 0
    /\ holder' = "nobody" /\ job' = [a \in Actors |-> Idle] /\ draft' = NoFile
    /\ toSave' = [s \in Savers |-> NoWorkspace]
    /\ followerAt' = "refresh" /\ woken' = FALSE /\ groupAsked' = FALSE
    /\ UNCHANGED <<stored, driverFile, routing, tuned, dawOpen, setupHistory, edits, turns>>

UnlikeTheFile(w) == Has(w) /\ Text(w) # driverFile

Sync ==
    /\ ~serving /\ holder = "nobody"
    /\ \/ /\ UnlikeTheFile(stored)
          /\ holder' = "start"
          /\ job' = [job EXCEPT !["start"] = [Idle EXCEPT !.at = "export", !.next = stored]]
          /\ UNCHANGED <<serving, unexported, mishaps>>
       \/ /\ ~UnlikeTheFile(stored)
          /\ serving' = TRUE /\ unexported' = FALSE
          /\ UNCHANGED <<holder, job, mishaps>>
       \/ /\ serving' = TRUE /\ unexported' = TRUE /\ MayFail
          /\ UNCHANGED <<holder, job>>
    /\ UNCHANGED <<filesVars, toSave, followVars, interfaceVars, latest, best, unfollowed,
                   rateMissed, edits, turns>>

StoredNext ==
    \/ ComesOrGoes \/ Rerouted \/ RateTurned \/ DawOpensOrCloses
    \/ \E s \in Savers : PutWorkspace(s) \/ SaveLooks(s)
    \/ \E a \in Actors : ActorWrites(a)
    \/ RefreshLooks \/ FollowerAsks \/ FollowerWakes \/ ServerKilled \/ Sync

(* Whoever holds the lock, or starts the server, goes on, and the follower *)
(* is a loop.                                                              *)
HolderWorks == Sync \/ \E a \in Actors : ActorWrites(a)
FollowerLoops == RefreshLooks \/ FollowerAsks \/ FollowerWakes

StoredFairness == WF_setupVars(HolderWorks) /\ WF_setupVars(FollowerLoops)

StoredSpec == StoredInit /\ [][StoredNext]_setupVars
StoredFairSpec == StoredSpec /\ StoredFairness

-----------------------------------------------------------------------------
(* Neither file is ever half of one, however a write or a rename ends.     *)
FilesAreWhole == stored # Half /\ driverFile # Half

(* A refresh puts nothing back: what is stored is the workspace saved      *)
(* last, whatever the follower was working on meanwhile.                   *)
EditsStay == stored.note = latest.note /\ stored.tied = latest.tied

(* What is known is of the interface the entry is tied to, and the names   *)
(* it came by do not go back to earlier ones, whatever a page sends.       *)
KnownGoesForward ==
    Has(stored) /\ stored.known # NothingKnown =>
       stored.known.of = stored.tied /\ (stored.tied = "here" => stored.known.names >= best)

(* When nobody is at it, the driver's file is what the workspace says,     *)
(* crashes included; unless its export failed, which nothing tries again   *)
(* until the next change.                                                  *)
DriverFileIsCurrent == LockFree /\ ~unexported => ~UnlikeTheFile(stored)

StoredIsSafe == FilesAreWhole /\ EditsStay /\ KnownGoesForward /\ DriverFileIsCurrent

(* The names and the rate the driver is given come to be those of the      *)
(* interface, with no page open and nothing asked twice.  A refresh that   *)
(* failed is not tried again, and neither is a rate that was left alone    *)
(* because a DAW had the aggregate open: closing it wakes nobody.          *)
FollowsTheInterface ==
    stored.tied = "here" /\ listed =>
       /\ remembered # 0 => stored.known.names = remembered
       /\ rateMissed \/ stored.known.rate = tuned

FileFollows == <>[](unexported \/ unfollowed \/ (serving /\ FollowsTheInterface))

=============================================================================

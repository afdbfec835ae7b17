------------------------------ MODULE Updates ------------------------------
(***************************************************************************)
(* Updating Gazelle itself (update/mod.rs, update/stage.rs): a check asks  *)
(* the release source, a download fetches a release, verifies it and moves *)
(* it to where the running binary is, and a restart runs what is there.    *)
(* Checks and downloads come from the background thread, the tray and the  *)
(* pages, each on a thread of its own (http/update.rs).                    *)
(*                                                                         *)
(* Releases are numbered; 1 is the one first run, and a file is the number *)
(* of the release it holds, Nothing, or Partial.  A path holds the running *)
(* image when it holds the running release.  One binary is modelled: a     *)
(* sibling goes through the same steps after it.                           *)
(***************************************************************************)
EXTENDS Integers

CONSTANTS
    Callers,    \* threads that check and download
    Releases,   \* bound: the last release there will be
    Failures,   \* bound: fetches and renames that fail
    Starts      \* bound: times the program is started again

Nothing == 0
Partial == -1
NoCaller == "nobody"

ASSUME UpdatesAssumption ==
    /\ Releases \in Nat \ {0} /\ Failures \in Nat /\ Starts \in Nat
    /\ NoCaller \notin Callers

ImagesHeld == {TRUE, FALSE}  \* whether the system keeps a running image from being removed

VARIABLES
    newest,      \* the newest release of the source
    state,       \* what the updater says it is at, and of which release
    found,       \* the release the last check found, or Nothing
    at,          \* per caller, where it is
    got,         \* per caller, the release it has in hand, or Nothing
    downloading, \* who holds the lock of downloads
    target, old, temp,  \* the binary's path, <target>.old, <target>.download
    held,        \* whether a running image is kept from being removed
    running,     \* the release that runs, or last ran
    up,          \* whether it runs
    restartAsked,       \* whether a restart was asked for
    broken,      \* whether a rename and its undoing, or an exit, left no binary
    failures, starts

offerVars == <<newest, found>>
callVars == <<at, got, downloading>>
fileVars == <<target, old, temp>>
processVars == <<held, running, up, restartAsked, starts>>
updateVars == <<offerVars, state, callVars, fileVars, processVars, broken, failures>>

At == {"idle", "passed", "asking", "looked", "answered", "queued", "fetching", "verified", "aside", "clear"}
Files == {Nothing, Partial} \cup 1 .. Releases
States == [is : {"unknown", "checking", "available", "up to date", "downloading", "staged", "failed"},
           of : 0 .. Releases]
Says(is, of) == [is |-> is, of |-> of]

UpdatesTypeOK ==
    /\ newest \in 1 .. Releases /\ found \in 0 .. Releases /\ state \in States
    /\ at \in [Callers -> At] /\ got \in [Callers -> 0 .. Releases]
    /\ downloading \in Callers \cup {NoCaller}
    /\ target \in Files /\ old \in Files /\ temp \in Files
    /\ held \in BOOLEAN /\ running \in 1 .. Releases /\ up \in BOOLEAN /\ restartAsked \in BOOLEAN
    /\ broken \in BOOLEAN /\ failures \in 0 .. Failures /\ starts \in 0 .. Starts

UpdatesInit ==
    /\ newest = 1 /\ found = Nothing /\ state = Says("unknown", Nothing)
    /\ at = [c \in Callers |-> "idle"] /\ got = [c \in Callers |-> Nothing]
    /\ downloading = NoCaller
    /\ target = 1 /\ old = Nothing /\ temp = Nothing
    /\ held \in ImagesHeld /\ running = 1 /\ up = TRUE /\ restartAsked = FALSE
    /\ broken = FALSE /\ failures = 0 /\ starts = 0

Publish ==
    /\ newest < Releases /\ newest' = newest + 1
    /\ UNCHANGED <<found, state, callVars, fileVars, processVars, broken, failures>>

Goes(c, where) == at' = [at EXCEPT ![c] = where]
Fails == failures < Failures /\ failures' = failures + 1

-----------------------------------------------------------------------------
(* A check.  What it finds is written in three critical sections, with the *)
(* source asked between the first two.                                     *)

(* The gate: a staged update, or one under way, is left alone.             *)
CheckPasses(c) ==
    /\ up /\ at[c] = "idle"
    /\ state.is \notin {"staged", "downloading"}
    /\ Goes(c, "passed")
    /\ UNCHANGED <<offerVars, state, got, downloading, fileVars, processVars, broken, failures>>

CheckBegins(c) ==
    /\ at[c] = "passed"
    /\ state' = Says("checking", Nothing)
    /\ Goes(c, "asking")
    /\ UNCHANGED <<offerVars, got, downloading, fileVars, processVars, broken, failures>>

CheckLooks(c) ==
    /\ at[c] = "asking"
    /\ got' = [got EXCEPT ![c] = IF newest > running THEN newest ELSE Nothing]
    /\ Goes(c, "looked")
    /\ UNCHANGED <<offerVars, state, downloading, fileVars, processVars, broken, failures>>

CheckFinds(c) ==
    /\ at[c] = "looked"
    /\ found' = got[c]
    /\ Goes(c, "answered")
    /\ UNCHANGED <<newest, state, got, downloading, fileVars, processVars, broken, failures>>

(* The answer is written over whatever the state has become; a release     *)
(* that is found is downloaded next (auto_download).                       *)
CheckEnds(c) ==
    /\ at[c] = "answered"
    /\ IF got[c] = Nothing
       THEN state' = Says("up to date", Nothing) /\ Goes(c, "idle")
       ELSE state' = Says("available", got[c]) /\ Goes(c, "queued")
    /\ got' = [got EXCEPT ![c] = Nothing]
    /\ UNCHANGED <<offerVars, downloading, fileVars, processVars, broken, failures>>

CheckFails(c) ==
    /\ at[c] = "asking" /\ Fails
    /\ state' = Says("failed", Nothing) /\ Goes(c, "idle")
    /\ UNCHANGED <<offerVars, got, downloading, fileVars, processVars, broken>>

-----------------------------------------------------------------------------
(* A download, under the lock of downloads from beginning to end.          *)

DownloadAsked(c) ==
    /\ up /\ at[c] = "idle"
    /\ Goes(c, "queued")
    /\ UNCHANGED <<offerVars, state, got, downloading, fileVars, processVars, broken, failures>>

(* As if downloads were not kept apart.                                    *)
MayDownload_Unlocked(c) == TRUE

MayDownload(c) == downloading = NoCaller

DownloadBegins(c) ==
    /\ at[c] = "queued" /\ MayDownload(c)
    /\ IF found = Nothing
       THEN state' = Says("failed", Nothing) /\ Goes(c, "idle") /\ UNCHANGED <<got,
                                                                               downloading,
                                                                               temp>>
       ELSE /\ state' = Says("downloading", found)
            /\ got' = [got EXCEPT ![c] = found] /\ downloading' = c
            /\ temp' = Partial
            /\ Goes(c, "fetching")
    /\ UNCHANGED <<offerVars, target, old, processVars, broken, failures>>

(* All of it has come, and its digest and the signature are right.         *)
Verified(c) ==
    /\ at[c] = "fetching"
    /\ temp' = got[c]
    /\ Goes(c, "verified")
    /\ UNCHANGED <<offerVars, state, got, downloading, target, old, processVars,
                   broken, failures>>

(* A download that fails, at whatever step, deletes what came.             *)
GivesUp(c) ==
    /\ temp' = Nothing
    /\ state' = Says("failed", Nothing)
    /\ Goes(c, "idle") /\ got' = [got EXCEPT ![c] = Nothing]
    /\ downloading' = NoCaller

FetchFails(c) ==
    /\ at[c] = "fetching" /\ Fails
    /\ GivesUp(c)
    /\ UNCHANGED <<offerVars, target, old, processVars, broken>>

(* stage: what an earlier update left aside is removed if it can be, and   *)
(* the binary moved there; there may be no binary to move.                 *)
OldIsHeld == held /\ old = running
OldAfterRemoval == IF OldIsHeld THEN old ELSE Nothing

MovesAside(c) ==
    /\ at[c] = "verified"
    /\ IF target = Nothing
       THEN old' = OldAfterRemoval /\ Goes(c, "clear") /\ UNCHANGED target
       ELSE ~OldIsHeld /\ old' = target /\ target' = Nothing /\ Goes(c, "aside")
    /\ UNCHANGED <<offerVars, state, got, downloading, temp, processVars, broken, failures>>

CannotMoveAside(c) ==
    /\ at[c] = "verified" /\ target # Nothing
    /\ IF OldIsHeld THEN UNCHANGED failures ELSE Fails
    /\ old' = OldAfterRemoval
    /\ GivesUp(c)
    /\ UNCHANGED <<offerVars, target, processVars, broken>>

MovesIn(c) ==
    /\ at[c] \in {"aside", "clear"}
    /\ target' = temp /\ temp' = Nothing
    /\ state' = Says("staged", got[c])
    /\ Goes(c, "idle") /\ got' = [got EXCEPT ![c] = Nothing]
    /\ downloading' = NoCaller /\ broken' = FALSE
    /\ UNCHANGED <<offerVars, old, processVars, failures>>

(* What was moved aside is moved back, which may fail as well.             *)
CannotMoveIn(c) ==
    /\ \/ at[c] = "clear" /\ Fails /\ UNCHANGED <<target, old, broken>>
       \/ at[c] = "aside" /\ Fails /\ target' = old /\ old' = Nothing /\ UNCHANGED broken
       \/ /\ at[c] = "aside" /\ broken' = TRUE /\ UNCHANGED <<target, old>>
          /\ failures + 2 <= Failures /\ failures' = failures + 2
    /\ GivesUp(c)
    /\ UNCHANGED <<offerVars, processVars>>

-----------------------------------------------------------------------------
(* The program.                                                            *)

(* Restart::request: refused unless something is staged.                   *)
AskRestart ==
    /\ up /\ state.is = "staged"
    /\ restartAsked' = TRUE
    /\ UNCHANGED <<offerVars, state, callVars, fileVars, held, running, up, starts,
                   broken, failures>>

(* It ends, for a restart or otherwise, wherever its threads are.          *)
BetweenRenames == \E c \in Callers : at[c] = "aside"
Exit ==
    /\ up /\ up' = FALSE
    /\ state' = Says("unknown", Nothing) /\ found' = Nothing
    /\ at' = [c \in Callers |-> "idle"] /\ got' = [c \in Callers |-> Nothing]
    /\ downloading' = NoCaller
    /\ broken' = (broken \/ BetweenRenames)
    /\ UNCHANGED <<newest, fileVars, held, running, restartAsked, starts, failures>>

(* What is at the path runs, and what the update left aside is deleted, if *)
(* nothing reads it.                                                       *)
Start ==
    /\ ~up /\ starts < Starts /\ target # Nothing
    /\ up' = TRUE /\ starts' = starts + 1 /\ running' = target /\ restartAsked' = FALSE
    /\ \/ old' = Nothing /\ UNCHANGED failures
       \/ old # Nothing /\ Fails /\ UNCHANGED old
    /\ UNCHANGED <<offerVars, state, callVars, target, temp, held, broken>>

Stage(c) == MovesAside(c) \/ CannotMoveAside(c) \/ MovesIn(c) \/ CannotMoveIn(c)
Check(c) ==
    \/ CheckPasses(c) \/ CheckBegins(c) \/ CheckLooks(c) \/ CheckFinds(c) \/ CheckEnds(c)
    \/ CheckFails(c)
Download(c) == DownloadAsked(c) \/ DownloadBegins(c) \/ Verified(c) \/ FetchFails(c) \/ Stage(c)

UpdatesNext ==
    \/ Publish \/ AskRestart \/ Exit \/ Start
    \/ \E c \in Callers : Check(c) \/ Download(c)

UpdatesSpec == UpdatesInit /\ [][UpdatesNext]_updateVars

-----------------------------------------------------------------------------
(* There is a whole binary to run, never older than the one that ran, but  *)
(* between the two renames, or after a failure the code cannot undo: an    *)
(* undoing that fails too, or an exit between them (stage.rs, stage: "a    *)
(* failed staging leaves the binary that was running exactly where it      *)
(* was").  Two downloads at once would write one temporary file.           *)
InPlaceIsWhole ==
    /\ target # Partial /\ old # Partial
    /\ target # Nothing => target >= running
    /\ target = Nothing => broken \/ BetweenRenames

(* A release that is said to be staged is the one at the path; a restart   *)
(* that was asked for finds a newer release there, or one on its way in    *)
(* (update/mod.rs, Restart: "checks that something really is staged").     *)
StagedIsInPlace ==
    /\ state.is = "staged" => target = state.of /\ target > running
    /\ restartAsked => target > running \/ broken \/ BetweenRenames

UpdatesAreWhole == InPlaceIsWhole /\ StagedIsInPlace

(* A check never takes a staged update out of the state: "A staged update  *)
(* is the end of the road until a restart" (update/mod.rs, check).         *)
StagedIsTheEnd ==
    [][state.is = "staged" /\ (\E c \in Callers : Check(c)) => UNCHANGED state]_updateVars

=============================================================================

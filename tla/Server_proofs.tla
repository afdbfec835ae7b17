---------------------------- MODULE Server_proofs ----------------------------
(***************************************************************************)
(* What the server's threads leave behind whatever order they take: the    *)
(* binary an update replaces, the table of interfaces with what clients    *)
(* are told of it, the requests of one worker with the reports that come   *)
(* back, packets put together into messages, the calls of a page, and the  *)
(* phones with the file that keeps them; for any number of callers,        *)
(* interfaces, requests, losses, starts and failures.  Last, the           *)
(* server with all of these, as it is checked.                             *)
(***************************************************************************)
EXTENDS MCServer, SequenceTheorems, FiniteSetTheorems, TLAPS

-----------------------------------------------------------------------------
(* Updating.                                                               *)

USE UpdatesAssumption

InDownload == {"fetching", "verified", "aside", "clear"}

\* Whoever is in a download holds its lock, and a program that has ended has
\* no threads, no state and nothing it found.
TurnInv ==
    /\ \A c \in Callers : at[c] \in InDownload <=> downloading = c
    /\ ~up => /\ state.is = "unknown" /\ found = Nothing
              /\ \A c \in Callers : at[c] = "idle"

\* A release that was found, or is in hand, is newer than the one that runs;
\* what came of it whole is in the temporary file.
InHandInv ==
    /\ found # Nothing => found > running
    /\ \A c \in Callers :
          /\ at[c] = "looked" /\ got[c] # Nothing => got[c] > running
          /\ at[c] \in InDownload => got[c] > running
          /\ at[c] \in InDownload \ {"fetching"} => temp = got[c]

\* Between the renames the path is empty; what was moved aside is what a
\* failure puts back, and is newer than what runs if a restart was asked for.
AsideInv ==
    \A c \in Callers :
        /\ at[c] \in {"aside", "clear"} => target = Nothing
        /\ at[c] = "clear" => broken
        /\ at[c] = "aside" => old >= running /\ (restartAsked => old > running \/ broken)

\* Nothing is said to be staged while a download is under way.
SaysInv == state.is = "staged" => downloading = NoCaller

UpdatesInv == UpdatesTypeOK /\ TurnInv /\ InHandInv /\ AsideInv /\ SaysInv /\ UpdatesAreWhole

LEMMA UpdatesStart == UpdatesInit => UpdatesInv
<1> SUFFICES ASSUME UpdatesInit
             PROVE  UpdatesInv
  OBVIOUS
<1>1. UpdatesTypeOK
  <2>1. state \in States /\ at \in [Callers -> At] /\ got \in [Callers -> 0 .. Releases]
    BY DEF UpdatesInit, States, Says, At, Nothing
  <2>2. /\ newest \in 1 .. Releases /\ found \in 0 .. Releases /\ running \in 1 .. Releases
        /\ target \in Files /\ old \in Files /\ temp \in Files
        /\ failures \in 0 .. Failures /\ starts \in 0 .. Starts
    BY DEF UpdatesInit, Files, Nothing
  <2> QED BY <2>1, <2>2 DEF UpdatesInit, UpdatesTypeOK, ImagesHeld
<1>2. TurnInv /\ InHandInv /\ AsideInv /\ SaysInv
  BY DEF UpdatesInit, TurnInv, InHandInv, AsideInv, SaysInv, InDownload, Nothing, Says
<1>3. UpdatesAreWhole
  BY DEF UpdatesInit, UpdatesAreWhole, InPlaceIsWhole, StagedIsInPlace, Nothing, Partial, Says
<1> QED BY <1>1, <1>2, <1>3 DEF UpdatesInv

\* What an action that leaves the files and the program alone must keep: a
\* check may not say that something is staged, and goes no further than to
\* wait for a download.
Elsewhere(c, where) ==
    /\ UNCHANGED <<newest, downloading, fileVars, processVars, broken>>
    /\ at[c] \notin InDownload
    /\ at' = [at EXCEPT ![c] = where] /\ where \in At \ InDownload /\ (~up => where = "idle")
    /\ got' \in [Callers -> 0 .. Releases] /\ \A d \in Callers \ {c} : got'[d] = got[d]
    /\ where = "looked" /\ got'[c] # Nothing => got'[c] > running
    /\ found' \in 0 .. Releases /\ (found' # Nothing => up /\ found' > running)
    /\ state' \in States /\ (state' = state \/ (up /\ state'.is # "staged"))
    /\ failures' \in 0 .. Failures

LEMMA ElsewhereKeeps ==
    ASSUME UpdatesInv, NEW c \in Callers, NEW where, Elsewhere(c, where)
    PROVE  UpdatesInv'
<1> USE DEF UpdatesInv, Elsewhere, fileVars, processVars
<1>1. /\ at \in [Callers -> At] /\ at' \in [Callers -> At]
      /\ at'[c] = where
      /\ \A d \in Callers : d # c => at'[d] = at[d]
      /\ \A d \in Callers : at'[d] \in InDownload <=> at[d] \in InDownload
  BY DEF UpdatesTypeOK
<1>2. UpdatesTypeOK'
  BY <1>1 DEF UpdatesTypeOK
<1>3. TurnInv'
  BY <1>1 DEF TurnInv
<1>4. InHandInv'
  BY <1>1 DEF InHandInv, InDownload
<1>5. AsideInv' /\ (BetweenRenames <=> BetweenRenames')
  BY <1>1 DEF AsideInv, InDownload, BetweenRenames
<1>6. SaysInv'
  BY DEF SaysInv
<1>7. UpdatesAreWhole'
  BY <1>5 DEF UpdatesAreWhole, InPlaceIsWhole, StagedIsInPlace
<1> QED BY <1>2, <1>3, <1>4, <1>5, <1>6, <1>7

LEMMA StatesSaid ==
    ASSUME NEW what \in {"checking", "available", "up to date", "downloading", "staged", "failed"},
           NEW n \in 0 .. Releases
    PROVE  /\ Says(what, n) \in States /\ Says(what, n).is = what /\ Says(what, n).of = n
  BY DEF Says, States

LEMMA CheckKeeps ==
    ASSUME UpdatesInv, NEW c \in Callers, Check(c)
    PROVE  UpdatesInv'
<1> SUFFICES \E where : Elsewhere(c, where)
  BY ElsewhereKeeps
<1> USE DEF UpdatesInv, UpdatesTypeOK, Elsewhere, offerVars, Goes, At, InDownload
<1>0. /\ up \/ at[c] = "idle"
      /\ found # Nothing => up /\ found > running
      /\ Nothing \in 0 .. Releases
  BY DEF TurnInv, InHandInv, Nothing
<1>1. CASE CheckPasses(c)
  <2>1. Elsewhere(c, "passed")
    BY <1>0, <1>1 DEF CheckPasses
  <2> QED BY <2>1
<1>2. CASE CheckBegins(c)
  <2>1. Elsewhere(c, "asking")
    BY <1>0, <1>2, StatesSaid DEF CheckBegins
  <2> QED BY <2>1
<1>3. CASE CheckFinds(c)
  <2>1. found' \in 0 .. Releases /\ (found' # Nothing => found' > running)
    BY <1>3 DEF CheckFinds, InHandInv
  <2>2. Elsewhere(c, "answered")
    BY <1>0, <1>3, <2>1 DEF CheckFinds
  <2> QED BY <2>2
<1>6. CASE CheckLooks(c)
  <2>1. /\ got' = [got EXCEPT ![c] = got'[c]] /\ got'[c] \in 0 .. Releases
        /\ got'[c] # Nothing => got'[c] > running
    BY <1>6 DEF CheckLooks, Nothing
  <2>2. got' \in [Callers -> 0 .. Releases] /\ \A d \in Callers \ {c} : got'[d] = got[d]
    BY <2>1
  <2>3. Elsewhere(c, "looked")
    BY <1>0, <1>6, <2>1, <2>2 DEF CheckLooks
  <2> QED BY <2>3
<1>4. CASE CheckEnds(c)
  <2>1. up /\ got' \in [Callers -> 0 .. Releases] /\ \A d \in Callers \ {c} : got'[d] = got[d]
    BY <1>0, <1>4 DEF CheckEnds
  <2> /\ at[c] = "answered" /\ UNCHANGED <<offerVars, downloading, fileVars, processVars>>
      /\ UNCHANGED <<broken, failures>>
    BY <1>4 DEF CheckEnds
  <2>2. CASE got[c] = Nothing
    <3>1. state' = Says("up to date", Nothing) /\ at' = [at EXCEPT ![c] = "idle"]
      BY <1>4, <2>2 DEF CheckEnds
    <3>2. state' \in States /\ state'.is # "staged"
      BY <1>0, <3>1, StatesSaid
    <3>3. Elsewhere(c, "idle")
      BY <1>0, <2>1, <3>1, <3>2
    <3> QED BY <3>3
  <2>3. CASE got[c] # Nothing
    <3>1. state' = Says("available", got[c]) /\ at' = [at EXCEPT ![c] = "queued"]
      BY <1>4, <2>3 DEF CheckEnds
    <3>2. got[c] \in 0 .. Releases /\ state' = Says("available", got[c])
      BY <3>1
    <3>3. state' \in States /\ state'.is # "staged"
      BY <3>2, StatesSaid
    <3>4. Elsewhere(c, "queued")
      BY <1>0, <2>1, <3>1, <3>3
    <3> QED BY <3>4
  <2> QED BY <2>2, <2>3
<1>5. CASE CheckFails(c)
  <2>1. failures' \in 0 .. Failures
    BY <1>5 DEF CheckFails, Fails
  <2>2. Elsewhere(c, "idle")
    BY <1>0, <1>5, <2>1, StatesSaid DEF CheckFails
  <2> QED BY <2>2
<1> QED BY <1>1, <1>2, <1>3, <1>4, <1>5, <1>6 DEF Check

LEMMA AskingKeeps ==
    ASSUME UpdatesInv, NEW c \in Callers,
           DownloadAsked(c) \/ (DownloadBegins(c) /\ found = Nothing)
    PROVE  UpdatesInv'
<1> SUFFICES \E where : Elsewhere(c, where)
  BY ElsewhereKeeps
<1> USE DEF UpdatesInv, UpdatesTypeOK, Elsewhere, offerVars, fileVars, Goes, At, InDownload
<1>0. /\ up \/ at[c] = "idle"
      /\ found # Nothing => up /\ found > running
      /\ Nothing \in 0 .. Releases
  BY DEF TurnInv, InHandInv, Nothing
<1>1. CASE DownloadAsked(c)
  <2>1. Elsewhere(c, "queued")
    BY <1>0, <1>1 DEF DownloadAsked
  <2> QED BY <2>1
<1>2. CASE DownloadBegins(c) /\ found = Nothing
  <2>1. state' = Says("failed", Nothing) /\ at' = [at EXCEPT ![c] = "idle"]
    BY <1>2 DEF DownloadBegins
  <2>2. state' \in States /\ state'.is # "staged"
    BY <1>0, <2>1, StatesSaid
  <2>3. Elsewhere(c, "idle")
    BY <1>0, <1>2, <2>1, <2>2 DEF DownloadBegins
  <2> QED BY <2>3
<1> QED BY <1>1, <1>2
-----------------------------------------------------------------------------
\* The one download there is goes on, or ends.
LEMMA OneDownload ==
    ASSUME UpdatesInv, NEW c \in Callers, NEW where \in At,
           at[c] \in InDownload \/ downloading = NoCaller,
           at[c] # "idle",
           at' = [at EXCEPT ![c] = where],
           downloading' = IF where \in InDownload THEN c ELSE NoCaller,
           UNCHANGED up
    PROVE  /\ \A d \in Callers \ {c} : at[d] \notin InDownload /\ at'[d] = at[d]
           /\ at'[c] = where /\ at' \in [Callers -> At] /\ up
           /\ downloading' \in Callers \cup {NoCaller}
           /\ BetweenRenames <=> at[c] = "aside"
           /\ BetweenRenames' <=> where = "aside"
           /\ TurnInv'
<1> USE DEF UpdatesInv, UpdatesTypeOK
<1>1. \A d \in Callers \ {c} : at[d] \notin InDownload
  BY DEF TurnInv
<1>2. up
  BY DEF TurnInv
<1>3. at'[c] = where /\ at' \in [Callers -> At] /\ \A d \in Callers \ {c} : at'[d] = at[d]
  OBVIOUS
<1>4. TurnInv'
  BY <1>1, <1>2, <1>3 DEF TurnInv
<1>5. BetweenRenames <=> at[c] = "aside"
  BY <1>1 DEF BetweenRenames, InDownload
<1>6. BetweenRenames' <=> where = "aside"
  BY <1>1, <1>3 DEF BetweenRenames, InDownload
<1>7. downloading' \in Callers \cup {NoCaller}
  OBVIOUS
<1> QED BY <1>1, <1>2, <1>3, <1>4, <1>5, <1>6, <1>7

LEMMA DownloadBeginsKeeps ==
    ASSUME UpdatesInv, NEW c \in Callers, DownloadBegins(c), found # Nothing
    PROVE  UpdatesInv'
<1> USE DEF UpdatesInv, UpdatesTypeOK
<1>1. /\ at[c] = "queued" /\ downloading = NoCaller
      /\ state' = Says("downloading", found)
      /\ got' = [got EXCEPT ![c] = found] /\ downloading' = c
      /\ temp' = Partial /\ at' = [at EXCEPT ![c] = "fetching"]
      /\ UNCHANGED <<newest, found, target, old, broken, failures>>
      /\ UNCHANGED <<held, running, up, restartAsked, starts>>
  BY DEF DownloadBegins, MayDownload, Goes, offerVars, processVars
<1>2. /\ \A d \in Callers \ {c} : at[d] \notin InDownload /\ at'[d] = at[d]
      /\ at'[c] = "fetching" /\ at' \in [Callers -> At] /\ up
      /\ downloading' \in Callers \cup {NoCaller}
      /\ BetweenRenames <=> FALSE
      /\ BetweenRenames' <=> FALSE
      /\ TurnInv'
  BY <1>1, OneDownload DEF InDownload, At
<1>3. state' \in States /\ state'.is = "downloading"
  BY <1>1, StatesSaid
<1>4. /\ got' \in [Callers -> 0 .. Releases] /\ got'[c] = found
      /\ \A d \in Callers \ {c} : got'[d] = got[d]
  BY <1>1
<1>5. UpdatesTypeOK'
  BY <1>1, <1>2, <1>3, <1>4 DEF Files, Partial
<1>6. InHandInv'
  BY <1>1, <1>2, <1>4 DEF InHandInv, InDownload
<1>7. AsideInv' /\ SaysInv'
  BY <1>1, <1>2, <1>3 DEF AsideInv, SaysInv, InDownload
<1>8. UpdatesAreWhole'
  BY <1>1, <1>2, <1>3 DEF UpdatesAreWhole, InPlaceIsWhole, StagedIsInPlace
<1> QED BY <1>2, <1>5, <1>6, <1>7, <1>8

LEMMA VerifiedKeeps ==
    ASSUME UpdatesInv, NEW c \in Callers, Verified(c)
    PROVE  UpdatesInv'
<1> USE DEF UpdatesInv, UpdatesTypeOK
<1>1. /\ at[c] = "fetching" /\ temp' = got[c] /\ at' = [at EXCEPT ![c] = "verified"]
      /\ UNCHANGED <<newest, found, state, got, downloading, target, old, broken, failures>>
      /\ UNCHANGED <<held, running, up, restartAsked, starts>>
  BY DEF Verified, Goes, offerVars, processVars
<1>2. downloading = c /\ got[c] > running
  BY <1>1 DEF TurnInv, InHandInv, InDownload
<1>3. /\ \A d \in Callers \ {c} : at[d] \notin InDownload /\ at'[d] = at[d]
      /\ at'[c] = "verified" /\ at' \in [Callers -> At] /\ up
      /\ BetweenRenames <=> FALSE
      /\ BetweenRenames' <=> FALSE
      /\ TurnInv'
  BY <1>1, <1>2, OneDownload DEF InDownload, At
<1>4. UpdatesTypeOK'
  BY <1>1, <1>2, <1>3 DEF Files
<1>5. InHandInv'
  BY <1>1, <1>2, <1>3 DEF InHandInv, InDownload
<1>6. AsideInv' /\ SaysInv'
  BY <1>1, <1>3 DEF AsideInv, SaysInv, InDownload
<1>7. UpdatesAreWhole'
  BY <1>1, <1>3 DEF UpdatesAreWhole, InPlaceIsWhole, StagedIsInPlace
<1> QED BY <1>3, <1>4, <1>5, <1>6, <1>7

\* A download that fails leaves what its action did with the path as it is.
LEMMA GivingUpKeeps ==
    ASSUME UpdatesInv, NEW c \in Callers, GivesUp(c), at[c] \in InDownload,
           UNCHANGED <<offerVars, processVars>>,
           target' \in Files \ {Partial}, old' \in Files \ {Partial}, broken' \in BOOLEAN,
           failures' \in 0 .. Failures,
           target' # Nothing => target' >= running,
           target' = Nothing => broken',
           restartAsked => target' > running \/ broken'
    PROVE  UpdatesInv'
<1> USE DEF UpdatesInv, UpdatesTypeOK
<1>1. /\ temp' = Nothing /\ state' = Says("failed", Nothing) /\ at' = [at EXCEPT ![c] = "idle"]
      /\ got' = [got EXCEPT ![c] = Nothing] /\ downloading' = NoCaller
      /\ UNCHANGED <<newest, found, held, running, up, restartAsked, starts>>
  BY DEF GivesUp, Goes, offerVars, processVars
<1>2. /\ \A d \in Callers \ {c} : at[d] \notin InDownload /\ at'[d] = at[d]
      /\ at'[c] = "idle" /\ at' \in [Callers -> At] /\ up
      /\ BetweenRenames' <=> FALSE
      /\ downloading' \in Callers \cup {NoCaller}
      /\ TurnInv'
  BY <1>1, OneDownload DEF InDownload, At
<1>3. Nothing \in 0 .. Releases /\ Nothing \in Files
  BY DEF Nothing, Files
<1>4. state' \in States /\ state'.is = "failed"
  BY <1>1, <1>3, StatesSaid
<1>5. /\ got' \in [Callers -> 0 .. Releases]
      /\ \A d \in Callers \ {c} : got'[d] = got[d]
  BY <1>1, <1>3
<1>6. UpdatesTypeOK'
  BY <1>1, <1>2, <1>3, <1>4, <1>5
<1>7. InHandInv'
  BY <1>1, <1>2, <1>5 DEF InHandInv, InDownload
<1>8. AsideInv' /\ SaysInv'
  BY <1>1, <1>2, <1>4 DEF AsideInv, SaysInv, InDownload
<1>9. UpdatesAreWhole'
  BY <1>1, <1>2, <1>4 DEF UpdatesAreWhole, InPlaceIsWhole, StagedIsInPlace
<1> QED BY <1>2, <1>6, <1>7, <1>8, <1>9
\* The path, as it is while a download is under way.
LEMMA PathInDownload ==
    ASSUME UpdatesInv, NEW c \in Callers, at[c] \in InDownload
    PROVE  /\ \A d \in Callers : at[d] = "aside" => d = c
           /\ target \in Files \ {Partial} /\ old \in Files \ {Partial}
           /\ target # Nothing => target >= running
           /\ at[c] # "aside" => /\ target = Nothing => broken
                                 /\ restartAsked => target > running \/ broken
           /\ at[c] = "aside" => /\ old >= running /\ target = Nothing
                                 /\ restartAsked => old > running \/ broken
<1> USE DEF UpdatesInv, UpdatesTypeOK
<1>1. \A d \in Callers : at[d] = "aside" => d = c
  BY DEF TurnInv, InDownload
<1>2. BetweenRenames => at[c] = "aside"
  BY <1>1 DEF BetweenRenames
<1> QED BY <1>1, <1>2 DEF UpdatesAreWhole, InPlaceIsWhole, StagedIsInPlace, AsideInv

LEMMA FailingKeeps ==
    ASSUME UpdatesInv, NEW c \in Callers,
           FetchFails(c) \/ CannotMoveAside(c) \/ CannotMoveIn(c)
    PROVE  UpdatesInv'
<1> USE DEF UpdatesInv, UpdatesTypeOK
<1>1. /\ at[c] \in InDownload /\ GivesUp(c)
      /\ UNCHANGED <<offerVars, processVars>>
  BY DEF FetchFails, CannotMoveAside, CannotMoveIn, InDownload
<1>2. /\ target \in Files \ {Partial} /\ old \in Files \ {Partial}
      /\ target # Nothing => target >= running
      /\ at[c] # "aside" => /\ target = Nothing => broken
                            /\ restartAsked => target > running \/ broken
      /\ at[c] = "aside" => /\ old >= running /\ target = Nothing
                            /\ restartAsked => old > running \/ broken
  BY <1>1, PathInDownload
<1>3. failures' \in 0 .. Failures
  BY DEF FetchFails, CannotMoveAside, CannotMoveIn, Fails
<1>4. Nothing \in Files \ {Partial}
  BY DEF Nothing, Partial, Files
<1>5. CASE FetchFails(c)
  <2>1. at[c] # "aside" /\ UNCHANGED <<target, old, broken>>
    BY <1>5 DEF FetchFails
  <2> QED BY <1>1, <1>2, <1>3, <2>1, GivingUpKeeps
<1>6. CASE CannotMoveAside(c)
  <2>1. at[c] # "aside" /\ UNCHANGED <<target, broken>> /\ old' \in {old, Nothing}
    BY <1>6 DEF CannotMoveAside, OldAfterRemoval
  <2> QED BY <1>1, <1>2, <1>3, <1>4, <2>1, GivingUpKeeps
<1>7. CASE CannotMoveIn(c)
  <2>1. CASE at[c] = "clear" /\ UNCHANGED <<target, old, broken>>
    <3> QED BY <1>1, <1>2, <1>3, <2>1, GivingUpKeeps
  <2>2. CASE at[c] = "aside" /\ target' = old /\ old' = Nothing /\ UNCHANGED broken
    <3>1. target' # Nothing
      BY <1>2, <2>2 DEF Nothing
    <3> QED BY <1>1, <1>2, <1>3, <1>4, <2>2, <3>1, GivingUpKeeps
  <2>3. CASE at[c] = "aside" /\ broken' = TRUE /\ UNCHANGED <<target, old>>
    <3> QED BY <1>1, <1>2, <1>3, <2>3, GivingUpKeeps
  <2> QED BY <1>7, <2>1, <2>2, <2>3 DEF CannotMoveIn
<1> QED BY <1>5, <1>6, <1>7

LEMMA MovesAsideKeeps ==
    ASSUME UpdatesInv, NEW c \in Callers, MovesAside(c)
    PROVE  UpdatesInv'
<1> USE DEF UpdatesInv, UpdatesTypeOK
<1>1. /\ at[c] = "verified"
      /\ UNCHANGED <<newest, found, state, got, downloading, temp, broken, failures>>
      /\ UNCHANGED <<held, running, up, restartAsked, starts>>
  BY DEF MovesAside, offerVars, processVars
<1>2. /\ \A d \in Callers : at[d] = "aside" => d = c
      /\ target \in Files \ {Partial} /\ old \in Files \ {Partial}
      /\ target # Nothing => target >= running
      /\ target = Nothing => broken
      /\ restartAsked => target > running \/ broken
  BY <1>1, PathInDownload DEF InDownload
<1>3. downloading = c /\ got[c] > running /\ temp = got[c] /\ state.is # "staged"
  BY <1>1 DEF TurnInv, InHandInv, InDownload, SaysInv
<1>4. Nothing \in Files \ {Partial}
  BY DEF Nothing, Partial, Files
<1>5. PICK where \in {"clear", "aside"} :
        /\ at' = [at EXCEPT ![c] = where]
        /\ where = "clear" => target = Nothing /\ target' = target /\ old' \in {old, Nothing}
        /\ where = "aside" => target # Nothing /\ target' = Nothing /\ old' = target
  BY DEF MovesAside, Goes, OldAfterRemoval
<1>6. /\ \A d \in Callers \ {c} : at[d] \notin InDownload /\ at'[d] = at[d]
      /\ at'[c] = where /\ at' \in [Callers -> At] /\ up
      /\ BetweenRenames' <=> where = "aside"
      /\ TurnInv'
  BY <1>1, <1>3, <1>5, OneDownload DEF InDownload, At
<1>7. UpdatesTypeOK'
  <2>1. target' \in Files /\ old' \in Files
    BY <1>2, <1>4, <1>5
  <2> QED BY <1>1, <1>6, <2>1
<1>8. InHandInv' /\ SaysInv'
  BY <1>1, <1>3, <1>6 DEF InHandInv, InDownload, SaysInv
<1>9. AsideInv'
  BY <1>1, <1>2, <1>5, <1>6 DEF AsideInv, InDownload
<1>10. UpdatesAreWhole'
  <2>1. target' = Nothing /\ target' # Partial /\ old' # Partial
    BY <1>2, <1>4, <1>5
  <2>2. broken' \/ BetweenRenames'
    BY <1>1, <1>2, <1>5, <1>6
  <2> QED BY <1>1, <1>3, <2>1, <2>2 DEF UpdatesAreWhole, InPlaceIsWhole, StagedIsInPlace
<1> QED BY <1>6, <1>7, <1>8, <1>9, <1>10

LEMMA MovesInKeeps ==
    ASSUME UpdatesInv, NEW c \in Callers, MovesIn(c)
    PROVE  UpdatesInv'
<1> USE DEF UpdatesInv, UpdatesTypeOK
<1>1. /\ at[c] \in {"aside", "clear"}
      /\ target' = temp /\ temp' = Nothing /\ state' = Says("staged", got[c])
      /\ at' = [at EXCEPT ![c] = "idle"] /\ got' = [got EXCEPT ![c] = Nothing]
      /\ downloading' = NoCaller /\ broken' = FALSE
      /\ UNCHANGED <<newest, found, old, failures>>
      /\ UNCHANGED <<held, running, up, restartAsked, starts>>
  BY DEF MovesIn, Goes, offerVars, processVars
<1>2. got[c] > running /\ temp = got[c] /\ got[c] \in 0 .. Releases
  BY <1>1 DEF InHandInv, InDownload
<1>3. /\ \A d \in Callers \ {c} : at[d] \notin InDownload /\ at'[d] = at[d]
      /\ at'[c] = "idle" /\ at' \in [Callers -> At] /\ up
      /\ downloading' \in Callers \cup {NoCaller}
      /\ BetweenRenames' <=> FALSE
      /\ TurnInv'
  BY <1>1, OneDownload DEF InDownload, At
<1>4. Nothing \in 0 .. Releases /\ Nothing \in Files
  BY DEF Nothing, Files
<1>5. state' \in States /\ state'.of = got[c]
  BY <1>1, <1>2, StatesSaid
<1>6. /\ got' \in [Callers -> 0 .. Releases]
      /\ \A d \in Callers \ {c} : got'[d] = got[d]
  BY <1>1, <1>4
<1>7. target' > running /\ target' # Nothing /\ target' # Partial
  BY <1>1, <1>2 DEF Nothing, Partial
<1>8. UpdatesTypeOK'
  BY <1>1, <1>3, <1>4, <1>5, <1>6
<1>9. InHandInv'
  BY <1>1, <1>3, <1>6 DEF InHandInv, InDownload
<1>10. AsideInv' /\ SaysInv'
  BY <1>1, <1>3 DEF AsideInv, SaysInv, InDownload
<1>11. UpdatesAreWhole'
  BY <1>1, <1>2, <1>3, <1>5, <1>7 DEF UpdatesAreWhole, InPlaceIsWhole, StagedIsInPlace
<1> QED BY <1>3, <1>8, <1>9, <1>10, <1>11
LEMMA ProgramKeeps ==
    ASSUME UpdatesInv, Publish \/ AskRestart \/ Exit \/ Start
    PROVE  UpdatesInv'
<1> USE DEF UpdatesInv, UpdatesTypeOK
<1>1. CASE Publish
  <2>1. /\ newest' \in 1 .. Releases
        /\ UNCHANGED <<found, state, at, got, downloading, target, old, temp, broken, failures>>
        /\ UNCHANGED <<held, running, up, restartAsked, starts>>
    BY <1>1 DEF Publish, callVars, fileVars, processVars
  <2> QED BY <2>1 DEF TurnInv, InHandInv, AsideInv, SaysInv, UpdatesAreWhole, InPlaceIsWhole,
                      StagedIsInPlace, BetweenRenames
<1>2. CASE AskRestart
  <2>1. /\ state.is = "staged" /\ restartAsked' = TRUE
        /\ UNCHANGED <<newest, found, state, at, got, downloading, target, old, temp, broken>>
        /\ UNCHANGED <<failures, held, running, up, starts>>
    BY <1>2 DEF AskRestart, offerVars, callVars, fileVars
  <2>2. target > running /\ downloading = NoCaller
    BY <2>1 DEF UpdatesAreWhole, StagedIsInPlace, SaysInv
  <2>3. \A c \in Callers : at[c] \notin InDownload
    BY <2>2 DEF TurnInv
  <2> QED BY <2>1, <2>2, <2>3 DEF TurnInv, InHandInv, AsideInv, SaysInv, UpdatesAreWhole,
                                  InPlaceIsWhole, StagedIsInPlace, BetweenRenames, InDownload
<1>3. CASE Exit
  <2>1. /\ up' = FALSE /\ state' = Says("unknown", Nothing) /\ found' = Nothing
        /\ at' = [c \in Callers |-> "idle"] /\ got' = [c \in Callers |-> Nothing]
        /\ downloading' = NoCaller /\ broken' = (broken \/ BetweenRenames)
        /\ UNCHANGED <<newest, target, old, temp, failures, held, running, restartAsked, starts>>
    BY <1>3 DEF Exit, fileVars
  <2>2. Nothing \in 0 .. Releases
    BY DEF Nothing
  <2>3. state' \in States /\ state'.is = "unknown"
    BY <2>1, <2>2 DEF Says, States
  <2>4. BetweenRenames \in BOOLEAN /\ ~BetweenRenames'
    BY <2>1 DEF BetweenRenames
  <2>5. UpdatesTypeOK'
    BY <2>1, <2>2, <2>3, <2>4 DEF At
  <2>6. TurnInv' /\ InHandInv' /\ AsideInv' /\ SaysInv'
    BY <2>1, <2>3 DEF TurnInv, InHandInv, AsideInv, SaysInv, InDownload
  <2>7. UpdatesAreWhole'
    BY <2>1, <2>3, <2>4 DEF UpdatesAreWhole, InPlaceIsWhole, StagedIsInPlace
  <2> QED BY <2>5, <2>6, <2>7
<1>4. CASE Start
  <2>1. /\ ~up /\ up' = TRUE /\ target # Nothing /\ running' = target /\ restartAsked' = FALSE
        /\ starts' = starts + 1 /\ starts < Starts
        /\ old' \in {old, Nothing} /\ failures' \in 0 .. Failures
        /\ UNCHANGED <<newest, found, state, at, got, downloading, target, temp, held, broken>>
    BY <1>4 DEF Start, Fails, offerVars, callVars
  <2>2. /\ found = Nothing /\ state.is = "unknown" /\ \A c \in Callers : at[c] \notin InDownload
    BY <2>1 DEF TurnInv, InDownload
  <2>3. running' \in 1 .. Releases /\ old' \in Files \ {Partial}
    BY <2>1 DEF UpdatesAreWhole, InPlaceIsWhole, Files, Nothing, Partial
  <2>4. starts' \in 0 .. Starts
    BY <2>1
  <2>5. UpdatesTypeOK'
    BY <2>1, <2>3, <2>4
  <2>6. TurnInv' /\ InHandInv' /\ AsideInv' /\ SaysInv'
    BY <2>1, <2>2 DEF TurnInv, InHandInv, AsideInv, SaysInv, InDownload
  <2>7. UpdatesAreWhole'
    BY <2>1, <2>2, <2>3 DEF UpdatesAreWhole, InPlaceIsWhole, StagedIsInPlace
  <2> QED BY <2>5, <2>6, <2>7
<1> QED BY <1>1, <1>2, <1>3, <1>4

LEMMA UpdatesStep == UpdatesInv /\ [UpdatesNext]_updateVars => UpdatesInv'
<1> SUFFICES ASSUME UpdatesInv, [UpdatesNext]_updateVars
             PROVE  UpdatesInv'
  OBVIOUS
<1>1. CASE Publish \/ AskRestart \/ Exit \/ Start
  BY <1>1, ProgramKeeps
<1>2. ASSUME NEW c \in Callers, Check(c)
      PROVE  UpdatesInv'
  BY <1>2, CheckKeeps
<1>3. ASSUME NEW c \in Callers, Download(c)
      PROVE  UpdatesInv'
  BY <1>3, AskingKeeps, DownloadBeginsKeeps, VerifiedKeeps, FailingKeeps, MovesAsideKeeps,
     MovesInKeeps DEF Download, Stage
<1>4. CASE UNCHANGED updateVars
  BY <1>4 DEF updateVars, offerVars, callVars, fileVars, processVars, UpdatesInv, UpdatesTypeOK,
              TurnInv, InHandInv, AsideInv, SaysInv, UpdatesAreWhole, InPlaceIsWhole,
              StagedIsInPlace, BetweenRenames
<1> QED BY <1>1, <1>2, <1>3, <1>4 DEF UpdatesNext

\* However many callers check and download while the program exits and starts
\* again, there is a whole binary at the path, never older than the one that
\* ran, but between the renames and where the code cannot undo one; what is
\* said to be staged is there, and a restart finds it (update/stage.rs, stage;
\* update/mod.rs, Restart).
THEOREM UpdatesWhole == UpdatesSpec => []UpdatesAreWhole
<1>1. UpdatesInv => UpdatesAreWhole
  BY DEF UpdatesInv
<1> QED BY UpdatesStart, UpdatesStep, <1>1, PTL DEF UpdatesSpec
-----------------------------------------------------------------------------
(* The table of interfaces.                                                *)

HIDE UpdatesAssumption
USE ManagerAssumption

USE DEF Workers, InTable

WorkerPlaces == {"serving", "gone", "removed", "forgot", "ended"}
RequestPlaces == {"new", "holding", "sent", "answered", "gone"}

\* Each worker has an interface, a channel and a count of what was said of it.
TableTypes ==
    /\ thread \in Seq(WorkerPlaces)
    /\ deviceOf \in Seq(Devices) /\ Len(deviceOf) = Len(thread)
    /\ box \in Seq(Seq(Requests \cup {"shutdown"})) /\ Len(box) = Len(thread)
    /\ said \in Seq(Nat) /\ Len(said) = Len(thread)
    /\ entries \in [Devices -> 0 .. Len(thread)] /\ memory \in [Devices -> 0 .. Len(thread)]
    /\ leaving \in 0 .. Len(thread)
    /\ holds \in [Requests -> 0 .. Len(thread)] /\ req \in [Requests -> RequestPlaces]
    /\ \A r \in Requests : req[r] = "holding" => holds[r] # 0

\* One in the table is there to serve its own interface, and the scanner knows
\* of it; one that is waited for has left the table, and nothing is attached
\* meanwhile.
EntryInv ==
    /\ \A d \in Devices :
          entries[d] # 0 => /\ deviceOf[entries[d]] = d
                            /\ thread[entries[d]] \in {"serving", "gone"} /\ d \in attached
    /\ leaving # 0 => /\ entries[deviceOf[leaving]] = 0
                      /\ thread[leaving] \in {"serving", "gone", "ended"}
                      /\ scanner \in {"listed", "stopped"}
    /\ main \in {"closing", "off"} => scanner = "stopped"

\* A worker is in the table or waited for until it has looked for its entry;
\* only one that is waited for was asked to stop.
ServingInv ==
    \A w \in Workers :
        /\ thread[w] \in {"serving", "gone"} => w \in {entries[deviceOf[w]], leaving}
        /\ thread[w] # "serving" => box[w] = <<>>
        /\ w # leaving => box[w] \in Seq(Requests)

\* Two things are said of a worker once it has ended and nobody waits for it,
\* and one before.
SaidInv ==
    \A w \in Workers : said[w] = IF thread[w] = "ended" /\ w # leaving THEN 2 ELSE 1

MemoryInv == \A d \in Devices : memory[d] # 0 => deviceOf[memory[d]] = d

TableInv ==
    TableTypes /\ EntryInv /\ ServingInv /\ SaidInv /\ MemoryInv /\ NothingOfThePast

LEMMA TableStart == ManagerInit => TableInv
<1> SUFFICES ASSUME ManagerInit
             PROVE  TableInv
  OBVIOUS
<1>1. /\ thread = <<>> /\ deviceOf = <<>> /\ box = <<>> /\ said = <<>> /\ leaving = 0
      /\ entries = [d \in Devices |-> 0] /\ memory = [d \in Devices |-> 0]
      /\ holds = [r \in Requests |-> 0] /\ req = [r \in Requests |-> "new"]
      /\ main = "running"
  BY DEF ManagerInit
<1>2. TableTypes
  BY <1>1 DEF TableTypes, RequestPlaces
<1> QED BY <1>1, <1>2 DEF TableInv, EntryInv, ServingInv, SaidInv, MemoryInv, NothingOfThePast

LEMMA WorkerTypes ==
    ASSUME TableTypes
    PROVE  /\ Workers = 1 .. Len(thread) /\ Len(thread) \in Nat
           /\ \A v \in 1 .. Len(thread) :
                 /\ deviceOf[v] \in Devices /\ said[v] \in Nat
                 /\ thread[v] \in WorkerPlaces
                 /\ box[v] \in Seq(Requests \cup {"shutdown"})
  BY SMTT(30), ElementOfSeq DEF TableTypes

\* Steps that leave the table and its workers as they are.
LEMMA AroundTheTable ==
    ASSUME TableInv,
           UNCHANGED <<thread, deviceOf, box, said, entries, memory, leaving>>,
           holds' \in [Requests -> 0 .. Len(thread)], req' \in [Requests -> RequestPlaces],
           \A r \in Requests : req'[r] = "holding" => holds'[r] # 0,
           \A d \in Devices : entries[d] # 0 => d \in attached',
           leaving # 0 => scanner' \in {"listed", "stopped"},
           main' \in {"closing", "off"} => scanner' = "stopped"
    PROVE  TableInv'
<1> USE DEF TableInv
<1>1. TableTypes'
  BY DEF TableTypes
<1>2. EntryInv'
  BY DEF EntryInv
<1>3. ServingInv' /\ SaidInv' /\ MemoryInv' /\ NothingOfThePast'
  BY DEF ServingInv, SaidInv, MemoryInv, NothingOfThePast
<1> QED BY <1>1, <1>2, <1>3

LEMMA AroundKeeps ==
    ASSUME TableInv,
           \/ \E d \in Devices : Plug(d) \/ \E out \in BOOLEAN : Disturb(d, out)
           \/ List \/ ListFails \/ DetachesDone \/ ScanEnds
           \/ \E d \in Devices : OpenFails(d)
           \/ \E r \in Requests, d \in Devices : LookUp(r, d)
           \/ Quit \/ ScannerStopped \/ ShutDown \/ Off
    PROVE  TableInv'
<1> USE DEF TableInv, TableTypes, EntryInv, tableVars, eventVars, workerVars, scanVars,
            clientVars, busVars
<1>1. CASE \E d \in Devices : Plug(d) \/ \E out \in BOOLEAN : Disturb(d, out)
  BY <1>1, AroundTheTable DEF Plug, Disturb
<1>2. CASE List
  BY <1>2, AroundTheTable DEF List, StillThere
<1>3. CASE ListFails \/ DetachesDone \/ ScanEnds \/ \E d \in Devices : OpenFails(d)
  BY <1>3, AroundTheTable DEF ListFails, DetachesDone, ScanEnds, OpenFails
<1>4. ASSUME NEW r \in Requests, NEW d \in Devices, LookUp(r, d)
      PROVE  TableInv'
  <2>1. /\ holds' \in [Requests -> 0 .. Len(thread)] /\ req' \in [Requests -> RequestPlaces]
        /\ \A q \in Requests : req'[q] = "holding" => holds'[q] # 0
    BY <1>4 DEF LookUp, RequestPlaces
  <2> QED BY <1>4, <2>1, AroundTheTable DEF LookUp
<1>5. CASE Quit \/ ScannerStopped \/ ShutDown
  BY <1>5, AroundTheTable DEF Quit, ScannerStopped, ShutDown
<1>6. CASE Off
  BY <1>6, AroundTheTable DEF Off, managerVars
<1> QED BY <1>1, <1>2, <1>3, <1>4, <1>5, <1>6


LEMMA DetachKeeps ==
    ASSUME TableInv, NEW d \in Devices, DetachUnlisted(d) \/ DetachOne(d)
    PROVE  TableInv'
<1> USE DEF TableInv
<1>1. /\ leaving = 0 /\ UNCHANGED <<thread, deviceOf, said, memory, holds, req, scanner, main>>
      /\ scanner \in {"listed", "stopped"} /\ attached' \in {attached, attached \ {d}}
      /\ DetachBegins(d)
  BY DEF DetachUnlisted, DetachOne, DetachBegins, EntryInv, eventVars, clientVars
<1>2. CASE entries[d] = 0
  <2>1. UNCHANGED <<entries, box, leaving>> /\ \A e \in Devices : entries[e] # 0 => e \in attached'
    BY <1>1, <1>2 DEF DetachBegins, EntryInv
  <2> QED BY <1>1, <2>1, AroundTheTable DEF TableTypes, EntryInv
<1>3. CASE entries[d] # 0
  <2> DEFINE w == entries[d]
             Boxes == Seq(Requests \cup {"shutdown"})
  <2>1. /\ w \in 1 .. Len(thread) /\ deviceOf[w] = d /\ thread[w] \in {"serving", "gone"}
        /\ leaving' = w /\ entries' = [entries EXCEPT ![d] = 0]
    BY SMTT(30), <1>1, <1>3 DEF DetachBegins, TableTypes, EntryInv
  <2>2. /\ box' \in Seq(Boxes) /\ Len(box') = Len(box)
        /\ \A v \in 1 .. Len(box) : v # w => box'[v] = box[v]
        /\ thread[w] # "serving" => box' = box
    <3>1. CASE thread[w] = "serving"
      <4>1. box \in Seq(Boxes) /\ w \in 1 .. Len(box) /\ box[w] \in Boxes
        BY <2>1 DEF TableTypes
      <4>2. Append(box[w], "shutdown") \in Boxes
        BY <4>1
      <4>3. box' = [box EXCEPT ![w] = Append(box[w], "shutdown")]
        BY <1>1, <1>3, <3>1 DEF DetachBegins
      <4> QED BY <3>1, <4>1, <4>2, <4>3, ExceptSeq
    <3>2. CASE thread[w] # "serving"
      <4>1. box' = box
        BY <1>1, <1>3, <3>2 DEF DetachBegins
      <4> QED BY <4>1 DEF TableTypes
    <3> QED BY <3>1, <3>2
  <2>3. TableTypes'
    BY <1>1, <2>1, <2>2 DEF TableTypes
  <2>4. EntryInv'
    BY <1>1, <2>1 DEF EntryInv, TableTypes
  <2>5. ServingInv'
    <3>1. ASSUME NEW v \in 1 .. Len(thread)
          PROVE  /\ thread[v] \in {"serving", "gone"} => v \in {entries'[deviceOf[v]], w}
                 /\ thread[v] # "serving" => box'[v] = <<>>
                 /\ v # w => box'[v] \in Seq(Requests)
      <4>1. deviceOf[v] \in Devices /\ v \in Workers /\ v # 0 /\ v \in 1 .. Len(box)
        BY SMTT(30), WorkerTypes DEF TableTypes
      <4>2. CASE v = w
        BY <2>1, <2>2, <4>1, <4>2 DEF ServingInv
      <4>3. CASE v # w
        <5>1. thread[v] \in {"serving", "gone"} => v = entries[deviceOf[v]] /\ deviceOf[v] # d
          BY <1>1, <4>1, <4>3 DEF ServingInv
        <5>2. thread[v] \in {"serving", "gone"} => v = entries'[deviceOf[v]]
          BY <2>1, <4>1, <5>1 DEF TableTypes
        <5> QED BY <1>1, <2>2, <4>1, <4>3, <5>2 DEF ServingInv
      <4> QED BY <4>2, <4>3
    <3> QED BY <1>1, <2>1, <3>1, WorkerTypes DEF ServingInv
  <2>6. SaidInv' /\ MemoryInv'
    BY <1>1, <2>1, WorkerTypes DEF SaidInv, MemoryInv
  <2>7. NothingOfThePast'
    BY <1>1, <2>1 DEF NothingOfThePast, TableTypes
  <2> QED BY <2>3, <2>4, <2>5, <2>6, <2>7
<1> QED BY <1>2, <1>3

LEMMA DetachEndKeeps ==
    ASSUME TableInv, DetachEnds
    PROVE  TableInv'
<1> USE DEF TableInv
<1>1. /\ leaving # 0 /\ thread[leaving] = "ended" /\ leaving' = 0
      /\ memory' = [memory EXCEPT ![deviceOf[leaving]] = 0]
      /\ said' = [said EXCEPT ![leaving] = said[leaving] + 1]
      /\ UNCHANGED <<thread, deviceOf, box, entries, holds, req, attached, scanner, main>>
  BY DEF DetachEnds, Joined, workerVars, scanVars, clientVars
<1>2. /\ leaving \in 1 .. Len(thread) /\ deviceOf[leaving] \in Devices
      /\ said[leaving] = 1 /\ box[leaving] = <<>>
  <2>1. leaving \in 1 .. Len(thread)
    BY <1>1 DEF TableTypes
  <2>2. deviceOf[leaving] \in Devices /\ leaving \in Workers
    BY <2>1, WorkerTypes
  <2> QED BY <1>1, <2>1, <2>2 DEF SaidInv, ServingInv
<1>3. /\ said' \in Seq(Nat) /\ Len(said') = Len(said) /\ said'[leaving] = 2
      /\ \A v \in 1 .. Len(said) : v # leaving => said'[v] = said[v]
  <2>1. said \in Seq(Nat) /\ leaving \in 1 .. Len(said) /\ said[leaving] + 1 \in Nat
    BY <1>2 DEF TableTypes
  <2> QED BY <1>1, <1>2, <2>1, ExceptSeq
<1>4. /\ memory' \in [Devices -> 0 .. Len(thread)] /\ memory'[deviceOf[leaving]] = 0
      /\ \A e \in Devices : e # deviceOf[leaving] => memory'[e] = memory[e]
  <2>1. memory \in [Devices -> 0 .. Len(thread)] /\ 0 \in 0 .. Len(thread)
    BY WorkerTypes DEF TableTypes
  <2> QED BY <1>1, <1>2, <2>1
<1>5. TableTypes'
  <2>1. 0 \in 0 .. Len(thread) /\ Len(said') = Len(thread)
    BY <1>3, WorkerTypes DEF TableTypes
  <2> QED BY <1>1, <1>3, <1>4, <2>1 DEF TableTypes
<1>6. EntryInv'
  BY <1>1 DEF EntryInv
<1>7. ServingInv'
  <2>1. <<>> \in Seq(Requests)
    OBVIOUS
  <2> QED BY <1>1, <1>2, <2>1 DEF ServingInv, TableTypes
<1>8. SaidInv' /\ MemoryInv'
  <2>1. SaidInv'
    <3>1. ASSUME NEW v \in 1 .. Len(thread)
          PROVE  said'[v] = IF thread[v] = "ended" /\ v # 0 THEN 2 ELSE 1
      <4>1. v \in Workers /\ v \in 1 .. Len(said) /\ v # 0
        BY WorkerTypes DEF TableTypes
      <4> QED BY <1>1, <1>3, <4>1 DEF SaidInv
    <3> QED BY <1>1, <3>1, WorkerTypes DEF SaidInv
  <2>2. MemoryInv'
    BY <1>1, <1>4 DEF MemoryInv
  <2> QED BY <2>1, <2>2
<1>9. NothingOfThePast'
  BY <1>1, <1>4 DEF NothingOfThePast, TableTypes, MemoryInv
<1> QED BY <1>5, <1>6, <1>7, <1>8, <1>9

\* A worker is only attached where none is in the table, and none waited for.
LEMMA OpenKeeps ==
    ASSUME TableInv, NEW d \in Devices, Open(d)
    PROVE  TableInv'
<1> USE DEF TableInv
<1> DEFINE w == Len(thread) + 1
<1>1. /\ scanner = "opening" /\ d \notin attached
      /\ entries' = [entries EXCEPT ![d] = w]
      /\ deviceOf' = Append(deviceOf, d) /\ thread' = Append(thread, "serving")
      /\ box' = Append(box, <<>>) /\ said' = Append(said, 1)
      /\ attached' = attached \cup {d}
      /\ UNCHANGED <<memory, scanner, leaving, main, holds, req>>
  BY DEF Open, Attach, ToOpen, clientVars
<1>2. leaving = 0 /\ entries[d] = 0 /\ Len(thread) \in Nat
  BY <1>1 DEF EntryInv, TableTypes
<1>3. /\ thread' \in Seq(WorkerPlaces) /\ Len(thread') = w
      /\ thread'[w] = "serving" /\ \A v \in 1 .. Len(thread) : thread'[v] = thread[v]
  <2>1. /\ thread \in Seq(WorkerPlaces)
        /\ "serving" \in WorkerPlaces
    BY DEF TableTypes, WorkerPlaces
  <2> QED BY <1>1, <2>1, AppendProperties
<1>4. /\ deviceOf' \in Seq(Devices) /\ Len(deviceOf') = w
      /\ deviceOf'[w] = d /\ \A v \in 1 .. Len(thread) : deviceOf'[v] = deviceOf[v]
  <2>1. deviceOf \in Seq(Devices) /\ Len(deviceOf) = Len(thread)
    BY DEF TableTypes
  <2> QED BY <1>1, <2>1, AppendProperties
<1>5. /\ box' \in Seq(Seq(Requests \cup {"shutdown"})) /\ Len(box') = w
      /\ box'[w] = <<>> /\ \A v \in 1 .. Len(thread) : box'[v] = box[v]
  <2>1. /\ box \in Seq(Seq(Requests \cup {"shutdown"})) /\ Len(box) = Len(thread)
        /\ <<>> \in Seq(Requests \cup {"shutdown"})
    BY DEF TableTypes
  <2> QED BY <1>1, <2>1, AppendProperties
<1>6. /\ said' \in Seq(Nat) /\ Len(said') = w
      /\ said'[w] = 1 /\ \A v \in 1 .. Len(thread) : said'[v] = said[v]
  <2>1. said \in Seq(Nat) /\ Len(said) = Len(thread) /\ 1 \in Nat
    BY DEF TableTypes
  <2> QED BY <1>1, <2>1, AppendProperties
<1> HIDE DEF w
<1>7. /\ w \in Nat \ {0} /\ Len(thread) = w - 1
      /\ \A v \in 0 .. w : v = w \/ v \in 0 .. Len(thread)
      /\ \A v \in 1 .. w : v = w \/ v \in 1 .. Len(thread)
      /\ \A v \in 0 .. Len(thread) : v \in 0 .. w /\ v # w
      /\ w \in 1 .. w /\ w \in 0 .. w
  BY <1>2 DEF w
<1>8. /\ entries'[d] = w /\ \A e \in Devices : e # d => entries'[e] = entries[e]
      /\ entries' \in [Devices -> 0 .. w] /\ memory \in [Devices -> 0 .. w]
      /\ holds \in [Requests -> 0 .. w]
  BY <1>1, <1>7 DEF TableTypes
<1>9. TableTypes'
  BY <1>1, <1>2, <1>3, <1>4, <1>5, <1>6, <1>7, <1>8 DEF TableTypes
<1>10. EntryInv'
  <2>1. ASSUME NEW e \in Devices, entries'[e] # 0
        PROVE  deviceOf'[entries'[e]] = e /\ thread'[entries'[e]] \in {"serving", "gone"}
               /\ e \in attached'
    <3>1. CASE e = d
      BY <1>1, <1>3, <1>4, <1>8, <3>1
    <3>2. CASE e # d
      <4>1. entries'[e] = entries[e] /\ entries[e] \in 1 .. Len(thread)
        BY <1>8, <2>1, <3>2 DEF TableTypes
      <4> QED BY <1>1, <1>3, <1>4, <2>1, <4>1 DEF EntryInv
    <3> QED BY <3>1, <3>2
  <2> QED BY <1>1, <1>2, <2>1 DEF EntryInv
<1>11. ServingInv'
  <2>1. ASSUME NEW v \in 1 .. w
        PROVE  /\ thread'[v] \in {"serving", "gone"} => v \in {entries'[deviceOf'[v]], leaving'}
               /\ thread'[v] # "serving" => box'[v] = <<>>
               /\ v # leaving' => box'[v] \in Seq(Requests)
    <3>1. CASE v = w
      <4>1. <<>> \in Seq(Requests)
        OBVIOUS
      <4> QED BY <1>3, <1>4, <1>5, <1>8, <3>1, <4>1
    <3>2. CASE v \in 1 .. Len(thread)
      <4>1. deviceOf[v] \in Devices /\ v # 0 /\ v \in Workers
        BY <3>2, WorkerTypes
      <4>2. thread[v] \in {"serving", "gone"} => deviceOf[v] # d
        BY <1>2, <3>2, <4>1 DEF ServingInv
      <4>3. thread[v] \in {"serving", "gone"} => entries'[deviceOf[v]] = entries[deviceOf[v]]
        BY <1>8, <4>1, <4>2
      <4>4. /\ thread'[v] = thread[v] /\ deviceOf'[v] = deviceOf[v] /\ box'[v] = box[v]
            /\ leaving' = leaving
        BY <1>1, <1>3, <1>4, <1>5, <3>2
      <4> QED BY <4>1, <4>3, <4>4 DEF ServingInv
    <3> QED BY <1>7, <3>1, <3>2
  <2> QED BY <1>3, <2>1 DEF ServingInv, TableTypes
<1>12. SaidInv'
  <2>1. \A v \in 1 .. Len(thread) : said[v] = IF thread[v] = "ended" /\ v # leaving THEN 2 ELSE 1
    BY WorkerTypes DEF SaidInv
  <2>2. \A v \in 1 .. w : said'[v] = IF thread'[v] = "ended" /\ v # leaving' THEN 2 ELSE 1
    BY <1>1, <1>3, <1>6, <1>7, <2>1
  <2> QED BY <1>3, <2>2 DEF SaidInv
<1>13. MemoryInv' /\ NothingOfThePast'
  <2>1. ASSUME NEW e \in Devices
        PROVE  /\ memory'[e] # 0 => deviceOf'[memory'[e]] = e
               /\ \/ memory'[e] \in {0, entries'[e], leaving'}
                  \/ thread'[memory'[e]] \in {"gone", "removed"}
    <3>1. memory'[e] = memory[e] /\ memory[e] \in 0 .. Len(thread)
      BY <1>1 DEF TableTypes
    <3>2. memory[e] # 0 => memory[e] \in 1 .. Len(thread)
      BY <3>1
    <3>3. e # d => entries'[e] = entries[e]
      BY <1>8
    <3> QED BY <1>1, <1>2, <1>3, <1>4, <3>1, <3>2, <3>3 DEF MemoryInv, NothingOfThePast
  <2> QED BY <2>1 DEF MemoryInv, NothingOfThePast
<1> QED BY <1>9, <1>10, <1>11, <1>12, <1>13

\* A step of one worker touches its own places, and of the table only the
\* place of its own interface.
OwnPlaces(w) ==
    LET d == deviceOf[w]
    IN  /\ UNCHANGED <<deviceOf, leaving, attached, scanner, main, holds>>
        /\ req' \in [Requests -> RequestPlaces]
        /\ \A r \in Requests : req'[r] = "holding" => req[r] = "holding"
        /\ thread' \in Seq(WorkerPlaces) /\ Len(thread') = Len(thread)
        /\ box' \in Seq(Seq(Requests \cup {"shutdown"})) /\ Len(box') = Len(box)
        /\ said' \in Seq(Nat) /\ Len(said') = Len(said)
        /\ \A v \in 1 .. Len(thread) \ {w} :
              thread'[v] = thread[v] /\ box'[v] = box[v] /\ said'[v] = said[v]
        /\ entries' = entries \/ (entries[d] = w /\ entries' = [entries EXCEPT ![d] = 0])
        /\ memory' = memory \/ \E m \in {0, w} : memory' = [memory EXCEPT ![d] = m]

OwnState(w) ==
    LET d == deviceOf[w]
    IN  /\ entries'[d] = w => thread'[w] \in {"serving", "gone"}
        /\ leaving = w => thread'[w] \in {"serving", "gone", "ended"}
        /\ thread'[w] \in {"serving", "gone"} => w \in {entries'[d], leaving}
        /\ thread'[w] # "serving" => box'[w] = <<>>
        /\ w # leaving => box'[w] \in Seq(Requests)
        /\ said'[w] = IF thread'[w] = "ended" /\ w # leaving THEN 2 ELSE 1
        /\ memory'[d] = w => w \in {entries'[d], leaving} \/ thread'[w] \in {"gone", "removed"}

LEMMA WorkerKeeps ==
    ASSUME TableInv, NEW w \in Workers, OwnPlaces(w), OwnState(w)
    PROVE  TableInv'
<1> DEFINE d == deviceOf[w]
<1>1. /\ Workers = 1 .. Len(thread) /\ w \in 1 .. Len(thread) /\ w # 0 /\ d \in Devices
      /\ \A v \in 1 .. Len(thread) : deviceOf[v] \in Devices /\ v # 0
      /\ 0 \in 0 .. Len(thread) /\ w \in 0 .. Len(thread)
  BY WorkerTypes DEF TableInv
<1>2. /\ entries \in [Devices -> 0 .. Len(thread)] /\ memory \in [Devices -> 0 .. Len(thread)]
      /\ leaving \in 0 .. Len(thread)
  BY DEF TableInv, TableTypes
<1>3. /\ UNCHANGED <<deviceOf, leaving, attached, scanner, main, holds>>
      /\ Len(thread') = Len(thread)
      /\ \A v \in 1 .. Len(thread) : v # w =>
            thread'[v] = thread[v] /\ box'[v] = box[v] /\ said'[v] = said[v]
      /\ entries' \in [Devices -> 0 .. Len(thread)]
      /\ \A e \in Devices : entries'[e] = entries[e] \/ (e = d /\ entries[e] = w /\ entries'[e] = 0)
      /\ memory' \in [Devices -> 0 .. Len(thread)]
      /\ \A e \in Devices : memory'[e] = memory[e] \/ (e = d /\ memory'[e] \in {0, w})
  <2>1. /\ entries' \in [Devices -> 0 .. Len(thread)]
        /\ \A e \in Devices :
              entries'[e] = entries[e] \/ (e = d /\ entries[e] = w /\ entries'[e] = 0)
    <3>1. entries' = entries \/ (entries[d] = w /\ entries' = [entries EXCEPT ![d] = 0])
      BY DEF OwnPlaces
    <3>2. CASE entries' = entries
      BY <1>2, <3>2
    <3>3. CASE entries[d] = w /\ entries' = [entries EXCEPT ![d] = 0]
      <4>1. entries' \in [Devices -> 0 .. Len(thread)]
        BY <1>1, <1>2, <3>3
      <4>2. \A e \in Devices : entries'[e] = IF e = d THEN 0 ELSE entries[e]
        BY <1>2, <3>3
      <4> QED BY <3>3, <4>1, <4>2
    <3> QED BY <3>1, <3>2, <3>3
  <2>2. /\ memory' \in [Devices -> 0 .. Len(thread)]
        /\ \A e \in Devices : memory'[e] = memory[e] \/ (e = d /\ memory'[e] \in {0, w})
    <3>1. memory' = memory \/ \E m \in {0, w} : memory' = [memory EXCEPT ![d] = m]
      BY DEF OwnPlaces
    <3>2. CASE memory' = memory
      BY <1>2, <3>2
    <3>3. ASSUME NEW m \in {0, w}, memory' = [memory EXCEPT ![d] = m]
          PROVE  /\ memory' \in [Devices -> 0 .. Len(thread)]
                 /\ \A e \in Devices : memory'[e] = memory[e] \/ (e = d /\ memory'[e] \in {0, w})
      <4>1. m \in 0 .. Len(thread)
        BY <1>1
      <4>2. memory' \in [Devices -> 0 .. Len(thread)]
        BY <1>1, <1>2, <3>3, <4>1
      <4>3. \A e \in Devices : memory'[e] = IF e = d THEN m ELSE memory[e]
        BY <1>2, <3>3
      <4> QED BY <4>2, <4>3
    <3> QED BY <3>1, <3>2, <3>3
  <2>3. /\ UNCHANGED <<deviceOf, leaving, attached, scanner, main, holds>>
        /\ Len(thread') = Len(thread)
        /\ \A v \in 1 .. Len(thread) : v # w =>
              thread'[v] = thread[v] /\ box'[v] = box[v] /\ said'[v] = said[v]
    BY DEF OwnPlaces
  <2> QED BY <2>1, <2>2, <2>3
<1>4. TableTypes'
  <2>1. /\ thread' \in Seq(WorkerPlaces) /\ Len(thread') = Len(thread)
        /\ box' \in Seq(Seq(Requests \cup {"shutdown"})) /\ Len(box') = Len(box)
        /\ said' \in Seq(Nat) /\ Len(said') = Len(said)
        /\ req' \in [Requests -> RequestPlaces]
        /\ \A r \in Requests : req'[r] = "holding" => req[r] = "holding"
    BY DEF OwnPlaces
  <2> QED BY <1>3, <2>1 DEF TableInv, TableTypes
<1>5. EntryInv'
  <2>1. ASSUME NEW e \in Devices, entries'[e] # 0
        PROVE  /\ deviceOf[entries'[e]] = e
               /\ thread'[entries'[e]] \in {"serving", "gone"} /\ e \in attached
    <3>1. entries'[e] = entries[e] /\ entries[e] \in 1 .. Len(thread)
      BY <1>2, <1>3, <2>1
    <3>2. deviceOf[entries[e]] = e /\ thread[entries[e]] \in {"serving", "gone"} /\ e \in attached
      BY <2>1, <3>1 DEF TableInv, EntryInv
    <3>3. CASE entries[e] = w
      BY <3>1, <3>2, <3>3 DEF OwnState
    <3>4. CASE entries[e] # w
      BY <1>3, <3>1, <3>2, <3>4
    <3> QED BY <3>3, <3>4
  <2>2. ASSUME leaving # 0
        PROVE  /\ entries'[deviceOf[leaving]] = 0
               /\ thread'[leaving] \in {"serving", "gone", "ended"}
               /\ scanner \in {"listed", "stopped"}
    <3>1. leaving \in 1 .. Len(thread) /\ deviceOf[leaving] \in Devices
      BY <1>1, <1>2, <2>2
    <3>2. /\ entries[deviceOf[leaving]] = 0 /\ thread[leaving] \in {"serving", "gone", "ended"}
          /\ scanner \in {"listed", "stopped"}
      BY <2>2 DEF TableInv, EntryInv
    <3>3. entries'[deviceOf[leaving]] = 0
      BY <1>3, <3>1, <3>2
    <3>4. thread'[leaving] \in {"serving", "gone", "ended"}
      BY <1>3, <3>1, <3>2 DEF OwnState
    <3> QED BY <3>2, <3>3, <3>4
  <2>3. main \in {"closing", "off"} => scanner = "stopped"
    BY DEF TableInv, EntryInv
  <2> QED BY <1>3, <2>1, <2>2, <2>3 DEF EntryInv
<1>6. ServingInv'
  <2>1. ASSUME NEW v \in 1 .. Len(thread)
        PROVE  /\ thread'[v] \in {"serving", "gone"} => v \in {entries'[deviceOf[v]], leaving}
               /\ thread'[v] # "serving" => box'[v] = <<>>
               /\ v # leaving => box'[v] \in Seq(Requests)
    <3>1. CASE v = w
      BY <3>1 DEF OwnState
    <3>2. CASE v # w
      <4>1. /\ thread'[v] = thread[v] /\ box'[v] = box[v] /\ v \in Workers
            /\ entries'[deviceOf[v]] = entries[deviceOf[v]] \/ entries[deviceOf[v]] = w
        BY <1>1, <1>3, <3>2
      <4> QED BY <3>2, <4>1 DEF TableInv, ServingInv
    <3> QED BY <3>1, <3>2
  <2> QED BY <1>1, <1>3, <1>4, <2>1, WorkerTypes DEF ServingInv
<1>7. SaidInv'
  <2>1. ASSUME NEW v \in 1 .. Len(thread)
        PROVE  said'[v] = IF thread'[v] = "ended" /\ v # leaving THEN 2 ELSE 1
    BY <1>1, <1>3 DEF OwnState, TableInv, SaidInv
  <2> QED BY <1>1, <1>3, <1>4, <2>1, WorkerTypes DEF SaidInv
<1>8. MemoryInv' /\ NothingOfThePast'
  <2>1. ASSUME NEW e \in Devices
        PROVE  /\ memory'[e] # 0 => deviceOf[memory'[e]] = e
               /\ \/ memory'[e] \in {0, entries'[e], leaving}
                  \/ thread'[memory'[e]] \in {"gone", "removed"}
    <3>1. CASE memory'[e] = w
      <4>1. deviceOf[w] = e
        BY <1>1, <1>3, <3>1 DEF TableInv, MemoryInv
      <4> QED BY <3>1, <4>1 DEF OwnState
    <3>2. CASE memory'[e] # w /\ memory'[e] # 0
      <4>1. memory'[e] = memory[e] /\ memory[e] \in 1 .. Len(thread)
        BY <1>2, <1>3, <3>2
      <4>2. thread'[memory[e]] = thread[memory[e]] /\ (entries[e] = memory[e] => entries'[e] = entries[e])
        BY <1>3, <3>2, <4>1
      <4> QED BY <3>2, <4>1, <4>2 DEF TableInv, MemoryInv, NothingOfThePast
    <3> QED BY <3>1, <3>2
  <2> QED BY <1>3, <2>1 DEF MemoryInv, NothingOfThePast
<1> QED BY <1>4, <1>5, <1>6, <1>7, <1>8 DEF TableInv

\* What a worker's own step finds.
LEMMA AtWorker ==
    ASSUME TableInv, NEW w \in Workers
    PROVE  /\ w \in 1 .. Len(thread) /\ w # 0 /\ deviceOf[w] \in Devices
           /\ box \in Seq(Seq(Requests \cup {"shutdown"})) /\ Len(box) = Len(thread)
           /\ box[w] \in Seq(Requests \cup {"shutdown"})
           /\ thread \in Seq(WorkerPlaces)
           /\ said \in Seq(Nat) /\ Len(said) = Len(thread)
           /\ req \in [Requests -> RequestPlaces]
           /\ thread[w] \in {"serving", "gone"} => w \in {entries[deviceOf[w]], leaving}
           /\ thread[w] # "serving" => box[w] = <<>>
           /\ w # leaving => box[w] \in Seq(Requests)
           /\ said[w] = IF thread[w] = "ended" /\ w # leaving THEN 2 ELSE 1
           /\ entries[deviceOf[w]] = w => thread[w] \in {"serving", "gone"}
           /\ leaving = w => /\ thread[w] \in {"serving", "gone", "ended"}
                             /\ entries[deviceOf[w]] = 0
           /\ memory[deviceOf[w]] = w =>
                 w \in {entries[deviceOf[w]], leaving} \/ thread[w] \in {"gone", "removed"}
<1>1. w \in 1 .. Len(thread) /\ w # 0 /\ deviceOf[w] \in Devices
      /\ box[w] \in Seq(Requests \cup {"shutdown"})
  BY WorkerTypes DEF TableInv
<1> QED BY <1>1 DEF TableInv, TableTypes, EntryInv, ServingInv, SaidInv, NothingOfThePast

LEMMA ServeKeeps ==
    ASSUME TableInv, NEW w \in Workers, Serve(w)
    PROVE  TableInv'
<1> USE AtWorker
<1>1. /\ thread[w] = "serving" /\ box[w] # <<>> /\ Head(box[w]) \in Requests
      /\ box' = [box EXCEPT ![w] = Tail(box[w])]
      /\ req' = [req EXCEPT ![Head(box[w])] = IF connected[w] THEN "answered" ELSE "gone"]
      /\ UNCHANGED <<thread, deviceOf, said, entries, memory, leaving, attached, scanner, main>>
      /\ UNCHANGED holds
  BY DEF Serve, tableVars, eventVars, scanVars
<1>2. /\ box' \in Seq(Seq(Requests \cup {"shutdown"})) /\ Len(box') = Len(box)
      /\ \A v \in 1 .. Len(thread) \ {w} : box'[v] = box[v]
      /\ box'[w] = Tail(box[w])
  <2>1. Tail(box[w]) \in Seq(Requests \cup {"shutdown"})
    BY <1>1, HeadTailProperties
  <2> QED BY <1>1, <2>1, ExceptSeq
<1>3. w # leaving => box'[w] \in Seq(Requests)
  <2>1. ASSUME w # leaving
        PROVE  Tail(box[w]) \in Seq(Requests)
    <3>1. box[w] \in Seq(Requests)
      BY <2>1
    <3> QED BY <1>1, <3>1, HeadTailProperties
  <2> QED BY <1>2, <2>1
<1>4. /\ req' \in [Requests -> RequestPlaces]
      /\ \A r \in Requests : req'[r] = "holding" => req[r] = "holding"
  BY <1>1 DEF RequestPlaces
<1>5. OwnPlaces(w)
  BY <1>1, <1>2, <1>4 DEF OwnPlaces
<1>6. OwnState(w)
  BY <1>1, <1>3 DEF OwnState
<1> QED BY <1>5, <1>6, WorkerKeeps

LEMMA ReportKeeps ==
    ASSUME TableInv, NEW w \in Workers, Report(w)
    PROVE  TableInv'
<1> USE AtWorker
<1>1. /\ thread[w] = "serving" /\ memory' = [memory EXCEPT ![deviceOf[w]] = w]
      /\ UNCHANGED <<thread, deviceOf, box, said, entries, leaving, attached, scanner, main>>
      /\ UNCHANGED <<holds, req>>
  BY DEF Report, eventVars, workerVars, scanVars, clientVars
<1>2. OwnPlaces(w)
  BY <1>1 DEF OwnPlaces
<1>3. OwnState(w)
  BY <1>1 DEF OwnState
<1> QED BY <1>2, <1>3, WorkerKeeps

\* The thread goes on to a place of its own.
LEMMA ThreadMoves ==
    ASSUME TableInv, NEW w \in Workers, NEW where \in WorkerPlaces,
           thread' = [thread EXCEPT ![w] = where]
    PROVE  /\ thread' \in Seq(WorkerPlaces) /\ Len(thread') = Len(thread)
           /\ thread'[w] = where /\ \A v \in 1 .. Len(thread) \ {w} : thread'[v] = thread[v]
<1>1. thread \in Seq(WorkerPlaces) /\ w \in 1 .. Len(thread)
  BY AtWorker
<1> QED BY <1>1, ExceptSeq

LEMMA EndingKeeps ==
    ASSUME TableInv, NEW w \in Workers, Shutdown(w) \/ DeviceGone(w)
    PROVE  TableInv'
<1> USE AtWorker
<1>1. PICK where \in {"ended", "gone"} :
        /\ thread' = [thread EXCEPT ![w] = where]
        /\ where = "ended" => box[w] # <<>> /\ Head(box[w]) = "shutdown"
  BY DEF Shutdown, DeviceGone
<1>2. /\ thread[w] = "serving" /\ req' = Dropped(w) /\ box' = [box EXCEPT ![w] = <<>>]
      /\ UNCHANGED <<deviceOf, said, entries, memory, leaving, attached, scanner, main, holds>>
  BY DEF Shutdown, DeviceGone, tableVars, eventVars, scanVars
<1>3. /\ thread' \in Seq(WorkerPlaces) /\ Len(thread') = Len(thread)
      /\ thread'[w] = where /\ \A v \in 1 .. Len(thread) \ {w} : thread'[v] = thread[v]
  BY <1>1, ThreadMoves DEF WorkerPlaces
<1>4. /\ box' \in Seq(Seq(Requests \cup {"shutdown"})) /\ Len(box') = Len(box)
      /\ \A v \in 1 .. Len(thread) \ {w} : box'[v] = box[v]
      /\ box'[w] = <<>>
  <2>1. <<>> \in Seq(Requests \cup {"shutdown"})
    OBVIOUS
  <2> QED BY <1>2, <2>1, ExceptSeq
<1>5. /\ req' \in [Requests -> RequestPlaces]
      /\ \A r \in Requests : req'[r] = "holding" => req[r] = "holding"
  BY <1>2 DEF Dropped, RequestPlaces
<1>6. where = "ended" => w = leaving
  <2>1. ASSUME w # leaving, box[w] # <<>>
        PROVE  Head(box[w]) \in Requests
    <3>1. box[w] \in Seq(Requests)
      BY <2>1
    <3> QED BY <2>1, <3>1, HeadTailProperties
  <2> QED BY <1>1, <2>1
<1>7. OwnPlaces(w)
  BY <1>2, <1>3, <1>4, <1>5 DEF OwnPlaces
<1>8. OwnState(w)
  <2>1. <<>> \in Seq(Requests)
    OBVIOUS
  <2> QED BY <1>2, <1>3, <1>4, <1>6, <2>1 DEF OwnState
<1> QED BY <1>7, <1>8, WorkerKeeps

LEMMA GoneKeeps ==
    ASSUME TableInv, NEW w \in Workers, RemoveGone(w) \/ ForgetGone(w) \/ TellGone(w)
    PROVE  TableInv'
<1> USE AtWorker
<1>1. CASE RemoveGone(w)
  <2>1. /\ thread[w] = "gone"
        /\ \/ /\ entries[deviceOf[w]] # 0 /\ entries' = [entries EXCEPT ![deviceOf[w]] = 0]
              /\ thread' = [thread EXCEPT ![w] = "removed"]
           \/ /\ entries[deviceOf[w]] = 0 /\ entries' = entries
              /\ thread' = [thread EXCEPT ![w] = "ended"]
        /\ UNCHANGED <<deviceOf, box, said, memory, leaving, attached, scanner, main>>
        /\ UNCHANGED <<holds, req>>
    BY <1>1 DEF RemoveGone, FindsEntry, eventVars, scanVars, clientVars
  <2>2. CASE entries[deviceOf[w]] # 0
    <3>1. /\ thread' \in Seq(WorkerPlaces) /\ Len(thread') = Len(thread)
          /\ thread'[w] = "removed" /\ \A v \in 1 .. Len(thread) \ {w} : thread'[v] = thread[v]
      BY <2>1, <2>2, ThreadMoves DEF WorkerPlaces
    <3>2. entries[deviceOf[w]] = w /\ leaving # w
      BY <2>1, <2>2
    <3>3. OwnPlaces(w)
      BY <2>1, <2>2, <3>1, <3>2 DEF OwnPlaces
    <3>4. entries'[deviceOf[w]] = 0
      BY <2>1, <2>2 DEF TableInv, TableTypes
    <3>5. OwnState(w)
      BY <2>1, <3>1, <3>2, <3>4 DEF OwnState
    <3> QED BY <3>3, <3>5, WorkerKeeps
  <2>3. CASE entries[deviceOf[w]] = 0
    <3>1. /\ thread' \in Seq(WorkerPlaces) /\ Len(thread') = Len(thread)
          /\ thread'[w] = "ended" /\ \A v \in 1 .. Len(thread) \ {w} : thread'[v] = thread[v]
      BY <2>1, <2>3, ThreadMoves DEF WorkerPlaces
    <3>2. leaving = w /\ entries' = entries
      BY <2>1, <2>3
    <3>3. OwnPlaces(w)
      BY <2>1, <3>1, <3>2 DEF OwnPlaces
    <3>4. OwnState(w)
      BY <2>1, <3>1, <3>2 DEF OwnState
    <3> QED BY <3>3, <3>4, WorkerKeeps
  <2> QED BY <2>2, <2>3
<1>2. CASE ForgetGone(w)
  <2>1. /\ thread[w] = "removed" /\ thread' = [thread EXCEPT ![w] = "forgot"]
        /\ memory' = [memory EXCEPT ![deviceOf[w]] = 0]
        /\ UNCHANGED <<deviceOf, box, said, entries, leaving, attached, scanner, main>>
        /\ UNCHANGED <<holds, req>>
    BY <1>2 DEF ForgetGone, eventVars, scanVars, clientVars
  <2>2. /\ thread' \in Seq(WorkerPlaces) /\ Len(thread') = Len(thread)
        /\ thread'[w] = "forgot" /\ \A v \in 1 .. Len(thread) \ {w} : thread'[v] = thread[v]
    BY <2>1, ThreadMoves DEF WorkerPlaces
  <2>3. OwnPlaces(w)
    BY <2>1, <2>2 DEF OwnPlaces
  <2>4. memory'[deviceOf[w]] = 0
    BY <2>1 DEF TableInv, TableTypes
  <2>5. OwnState(w)
    BY <2>1, <2>2, <2>4 DEF OwnState
  <2> QED BY <2>3, <2>5, WorkerKeeps
<1>3. CASE TellGone(w)
  <2>1. /\ thread[w] = "forgot" /\ thread' = [thread EXCEPT ![w] = "ended"]
        /\ said' = [said EXCEPT ![w] = said[w] + 1]
        /\ UNCHANGED <<deviceOf, box, entries, memory, leaving, attached, scanner, main>>
        /\ UNCHANGED <<holds, req>>
    BY <1>3 DEF TellGone, scanVars, clientVars
  <2>2. /\ thread' \in Seq(WorkerPlaces) /\ Len(thread') = Len(thread)
        /\ thread'[w] = "ended" /\ \A v \in 1 .. Len(thread) \ {w} : thread'[v] = thread[v]
    BY <2>1, ThreadMoves DEF WorkerPlaces
  <2>3. said[w] + 1 \in Nat /\ said[w] + 1 = 2
    <3>1. said[w] = 1
      BY <2>1
    <3> QED BY ONLY <3>1
  <2>4. /\ said' \in Seq(Nat) /\ Len(said') = Len(said) /\ said'[w] = 2
        /\ \A v \in 1 .. Len(thread) \ {w} : said'[v] = said[v]
    BY <2>1, <2>3, ExceptSeq
  <2>5. OwnPlaces(w)
    BY <2>1, <2>2, <2>4 DEF OwnPlaces
  <2>6. OwnState(w)
    BY <2>1, <2>2, <2>4 DEF OwnState
  <2> QED BY <2>5, <2>6, WorkerKeeps
<1> QED BY <1>1, <1>2, <1>3

LEMMA SendingKeeps ==
    ASSUME TableInv, NEW r \in Requests, SendRequest(r)
    PROVE  TableInv'
<1> DEFINE w == holds[r]
<1>1. /\ req[r] = "holding"
      /\ UNCHANGED <<thread, deviceOf, said, entries, memory, leaving, attached, scanner, main>>
      /\ UNCHANGED holds
  BY DEF SendRequest, tableVars, eventVars, scanVars
<1>2. w \in Workers
  BY <1>1, WorkerTypes DEF TableInv, TableTypes
<1>3. req \in [Requests -> RequestPlaces]
  BY DEF TableInv, TableTypes
<1>4. CASE thread[w] = "serving"
  <2>1. box' = [box EXCEPT ![w] = Append(box[w], r)] /\ req' = [req EXCEPT ![r] = "sent"]
    BY <1>4 DEF SendRequest
  <2>2. /\ box \in Seq(Seq(Requests \cup {"shutdown"})) /\ Len(box) = Len(thread)
        /\ box[w] \in Seq(Requests \cup {"shutdown"}) /\ w \in 1 .. Len(thread)
        /\ w # leaving => box[w] \in Seq(Requests)
    BY <1>2, AtWorker
  <2>3. /\ Append(box[w], r) \in Seq(Requests \cup {"shutdown"})
        /\ w # leaving => Append(box[w], r) \in Seq(Requests)
    <3>1. r \in Requests \cup {"shutdown"}
      OBVIOUS
    <3> QED BY <2>2, <3>1, AppendProperties
  <2>4. /\ box' \in Seq(Seq(Requests \cup {"shutdown"})) /\ Len(box') = Len(box)
        /\ \A v \in 1 .. Len(thread) \ {w} : box'[v] = box[v]
        /\ box'[w] = Append(box[w], r)
    <3>1. w \in 1 .. Len(box) /\ Append(box[w], r) \in Seq(Requests \cup {"shutdown"})
      BY <2>2, <2>3
    <3>2. /\ box' \in Seq(Seq(Requests \cup {"shutdown"})) /\ Len(box') = Len(box)
          /\ \A v \in 1 .. Len(box) : box'[v] = IF v = w THEN Append(box[w], r) ELSE box[v]
      <4> DEFINE S == Seq(Requests \cup {"shutdown"})
                 e == Append(box[w], r)
      <4>1. box \in Seq(S) /\ w \in 1 .. Len(box) /\ e \in S /\ box' = [box EXCEPT ![w] = e]
        BY <2>1, <2>2, <3>1
      <4> HIDE DEF S, e
      <4>2. /\ box' \in Seq(S) /\ Len(box') = Len(box)
            /\ \A v \in 1 .. Len(box) : box'[v] = IF v = w THEN e ELSE box[v]
        BY <4>1, ExceptSeq
      <4> QED BY <4>2 DEF S, e
    <3> QED BY <2>2, <3>1, <3>2
  <2>5. /\ req' \in [Requests -> RequestPlaces]
        /\ \A q \in Requests : req'[q] = "holding" => req[q] = "holding"
    BY <1>3, <2>1 DEF RequestPlaces
  <2>6. OwnPlaces(w)
    BY <1>1, <1>2, <2>4, <2>5, AtWorker DEF OwnPlaces
  <2>7. OwnState(w)
    BY <1>1, <1>2, <1>4, <2>3, <2>4, AtWorker DEF OwnState
  <2> QED BY <1>2, <2>6, <2>7, WorkerKeeps
<1>5. CASE thread[w] # "serving"
  <2>1. box' = box /\ req' = [req EXCEPT ![r] = "gone"]
    BY <1>5 DEF SendRequest
  <2>2. /\ req' \in [Requests -> RequestPlaces]
        /\ \A q \in Requests : req'[q] = "holding" => req[q] = "holding"
    BY <1>3, <2>1 DEF RequestPlaces
  <2> QED BY <1>1, <2>1, <2>2, AroundTheTable DEF TableInv, TableTypes, EntryInv
<1> QED BY <1>4, <1>5

LEMMA TableStep == TableInv /\ [ManagerNext]_managerVars => TableInv'
<1> SUFFICES ASSUME TableInv, [ManagerNext]_managerVars
             PROVE  TableInv'
  OBVIOUS
<1>1. CASE \/ \E d \in Devices : Plug(d) \/ \E out \in BOOLEAN : Disturb(d, out)
           \/ ListFails \/ Quit \/ Off
  BY <1>1, AroundKeeps
<1>2. CASE Scan
  BY <1>2, AroundKeeps, DetachKeeps, OpenKeeps DEF Scan
<1>3. CASE DetachEnds
  BY <1>3, DetachEndKeeps
<1>4. ASSUME NEW w \in Workers, Work(w) \/ Report(w)
      PROVE  TableInv'
  BY <1>4, ServeKeeps, ReportKeeps, EndingKeeps, GoneKeeps DEF Work
<1>5. ASSUME NEW r \in Requests, SendRequest(r) \/ \E d \in Devices : LookUp(r, d)
      PROVE  TableInv'
  BY <1>5, SendingKeeps, AroundKeeps
<1>6. CASE Quitting
  BY <1>6, AroundKeeps, DetachKeeps DEF Quitting
<1>7. CASE UNCHANGED managerVars
  BY <1>7, AroundTheTable DEF managerVars, tableVars, eventVars, workerVars, scanVars, clientVars,
     TableInv, TableTypes, EntryInv
<1> QED BY <1>1, <1>2, <1>3, <1>4, <1>5, <1>6, <1>7 DEF ManagerNext

LEMMA TableAlways == ManagerSpec => []TableInv
  BY TableStart, TableStep, PTL DEF ManagerSpec

\* For any number of interfaces, requests and troubles of the bus: an interface
\* is open once, what is in the table is there to be served by it, and what
\* serves is in the table or waited for (manager.rs, attach, detach and
\* remove_gone).
THEOREM OneServes == ManagerSpec => []OneWorkerServes
<1>1. TableInv => OneWorkerServes
  <2> SUFFICES ASSUME TableInv
               PROVE  OneWorkerServes
    OBVIOUS
  <2>1. \A w \in Workers : thread[w] = "serving" => w \in {entries[deviceOf[w]], leaving}
    BY AtWorker
  <2>2. ASSUME NEW d \in Devices, entries[d] # 0
        PROVE  thread[entries[d]] \in {"serving", "gone"}
    BY <2>2 DEF TableInv, EntryInv
  <2>3. ASSUME NEW v \in Workers, NEW w \in Workers,
               thread[v] = "serving", thread[w] = "serving", deviceOf[v] = deviceOf[w]
        PROVE  v = w
    <3>1. v \in {entries[deviceOf[v]], leaving} /\ w \in {entries[deviceOf[v]], leaving}
      BY <2>1, <2>3
    <3>2. v # 0 /\ w # 0
      BY AtWorker
    <3>3. leaving # 0 => entries[deviceOf[leaving]] = 0
      BY DEF TableInv, EntryInv
    <3> QED BY <2>3, <3>1, <3>2, <3>3
  <2> QED BY <2>1, <2>2, <2>3 DEF OneWorkerServes
<1> QED BY TableAlways, <1>1, PTL

\* Clients are told once that an interface came, and once that it went, whoever
\* took it out of the table: its worker, the scanner or a shutdown (manager.rs,
\* detach and remove_gone).
THEOREM ToldOfEachOnce == ManagerSpec => []ToldOnce
<1>1. TableInv => ToldOnce
  <2> SUFFICES ASSUME TableInv, NEW w \in Workers
               PROVE  /\ said[w] \in 1 .. 2
                      /\ entries[deviceOf[w]] = w => said[w] = 1
                      /\ thread[w] = "ended" /\ leaving # w => said[w] = 2
    BY DEF ToldOnce
  <2>1. /\ said[w] = IF thread[w] = "ended" /\ w # leaving THEN 2 ELSE 1
        /\ entries[deviceOf[w]] = w => thread[w] \in {"serving", "gone"}
    BY AtWorker
  <2>2. 1 \in 1 .. 2 /\ 2 \in 1 .. 2
    OBVIOUS
  <2> QED BY <2>1, <2>2
<1> QED BY TableAlways, <1>1, PTL

\* Nothing is remembered of a worker that is past, so that an interface that
\* comes back is not answered for by what was seen before (manager.rs,
\* forget_cyclic).
THEOREM PastForgotten == ManagerSpec => []NothingOfThePast
<1>1. TableInv => NothingOfThePast
  BY DEF TableInv
<1> QED BY TableAlways, <1>1, PTL
-----------------------------------------------------------------------------
(* Requests and what answers them.                                         *)

HIDE ManagerAssumption
USE RequestsAssumption

Outcomes == {"under way", "matched", "refused", "sent", "timeout", "gone"}
ReportsSeen == [cmd : Cmds \cup {Ack, "cyclic"}, ext2 : Selectors, flagged : BOOLEAN, of : Nat]
AsksSeen == [cmd : Cmds, ext2 : Selectors, returns : BOOLEAN, seen : Nat]

RequestTypes ==
    /\ arrived \in Seq(ReportsSeen) /\ read \in 0 .. Len(arrived) /\ owed \in Seq(Nat)
    /\ asked \in Seq(AsksSeen)
    /\ outcome \in Seq(Outcomes) /\ Len(outcome) = Len(asked)
    /\ answer \in Seq(Nat) /\ Len(answer) = Len(asked)
    /\ worker \in {"idle", "drained", "waiting", "ended"}

\* Requests are settled one after the other: all but the last are, the last is
\* while it is under way not, and what had arrived before it was read.
SettledInv ==
    /\ \A m \in 1 .. Len(asked) :
          /\ m < Len(asked) \/ worker = "idle" => outcome[m] \notin {"under way", "gone"}
          /\ outcome[m] \in {"matched", "refused"} <=> answer[m] # 0
          /\ outcome[m] = "sent" => ~asked[m].returns
    /\ worker \in {"drained", "waiting"} =>
          /\ asked # <<>> /\ outcome[Len(asked)] = "under way" /\ asked[Len(asked)].seen <= read
    /\ worker = "waiting" => pending = Len(asked)

\* What the interface owes, and has answered, are requests that were sent and
\* want a reply, each of them once.
HasGone(m) == m \in 1 .. Len(asked) /\ (worker = "drained" => m < Len(asked)) /\ asked[m].returns
WireInv ==
    /\ \A k \in 1 .. Len(owed) : HasGone(owed[k])
    /\ \A k, l \in 1 .. Len(owed) : owed[k] = owed[l] => k = l
    /\ \A i \in 1 .. Len(arrived) :
          IF arrived[i].of = 0 THEN arrived[i].cmd = "cyclic"
          ELSE /\ HasGone(arrived[i].of) /\ arrived[i].ext2 = asked[arrived[i].of].ext2
               /\ \A j \in 1 .. Len(arrived) : arrived[j].of = arrived[i].of => i = j
               /\ \A k \in 1 .. Len(owed) : owed[k] # arrived[i].of

RequestInv ==
    RequestTypes /\ SettledInv /\ WireInv /\ EachReportOnce /\ StaleNeverAnswers
    /\ StraysFollowATimeout

LEMMA RequestsStart == RequestsInit => RequestInv
<1> SUFFICES ASSUME RequestsInit
             PROVE  RequestInv
  OBVIOUS
<1>1. /\ arrived = <<>> /\ read = 0 /\ owed = <<>> /\ asked = <<>> /\ outcome = <<>>
      /\ answer = <<>> /\ worker = "idle" /\ published = {}
  BY DEF RequestsInit
<1>2. RequestTypes /\ SettledInv /\ WireInv
  BY <1>1 DEF RequestTypes, SettledInv, WireInv
<1>3. EachReportOnce /\ StaleNeverAnswers /\ StraysFollowATimeout
  BY <1>1 DEF EachReportOnce, StaleNeverAnswers, StraysFollowATimeout
<1> QED BY <1>2, <1>3 DEF RequestInv

LEMMA RequestFacts ==
    ASSUME RequestInv
    PROVE  /\ Len(arrived) \in Nat /\ Len(asked) \in Nat /\ Len(owed) \in Nat /\ read \in Nat
           /\ read <= Len(arrived) /\ DOMAIN answer = 1 .. Len(asked)
           /\ \A i \in 1 .. Len(arrived) : arrived[i] \in ReportsSeen /\ arrived[i].of \in Nat
           /\ \A m \in 1 .. Len(asked) :
                 /\ asked[m] \in AsksSeen /\ outcome[m] \in Outcomes /\ answer[m] \in Nat
                 /\ answer[m] # 0 => answer[m] \in 1 .. read /\ answer[m] \in 1 .. Len(arrived)
                                     /\ answer[m] \notin published
           /\ \A x \in 1 .. read : x \in published \/ \E m \in 1 .. Len(asked) : answer[m] = x
           /\ published \subseteq 1 .. read
           /\ \A m, n \in 1 .. Len(asked) : answer[m] = answer[n] /\ answer[m] # 0 => m = n
<1>1. /\ Len(arrived) \in Nat /\ Len(asked) \in Nat /\ Len(owed) \in Nat /\ read \in Nat
      /\ read <= Len(arrived) /\ DOMAIN answer = 1 .. Len(asked)
  BY DEF RequestInv, RequestTypes
<1>2. \A i \in 1 .. Len(arrived) : arrived[i] \in ReportsSeen /\ arrived[i].of \in Nat
  <2>1. \A i \in 1 .. Len(arrived) : arrived[i] \in ReportsSeen
    BY ElementOfSeq DEF RequestInv, RequestTypes
  <2>2. \A r \in ReportsSeen : r.of \in Nat
    BY DEF ReportsSeen
  <2> QED BY <2>1, <2>2
<1>3. \A m \in 1 .. Len(asked) :
         asked[m] \in AsksSeen /\ outcome[m] \in Outcomes /\ answer[m] \in Nat
  BY ElementOfSeq DEF RequestInv, RequestTypes
<1> DEFINE used == {answer[n] : n \in DOMAIN answer} \ {0}
<1>4. /\ published \cap used = {} /\ published \cup used = 1 .. read
      /\ \A m, n \in DOMAIN answer : answer[m] = answer[n] /\ answer[m] # 0 => m = n
  BY DEF RequestInv, EachReportOnce
<1>5. \A m \in 1 .. Len(asked) :
         answer[m] # 0 => answer[m] \in 1 .. read /\ answer[m] \notin published
  BY <1>1, <1>4
<1>6. \A m \in 1 .. Len(asked) : answer[m] # 0 => answer[m] \in 1 .. Len(arrived)
  BY <1>1, <1>3, <1>5
<1>7. \A x \in 1 .. read : x \in published \/ \E m \in 1 .. Len(asked) : answer[m] = x
  BY <1>1, <1>4
<1> QED BY <1>1, <1>2, <1>3, <1>4, <1>5, <1>6, <1>7

\* What the interface does is read later: with fewer owed and at most one more
\* arrived nothing else changes.
LEMMA WireKeeps ==
    ASSUME RequestInv, UNCHANGED <<read, worker, asked, pending, outcome, answer, published>>,
           owed' \in Seq(Nat), NEW s \in {0, 1}, Len(owed') + s <= Len(owed),
           \A k \in 1 .. Len(owed') : owed'[k] = owed[k + s],
           \/ arrived' = arrived
           \/ \E r \in ReportsSeen :
                 /\ arrived' = Append(arrived, r)
                 /\ \/ r.of = 0 /\ r.cmd = "cyclic"
                    \/ s = 1 /\ owed # <<>> /\ r.of = owed[1] /\ r.ext2 = asked[owed[1]].ext2
    PROVE  RequestInv'
<1>1. /\ Len(owed') \in Nat /\ Len(owed) \in Nat
      /\ \A k \in 1 .. Len(owed') : k + s \in 1 .. Len(owed) /\ (s = 1 => k + s # 1)
  BY SMTT(30) DEF RequestInv, RequestTypes
<1>2. /\ \A k \in 1 .. Len(owed') : HasGone(owed'[k])
      /\ \A k, l \in 1 .. Len(owed') : owed'[k] = owed'[l] => k = l
      /\ \A i \in 1 .. Len(arrived) : \A k \in 1 .. Len(owed') :
            arrived[i].of # 0 => owed'[k] # arrived[i].of
  <2>1. \A k \in 1 .. Len(owed') : owed'[k] = owed[k + s] /\ k + s \in 1 .. Len(owed)
    BY <1>1
  <2>2. \A k, l \in 1 .. Len(owed') : k + s = l + s => k = l
    BY <1>1
  <2>3. /\ \A k \in 1 .. Len(owed) : HasGone(owed[k])
        /\ \A k, l \in 1 .. Len(owed) : owed[k] = owed[l] => k = l
        /\ \A i \in 1 .. Len(arrived) : \A k \in 1 .. Len(owed) :
              arrived[i].of # 0 => owed[k] # arrived[i].of
    BY DEF RequestInv, WireInv
  <2>4. \A k \in 1 .. Len(owed') : HasGone(owed'[k])
    BY <2>1, <2>3
  <2>5. ASSUME NEW k \in 1 .. Len(owed'), NEW l \in 1 .. Len(owed'), owed'[k] = owed'[l]
        PROVE  k = l
    <3>1. k + s \in 1 .. Len(owed) /\ l + s \in 1 .. Len(owed) /\ owed[k + s] = owed[l + s]
      BY <2>1, <2>5
    <3>2. k + s = l + s
      BY <2>3, <3>1
    <3> QED BY <2>2, <3>2
  <2>6. \A i \in 1 .. Len(arrived) : \A k \in 1 .. Len(owed') :
           arrived[i].of # 0 => owed'[k] # arrived[i].of
    BY <2>1, <2>3
  <2> QED BY <2>4, <2>5, <2>6
<1>3. CASE arrived' = arrived
  <2>1. RequestTypes' /\ SettledInv'
    BY <1>3 DEF RequestInv, RequestTypes, SettledInv
  <2>2. WireInv'
    BY <1>2, <1>3 DEF RequestInv, WireInv, HasGone
  <2>3. EachReportOnce' /\ StaleNeverAnswers' /\ StraysFollowATimeout'
    BY <1>3 DEF RequestInv, EachReportOnce, StaleNeverAnswers, StraysFollowATimeout
  <2> QED BY <2>1, <2>2, <2>3 DEF RequestInv
<1>4. ASSUME NEW r \in ReportsSeen, arrived' = Append(arrived, r),
             \/ r.of = 0 /\ r.cmd = "cyclic"
             \/ s = 1 /\ owed # <<>> /\ r.of = owed[1] /\ r.ext2 = asked[owed[1]].ext2
      PROVE  RequestInv'
  <2>1. /\ arrived' \in Seq(ReportsSeen) /\ Len(arrived') = Len(arrived) + 1
        /\ arrived'[Len(arrived) + 1] = r
        /\ \A i \in 1 .. Len(arrived) : arrived'[i] = arrived[i]
    <3>1. arrived \in Seq(ReportsSeen)
      BY DEF RequestInv, RequestTypes
    <3> QED BY <1>4, <3>1, AppendProperties
  <2>2. RequestTypes' /\ SettledInv'
    <3>1. read' \in 0 .. Len(arrived')
      BY <2>1 DEF RequestInv, RequestTypes
    <3> QED BY <2>1, <3>1 DEF RequestInv, RequestTypes, SettledInv
  <2>3. StraysFollowATimeout'
    <3>1. DOMAIN answer = 1 .. Len(asked) /\ UNCHANGED <<asked, answer, outcome>>
      BY RequestFacts
    <3>2. \A n \in 1 .. Len(asked) : answer[n] # 0 => arrived'[answer[n]] = arrived[answer[n]]
      BY <2>1, RequestFacts
    <3> QED BY SMTT(30), <3>1, <3>2 DEF RequestInv, StraysFollowATimeout
  <2>4. EachReportOnce' /\ StaleNeverAnswers'
    BY DEF RequestInv, EachReportOnce, StaleNeverAnswers
  <2>5. ASSUME r.of # 0
        PROVE  /\ HasGone(r.of) /\ r.ext2 = asked[r.of].ext2
               /\ \A j \in 1 .. Len(arrived) : arrived[j].of # r.of
               /\ \A k \in 1 .. Len(owed') : owed'[k] # r.of
    <3>1. s = 1 /\ r.of = owed[1] /\ r.ext2 = asked[owed[1]].ext2 /\ 1 \in 1 .. Len(owed)
      BY <1>4, <2>5 DEF RequestInv, RequestTypes
    <3>2. \A j \in 1 .. Len(arrived) : arrived[j].of # r.of
      BY <2>5, <3>1 DEF RequestInv, WireInv
    <3>3. \A k \in 1 .. Len(owed') : owed'[k] # r.of
      BY <1>1, <3>1 DEF RequestInv, WireInv
    <3> QED BY <3>1, <3>2, <3>3 DEF RequestInv, WireInv
  <2>6. \A m : HasGone(m)' <=> HasGone(m)
    BY DEF HasGone
  <2>7. ASSUME NEW i \in 1 .. Len(arrived')
        PROVE  IF arrived'[i].of = 0 THEN arrived'[i].cmd = "cyclic"
               ELSE /\ HasGone(arrived'[i].of) /\ arrived'[i].ext2 = asked[arrived'[i].of].ext2
                    /\ \A j \in 1 .. Len(arrived') : arrived'[j].of = arrived'[i].of => i = j
                    /\ \A k \in 1 .. Len(owed') : owed'[k] # arrived'[i].of
    <3>1. \A j \in 1 .. Len(arrived') : j \in 1 .. Len(arrived) \/ j = Len(arrived) + 1
      BY <2>1, RequestFacts
    <3>2. CASE i = Len(arrived) + 1
      <4>1. arrived'[i] = r
        BY <2>1, <3>2
      <4>2. CASE r.of = 0
        <5>1. ASSUME owed # <<>>
              PROVE  owed[1] # 0
          <6>1. 1 \in 1 .. Len(owed)
            BY <5>1 DEF RequestInv, RequestTypes
          <6> QED BY <6>1 DEF RequestInv, WireInv, HasGone
        <5>2. r.cmd = "cyclic"
          BY <1>4, <4>2, <5>1
        <5> QED BY <4>1, <4>2, <5>2
      <4>3. CASE r.of # 0
        <5>1. \A j \in 1 .. Len(arrived') : arrived'[j].of = r.of => i = j
          BY <2>1, <2>5, <3>1, <3>2, <4>3
        <5> QED BY <2>5, <4>1, <4>3, <5>1
      <4> QED BY <4>2, <4>3
    <3>3. CASE i \in 1 .. Len(arrived)
      <4>1. arrived'[i] = arrived[i]
        BY <2>1, <3>3
      <4>2. IF arrived[i].of = 0 THEN arrived[i].cmd = "cyclic"
            ELSE /\ HasGone(arrived[i].of) /\ arrived[i].ext2 = asked[arrived[i].of].ext2
                 /\ \A j \in 1 .. Len(arrived) : arrived[j].of = arrived[i].of => i = j
                 /\ \A k \in 1 .. Len(owed') : owed'[k] # arrived[i].of
        BY <1>2, <3>3 DEF RequestInv, WireInv
      <4>3. \A j \in 1 .. Len(arrived') :
               arrived[i].of # 0 /\ arrived'[j].of = arrived[i].of => i = j
        BY <2>1, <2>5, <3>1, <3>3, <4>2
      <4> QED BY <4>1, <4>2, <4>3
    <3> QED BY <3>1, <3>2, <3>3
  <2>8. WireInv'
    BY <1>2, <2>6, <2>7 DEF WireInv, HasGone
  <2> QED BY <2>2, <2>3, <2>4, <2>8 DEF RequestInv
<1> QED BY <1>3, <1>4

LEMMA InterfaceKeeps ==
    ASSUME RequestInv,
           \/ \E kind \in {"reply", "ack", "refusal"} : Replies(kind)
           \/ NeverReplies \/ (\E x \in Selectors : SendsCyclic(x)) \/ Unplugged
    PROVE  RequestInv'
<1>1. owed \in Seq(Nat)
  BY DEF RequestInv, RequestTypes
<1>2. ASSUME owed # <<>>
      PROVE  /\ Tail(owed) \in Seq(Nat) /\ Len(Tail(owed)) + 1 <= Len(owed)
             /\ \A k \in 1 .. Len(Tail(owed)) : Tail(owed)[k] = owed[k + 1]
             /\ Head(owed) = owed[1] /\ owed[1] \in 1 .. Len(asked)
  <2>1. 1 \in 1 .. Len(owed) /\ Head(owed) = owed[1]
    BY <1>1, <1>2
  <2>2. owed[1] \in 1 .. Len(asked)
    BY <2>1 DEF RequestInv, WireInv, HasGone
  <2> QED BY <1>1, <1>2, <2>1, <2>2, HeadTailProperties
<1>3. ASSUME NEW kind \in {"reply", "ack", "refusal"}, Replies(kind)
      PROVE  RequestInv'
  <2> DEFINE n == Head(owed)
             r == [cmd |-> IF kind = "ack" THEN Ack ELSE asked[n].cmd,
                   ext2 |-> asked[n].ext2, flagged |-> kind = "refusal", of |-> n]
  <2>1. /\ owed # <<>> /\ owed' = Tail(owed) /\ arrived' = Append(arrived, r)
        /\ UNCHANGED <<read, worker, asked, pending, outcome, answer, published>>
    BY <1>3 DEF Replies, Arrives, replyVars
  <2>2. n \in Nat /\ asked[n] \in AsksSeen
    BY <1>1, <1>2, <2>1, RequestFacts
  <2>3. r \in ReportsSeen /\ r.of = n /\ r.ext2 = asked[n].ext2
    BY <2>2 DEF ReportsSeen, AsksSeen
  <2> HIDE DEF r
  <2> QED BY <1>2, <2>1, <2>3, WireKeeps
<1>4. CASE NeverReplies
  BY <1>2, <1>4, WireKeeps DEF NeverReplies, replyVars
<1>5. ASSUME NEW x \in Selectors, SendsCyclic(x)
      PROVE  RequestInv'
  <2> DEFINE r == [cmd |-> "cyclic", ext2 |-> x, flagged |-> FALSE, of |-> 0]
  <2>1. /\ owed' = owed /\ arrived' = Append(arrived, r)
        /\ UNCHANGED <<read, worker, asked, pending, outcome, answer, published>>
    BY <1>5 DEF SendsCyclic, Arrives, replyVars
  <2>2. r \in ReportsSeen /\ r.of = 0 /\ r.cmd = "cyclic"
    BY DEF ReportsSeen
  <2> HIDE DEF r
  <2>3. Len(owed') + 0 <= Len(owed) /\ \A k \in 1 .. Len(owed') : owed'[k] = owed[k + 0]
    BY <1>1, <2>1
  <2> QED BY <1>1, <2>1, <2>2, <2>3, WireKeeps
<1>6. CASE Unplugged
  <2>1. /\ owed' = <<>> /\ arrived' = arrived
        /\ UNCHANGED <<read, worker, asked, pending, outcome, answer, published>>
    BY <1>6 DEF Unplugged, replyVars
  <2>2. owed' \in Seq(Nat) /\ Len(owed') + 0 <= Len(owed) /\ Len(owed') = 0
    BY <1>1, <2>1
  <2>3. \A k \in 1 .. Len(owed') : owed'[k] = owed[k + 0]
    BY <2>2
  <2> QED BY <2>1, <2>2, <2>3, WireKeeps
<1> QED BY <1>3, <1>4, <1>5, <1>6

\* Each report once, report by report.
LEMMA OnceByReport ==
    ASSUME NEW n, DOMAIN answer' = 1 .. n, read' \in Nat, published' \subseteq 1 .. read',
           \A m \in 1 .. n : answer'[m] # 0 => answer'[m] \in 1 .. read' /\ answer'[m] \notin published',
           \A x \in 1 .. read' : x \in published' \/ \E m \in 1 .. n : answer'[m] = x,
           \A l, m \in 1 .. n : answer'[l] = answer'[m] /\ answer'[l] # 0 => l = m
    PROVE  EachReportOnce'
<1> DEFINE used == {answer'[m] : m \in 1 .. n} \ {0}
<1>1. published' \cap used = {}
  OBVIOUS
<1>2. published' \cup used \subseteq 1 .. read'
  OBVIOUS
<1>3. \A x \in 1 .. read' : x # 0
  OBVIOUS
<1>4. 1 .. read' \subseteq published' \cup used
  BY <1>3
<1> QED BY <1>1, <1>2, <1>4 DEF EachReportOnce

LEMMA DrainingKeeps ==
    ASSUME RequestInv, DrainEvents
    PROVE  RequestInv'
<1>1. /\ worker = "idle" /\ published' = published \cup (read + 1 .. Len(arrived))
      /\ read' = Len(arrived)
      /\ UNCHANGED <<owed, arrived, worker, asked, outcome, answer>>
  BY DEF DrainEvents, Waiting, wireVars, replyVars
<1>2. RequestTypes'
  <2>1. read' \in 0 .. Len(arrived)
    BY <1>1, RequestFacts
  <2> QED BY <1>1, <2>1 DEF RequestInv, RequestTypes
<1>3. SettledInv' /\ WireInv'
  <2>1. SettledInv'
    BY <1>1 DEF RequestInv, SettledInv
  <2>2. WireInv'
    BY <1>1 DEF RequestInv, WireInv, HasGone
  <2> QED BY <2>1, <2>2
<1>4. EachReportOnce'
  <2>1. \A x \in 1 .. Len(arrived) : x \in 1 .. read \/ x \in read + 1 .. Len(arrived)
    BY RequestFacts
  <2>2. /\ published' \subseteq 1 .. Len(arrived)
        /\ \A x \in 1 .. read : x \notin read + 1 .. Len(arrived)
    BY <1>1, RequestFacts
  <2> QED BY <1>1, <2>1, <2>2, RequestFacts, OnceByReport
<1>5. StaleNeverAnswers' /\ StraysFollowATimeout'
  BY <1>1 DEF RequestInv, StaleNeverAnswers, StraysFollowATimeout
<1> QED BY <1>2, <1>3, <1>4, <1>5 DEF RequestInv

LEMMA TakingKeeps ==
    ASSUME RequestInv, TakeRequest
    PROVE  RequestInv'
<1> DEFINE n == Len(asked) + 1
<1>1. PICK q \in AsksSeen :
        /\ asked' = Append(asked, q) /\ q.seen = Len(arrived)
  <2>1. PICK c \in Cmds, x \in Selectors, rs \in BOOLEAN :
           asked' = Append(asked, [cmd |-> c, ext2 |-> x, returns |-> rs, seen |-> Len(arrived)])
    BY DEF TakeRequest
  <2>2. [cmd |-> c, ext2 |-> x, returns |-> rs, seen |-> Len(arrived)] \in AsksSeen
    BY RequestFacts DEF AsksSeen
  <2> QED BY <2>1, <2>2
<1>2. /\ worker = "idle" /\ worker' = "drained" /\ read' = Len(arrived)
      /\ published' = published \cup (read + 1 .. Len(arrived))
      /\ UNCHANGED <<owed, arrived>>
  BY DEF TakeRequest, Waiting, wireVars
<1>3. /\ asked \in Seq(AsksSeen) /\ outcome \in Seq(Outcomes) /\ Len(outcome) = Len(asked)
      /\ answer \in Seq(Nat) /\ Len(answer) = Len(asked) /\ Len(asked) \in Nat
  BY DEF RequestInv, RequestTypes
<1>4. /\ asked' \in Seq(AsksSeen) /\ Len(asked') = n /\ asked'[n] = q
      /\ \A m \in 1 .. Len(asked) : asked'[m] = asked[m]
  BY <1>1, <1>3, AppendProperties
<1>5. /\ outcome' \in Seq(Outcomes) /\ Len(outcome') = n /\ outcome'[n] = "under way"
      /\ \A m \in 1 .. Len(asked) : outcome'[m] = outcome[m]
  <2>1. /\ "under way" \in Outcomes /\ outcome \in Seq(Outcomes)
        /\ outcome' = Append(outcome, "under way")
    BY <1>3 DEF Outcomes, TakeRequest
  <2>2. \A w \in Outcomes :
           /\ Append(outcome, w) \in Seq(Outcomes) /\ Len(Append(outcome, w)) = Len(outcome) + 1
           /\ Append(outcome, w)[Len(outcome) + 1] = w
           /\ \A m \in 1 .. Len(outcome) : Append(outcome, w)[m] = outcome[m]
    BY <1>3, AppendProperties
  <2>3. /\ outcome' \in Seq(Outcomes) /\ Len(outcome') = Len(outcome) + 1
        /\ outcome'[Len(outcome) + 1] = "under way"
        /\ \A m \in 1 .. Len(outcome) : outcome'[m] = outcome[m]
    BY <2>1, <2>2, Zenon
  <2> QED BY <1>3, <2>3
<1>6. /\ answer' \in Seq(Nat) /\ Len(answer') = n /\ answer'[n] = 0
      /\ \A m \in 1 .. Len(asked) : answer'[m] = answer[m]
  <2>1. 0 \in Nat /\ answer \in Seq(Nat) /\ answer' = Append(answer, 0)
    BY <1>3 DEF TakeRequest
  <2>2. /\ answer' \in Seq(Nat) /\ Len(answer') = Len(answer) + 1
        /\ answer'[Len(answer) + 1] = 0
        /\ \A m \in 1 .. Len(answer) : answer'[m] = answer[m]
    BY <2>1, AppendProperties
  <2> QED BY <1>3, <2>2
<1>7. /\ \A m \in 1 .. n : m = n \/ (m \in 1 .. Len(asked) /\ m < n)
      /\ \A m \in 1 .. Len(asked) : m \in 1 .. n /\ m < n /\ m # n
      /\ n \in 1 .. n /\ n # 0
  BY <1>3
<1> HIDE DEF n
<1>8. RequestTypes'
  <2>1. Len(arrived) \in Nat
    BY RequestFacts
  <2>2. read' \in 0 .. Len(arrived)
    BY <1>2, <2>1
  <2> QED BY <1>2, <1>4, <1>5, <1>6, <2>2 DEF RequestInv, RequestTypes
<1>9. SettledInv'
  <2>1. ASSUME NEW m \in 1 .. n
        PROVE  /\ m < n => outcome'[m] \notin {"under way", "gone"}
               /\ outcome'[m] \in {"matched", "refused"} <=> answer'[m] # 0
               /\ outcome'[m] = "sent" => ~asked'[m].returns
    <3>1. CASE m = n
      <4>1. ~(n < n)
        BY <1>3 DEF n
      <4> QED BY <1>5, <1>6, <3>1, <4>1
    <3>2. CASE m \in 1 .. Len(asked)
      <4>1. outcome'[m] = outcome[m] /\ answer'[m] = answer[m] /\ asked'[m] = asked[m]
        BY <1>4, <1>5, <1>6, <3>2
      <4>2. /\ outcome[m] \notin {"under way", "gone"}
            /\ outcome[m] \in {"matched", "refused"} <=> answer[m] # 0
            /\ outcome[m] = "sent" => ~asked[m].returns
        BY <1>2, <3>2 DEF RequestInv, SettledInv
      <4> QED BY <4>1, <4>2
    <3> QED BY <1>7, <3>1, <3>2
  <2>2. asked' # <<>> /\ asked'[n].seen <= read'
    <3>1. Len(arrived) \in Nat /\ asked'[n].seen = Len(arrived)
      BY <1>1, <1>4, RequestFacts
    <3>2. asked' # <<>>
      BY <1>4, <1>7
    <3> QED BY <1>2, <3>1, <3>2
  <2> QED BY <1>2, <1>4, <1>5, <2>1, <2>2 DEF SettledInv
<1>10. WireInv'
  <2>1. \A m : HasGone(m) => /\ m \in 1 .. n /\ m < n /\ m \in 1 .. Len(asked)
                             /\ asked'[m] = asked[m] /\ asked[m].returns
    BY <1>4, <1>7 DEF HasGone
  <2> QED BY <1>2, <1>4, <2>1 DEF RequestInv, WireInv, HasGone
<1>11. EachReportOnce'
  <2>1. \A x \in 1 .. Len(arrived) : x \in 1 .. read \/ x \in read + 1 .. Len(arrived)
    BY RequestFacts
  <2>2. /\ published' \subseteq 1 .. Len(arrived)
        /\ \A x \in 1 .. read : x \notin read + 1 .. Len(arrived) /\ x \in 1 .. Len(arrived)
    <3>1. /\ read \in Nat /\ Len(arrived) \in Nat /\ read <= Len(arrived)
          /\ published \subseteq 1 .. read
      BY RequestFacts
    <3>2. published \cup (read + 1 .. Len(arrived)) \subseteq 1 .. Len(arrived)
      <4>1. \A x : x \in 1 .. read \/ x \in read + 1 .. Len(arrived) => x \in 1 .. Len(arrived)
        BY <3>1
      <4> QED BY <3>1, <4>1, Zenon
    <3>3. \A x \in 1 .. read : x \notin read + 1 .. Len(arrived) /\ x \in 1 .. Len(arrived)
      BY <3>1
    <3> QED BY <1>2, <3>2, <3>3, Zenon
  <2>3. \A m \in 1 .. n : answer'[m] # 0 => m \in 1 .. Len(asked) /\ answer'[m] = answer[m]
    BY <1>6, <1>7
  <2>4. \A x \in 1 .. Len(arrived) : x \in published' \/ \E m \in 1 .. n : answer'[m] = x
    BY <1>2, <1>6, <1>7, <2>1, RequestFacts
  <2>5. \A m \in 1 .. n : answer'[m] # 0 => answer'[m] \in 1 .. Len(arrived) /\ answer'[m] \notin published'
    BY <1>2, <2>2, <2>3, RequestFacts
  <2>6. \A l, m \in 1 .. n : answer'[l] = answer'[m] /\ answer'[l] # 0 => l = m
    BY <2>3, RequestFacts
  <2>7. DOMAIN answer' = 1 .. n
    BY <1>6
  <2> QED BY <1>2, <2>2, <2>4, <2>5, <2>6, <2>7, RequestFacts, OnceByReport
<1>12. StaleNeverAnswers' /\ StraysFollowATimeout'
  <2>1. DOMAIN answer' = 1 .. n /\ DOMAIN answer = 1 .. Len(asked)
    BY <1>3, <1>6
  <2>2. StaleNeverAnswers'
    BY <1>4, <1>6, <1>7, <2>1 DEF RequestInv, StaleNeverAnswers
  <2>3. ASSUME NEW m \in 1 .. n, answer'[m] # 0
        PROVE  LET l == arrived'[answer'[m]].of
               IN  l = m \/ /\ l < m /\ \E k \in 1 .. l : outcome'[k] = "timeout"
                            /\ asked'[l].ext2 = asked'[m].ext2
    <3> DEFINE l == arrived[answer[m]].of
    <3>1. m \in 1 .. Len(asked) /\ answer[m] # 0 /\ arrived'[answer'[m]].of = l
      BY <1>2, <1>6, <1>7, <2>3
    <3>2. \/ l = m
          \/ l < m /\ (\E k \in 1 .. l : outcome[k] = "timeout") /\ asked[l].ext2 = asked[m].ext2
      BY <2>1, <3>1 DEF RequestInv, StraysFollowATimeout
    <3>3. l \in Nat
      BY <3>1, RequestFacts
    <3>4. ASSUME l < m, NEW k \in 1 .. l
          PROVE  k \in 1 .. Len(asked) /\ l \in 1 .. Len(asked)
      BY <1>3, <3>1, <3>3, <3>4
    <3> QED BY <1>4, <1>5, <3>1, <3>2, <3>4
  <2> QED BY <2>1, <2>2, <2>3 DEF StraysFollowATimeout
<1> QED BY <1>8, <1>9, <1>10, <1>11, <1>12 DEF RequestInv

\* What settling a request under way does to its outcome and its answer.
LEMMA Settled ==
    ASSUME RequestInv, worker \in {"drained", "waiting"}, NEW what \in Outcomes, NEW by \in Nat,
           Settle(what, by)
    PROVE  /\ outcome' \in Seq(Outcomes) /\ Len(outcome') = Len(asked)
           /\ answer' \in Seq(Nat) /\ Len(answer') = Len(asked)
           /\ Len(asked) \in 1 .. Len(asked)
           /\ outcome[Len(asked)] = "under way" /\ answer[Len(asked)] = 0
           /\ outcome'[Len(asked)] = what /\ answer'[Len(asked)] = by
           /\ \A m \in 1 .. Len(asked) :
                 m # Len(asked) => outcome'[m] = outcome[m] /\ answer'[m] = answer[m]
           /\ asked[Len(asked)].seen <= read
<1>1. /\ outcome \in Seq(Outcomes) /\ Len(outcome) = Len(asked) /\ Len(asked) \in Nat
      /\ answer \in Seq(Nat) /\ Len(answer) = Len(asked) /\ asked \in Seq(AsksSeen)
  BY DEF RequestInv, RequestTypes
<1>2. asked # <<>> /\ outcome[Len(asked)] = "under way" /\ asked[Len(asked)].seen <= read
  BY DEF RequestInv, SettledInv
<1>3. Len(asked) \in 1 .. Len(asked)
  <2>1. asked \in Seq(AsksSeen) /\ asked # <<>>
    BY <1>1, <1>2
  <2>2. Len(asked) \in Nat /\ Len(asked) # 0
    BY <2>1
  <2> QED BY <2>2
<1>4. answer[Len(asked)] = 0
  BY <1>2, <1>3 DEF RequestInv, SettledInv
<1>5. outcome' = [outcome EXCEPT ![Len(asked)] = what] /\ answer' = [answer EXCEPT ![Len(asked)] = by]
  BY DEF Settle
<1>6. /\ \A w \in Outcomes : [outcome EXCEPT ![Len(asked)] = w] \in Seq(Outcomes)
      /\ \A w \in Outcomes : Len([outcome EXCEPT ![Len(asked)] = w]) = Len(outcome)
      /\ \A w \in Nat : [answer EXCEPT ![Len(asked)] = w] \in Seq(Nat)
      /\ \A w \in Nat : Len([answer EXCEPT ![Len(asked)] = w]) = Len(answer)
  BY <1>1, <1>3, ExceptSeq
<1>7. DOMAIN outcome = 1 .. Len(asked) /\ DOMAIN answer = 1 .. Len(asked)
  BY <1>1
<1>8. /\ outcome' \in Seq(Outcomes) /\ Len(outcome') = Len(asked)
      /\ answer' \in Seq(Nat) /\ Len(answer') = Len(asked)
  BY <1>1, <1>5, <1>6, Zenon
<1>9. /\ outcome'[Len(asked)] = what /\ answer'[Len(asked)] = by
      /\ \A m \in 1 .. Len(asked) :
            m # Len(asked) => outcome'[m] = outcome[m] /\ answer'[m] = answer[m]
  BY <1>3, <1>5, <1>7, Zenon
<1> QED BY <1>2, <1>3, <1>4, <1>8, <1>9

\* Of the last of a row, and of what comes after a place in one.
LEMMA OfTheLast ==
    ASSUME NEW n \in Nat
    PROVE  /\ ~(n < n) /\ \A m \in 1 .. n : m < n \/ m = n
           /\ \A l \in Nat, m \in 1 .. n : l < m => \A k \in 1 .. l : k \in 1 .. n
OBVIOUS

LEMMA After ==
    ASSUME NEW r \in Nat, NEW l \in Nat, NEW b \in r + 1 .. l
    PROVE  /\ b \in 1 .. l /\ b \notin 1 .. r /\ b # 0
           /\ \A s \in Nat : s <= r => b > s
OBVIOUS

\* A request that comes to its end.
LEMMA SettlingKeeps ==
    ASSUME RequestInv, worker \in {"drained", "waiting"}, UNCHANGED <<arrived, owed, asked>>,
           NEW what \in Outcomes, NEW by \in Nat, Settle(what, by),
           what # "under way", worker' \in {"idle", "ended"}, what = "gone" => worker' = "ended",
           what \in {"matched", "refused"} <=> by # 0, what = "sent" => ~asked[Len(asked)].returns,
           read' \in 0 .. Len(arrived), EachReportOnce', by = 0 \/ by \in read + 1 .. Len(arrived),
           by # 0 =>
              LET l == arrived[by].of
              IN  l = Len(asked) \/ /\ l < Len(asked) /\ \E k \in 1 .. l : outcome[k] = "timeout"
                                    /\ asked[l].ext2 = asked[Len(asked)].ext2
    PROVE  RequestInv'
<1> DEFINE n == Len(asked)
<1>1. /\ outcome' \in Seq(Outcomes) /\ Len(outcome') = n
      /\ answer' \in Seq(Nat) /\ Len(answer') = n
      /\ n \in 1 .. n /\ outcome[n] = "under way" /\ answer[n] = 0
      /\ outcome'[n] = what /\ answer'[n] = by
      /\ \A m \in 1 .. n : m # n => outcome'[m] = outcome[m] /\ answer'[m] = answer[m]
      /\ asked[n].seen <= read
  BY Settled
<1>2. n \in Nat /\ DOMAIN answer = 1 .. n
  BY RequestFacts
<1> HIDE DEF n
<1>3. DOMAIN answer' = 1 .. n /\ DOMAIN answer = 1 .. n
  <2>1. answer' \in Seq(Nat) /\ Len(answer') = n
    BY <1>1
  <2>2. DOMAIN answer' = 1 .. n
    BY ONLY <2>1
  <2> QED BY <1>2, <2>2
<1>4. worker' \notin {"drained", "waiting"}
  OBVIOUS
<1>10. /\ n \in Nat /\ ~(n < n) /\ \A m \in 1 .. n : m < n \/ m = n
       /\ \A l \in Nat, m \in 1 .. n : l < m => \A k \in 1 .. l : k \in 1 .. n
  BY <1>2, OfTheLast
<1>5. RequestTypes'
  BY <1>1 DEF RequestInv, RequestTypes, n
<1>6. SettledInv'
  <2>1. ASSUME NEW m \in 1 .. n
        PROVE  /\ m < n \/ worker' = "idle" => outcome'[m] \notin {"under way", "gone"}
               /\ outcome'[m] \in {"matched", "refused"} <=> answer'[m] # 0
               /\ outcome'[m] = "sent" => ~asked[m].returns
    <3>1. CASE m = n
      <4>1. ~(m < n) /\ outcome'[m] = what /\ answer'[m] = by
        BY <1>1, <1>10, <3>1
      <4>2. what = "sent" => ~asked[m].returns
        BY <3>1 DEF n
      <4>3. worker' = "idle" => what \notin {"under way", "gone"}
        OBVIOUS
      <4> QED BY <4>1, <4>2, <4>3
    <3>2. CASE m # n
      <4>1. outcome'[m] = outcome[m] /\ answer'[m] = answer[m]
        BY <1>1, <3>2
      <4>2. m < n
        BY <1>10, <3>2
      <4>3. /\ outcome[m] \notin {"under way", "gone"}
            /\ outcome[m] \in {"matched", "refused"} <=> answer[m] # 0
            /\ outcome[m] = "sent" => ~asked[m].returns
        BY <4>2 DEF RequestInv, SettledInv, n
      <4> QED BY <4>1, <4>3
    <3> QED BY <3>1, <3>2
  <2> QED BY <1>4, <2>1 DEF SettledInv, n
<1>7. WireInv'
  <2>1. WireInv /\ UNCHANGED <<owed, arrived, asked>>
    BY DEF RequestInv
  <2>2. owed' = owed /\ arrived' = arrived /\ asked' = asked
    BY <2>1
  <2>3. ASSUME NEW m, HasGone(m)
        PROVE  m \in 1 .. Len(asked') /\ (worker' = "drained" => m < Len(asked')) /\ asked'[m].returns
    BY <1>4, <2>2, <2>3 DEF HasGone
  <2>4. \A k \in 1 .. Len(owed') :
           /\ owed'[k] \in 1 .. Len(asked') /\ (worker' = "drained" => owed'[k] < Len(asked'))
           /\ asked'[owed'[k]].returns
    BY <2>1, <2>2, <2>3 DEF WireInv
  <2>5. \A k, l \in 1 .. Len(owed') : owed'[k] = owed'[l] => k = l
    BY <2>1, <2>2 DEF WireInv
  <2>6. ASSUME NEW i \in 1 .. Len(arrived')
        PROVE  IF arrived'[i].of = 0 THEN arrived'[i].cmd = "cyclic"
               ELSE /\ arrived'[i].of \in 1 .. Len(asked')
                    /\ (worker' = "drained" => arrived'[i].of < Len(asked'))
                    /\ asked'[arrived'[i].of].returns
                    /\ arrived'[i].ext2 = asked'[arrived'[i].of].ext2
                    /\ \A j \in 1 .. Len(arrived') : arrived'[j].of = arrived'[i].of => i = j
                    /\ \A k \in 1 .. Len(owed') : owed'[k] # arrived'[i].of
    <3>1. CASE arrived[i].of = 0
      BY <2>1, <2>2, <3>1 DEF WireInv
    <3>2. CASE arrived[i].of # 0
      <4>1. /\ HasGone(arrived[i].of) /\ arrived[i].ext2 = asked[arrived[i].of].ext2
            /\ \A j \in 1 .. Len(arrived) : arrived[j].of = arrived[i].of => i = j
            /\ \A k \in 1 .. Len(owed) : owed[k] # arrived[i].of
        BY <2>1, <2>2, <3>2 DEF WireInv
      <4> QED BY <2>2, <2>3, <3>2, <4>1
    <3> QED BY <3>1, <3>2
  <2> QED BY <2>4, <2>5, <2>6 DEF WireInv, HasGone
<1>8. StaleNeverAnswers'
  <2>1. ASSUME NEW m \in 1 .. n, answer'[m] # 0
        PROVE  answer'[m] > asked[m].seen
    <3>1. CASE m = n
      <4>1. asked[n].seen \in Nat /\ asked[n].seen <= read /\ read \in Nat
        <5>1. asked[n] \in AsksSeen /\ read \in Nat
          BY <1>1, RequestFacts DEF n
        <5> QED BY <1>1, <5>1 DEF AsksSeen
      <4>2. by \in read + 1 .. Len(arrived) /\ Len(arrived) \in Nat
        BY <1>1, <2>1, <3>1, RequestFacts
      <4>3. by > asked[n].seen
        BY <4>1, <4>2, After, Zenon
      <4> QED BY <1>1, <3>1, <4>3
    <3>2. CASE m # n
      <4>1. answer'[m] = answer[m] /\ answer[m] # 0
        BY <1>1, <2>1, <3>2
      <4>2. answer[m] > asked[m].seen
        BY <1>3, <4>1 DEF RequestInv, StaleNeverAnswers
      <4> QED BY <4>1, <4>2, Zenon
    <3> QED BY <3>1, <3>2
  <2> QED BY <1>3, <2>1 DEF StaleNeverAnswers
<1>9. StraysFollowATimeout'
  <2>1. \A k \in 1 .. n : outcome[k] = "timeout" => outcome'[k] = "timeout"
    BY <1>1
  <2>2. ASSUME NEW m \in 1 .. n, answer'[m] # 0
        PROVE  LET l == arrived[answer'[m]].of
               IN  l = m \/ /\ l < m /\ \E k \in 1 .. l : outcome'[k] = "timeout"
                            /\ asked[l].ext2 = asked[m].ext2
    <3> DEFINE l == arrived[answer'[m]].of
    <3>1. \/ l = m
          \/ l < m /\ (\E k \in 1 .. l : outcome[k] = "timeout") /\ asked[l].ext2 = asked[m].ext2
      <4>1. CASE m = n
        <5>1. answer'[m] = by /\ by # 0
          BY <1>1, <2>2, <4>1
        <5> QED BY <4>1, <5>1 DEF n
      <4>2. CASE m # n
        <5>1. answer'[m] = answer[m] /\ answer[m] # 0
          BY <1>1, <2>2, <4>2
        <5> QED BY <1>3, <5>1 DEF RequestInv, StraysFollowATimeout
      <4> QED BY <4>1, <4>2
    <3>2. ASSUME l < m, l \in Nat, NEW k \in 1 .. l
          PROVE  k \in 1 .. n
      BY <1>10, <3>2, Zenon
    <3>3. l \in Nat
      <4>1. CASE m = n
        <5>1. answer'[m] = by /\ by # 0
          BY <1>1, <2>2, <4>1
        <5>2. by \in 1 .. Len(arrived)
          <6>1. read \in Nat /\ Len(arrived) \in Nat
            BY RequestFacts
          <6>2. by \in read + 1 .. Len(arrived)
            BY <5>1
          <6> QED BY <6>1, <6>2, After
        <5> QED BY <5>1, <5>2, RequestFacts
      <4>2. CASE m # n
        <5>1. answer'[m] = answer[m] /\ answer[m] # 0
          BY <1>1, <2>2, <4>2
        <5> QED BY <5>1, RequestFacts DEF n
      <4> QED BY <4>1, <4>2
    <3> QED BY <2>1, <3>1, <3>2, <3>3
  <2> QED BY <1>3, <2>2 DEF StraysFollowATimeout
<1> QED BY <1>5, <1>6, <1>7, <1>8, <1>9 DEF RequestInv

\* A request that ends with no answer, and nothing read meanwhile.
LEMMA UnansweredKeeps ==
    ASSUME RequestInv, worker \in {"drained", "waiting"},
           UNCHANGED <<arrived, owed, asked, read, published>>,
           NEW what \in {"sent", "timeout", "gone"}, Settle(what, 0), worker' \in {"idle", "ended"},
           what = "gone" => worker' = "ended", what = "sent" => ~asked[Len(asked)].returns
    PROVE  RequestInv'
<1>1. what \in Outcomes /\ 0 \in Nat
  BY DEF Outcomes
<1>2. /\ answer' \in Seq(Nat) /\ Len(answer') = Len(asked)
      /\ \A m \in 1 .. Len(asked) : answer'[m] = answer[m]
  BY <1>1, Settled
<1>3. DOMAIN answer' = 1 .. Len(asked)
  BY ONLY <1>2
<1>4. EachReportOnce'
  BY <1>2, <1>3, RequestFacts, OnceByReport
<1>5. read' \in 0 .. Len(arrived)
  BY DEF RequestInv, RequestTypes
<1> QED BY <1>1, <1>4, <1>5, SettlingKeeps

\* What is written out and wants a reply is owed from then on.
LEMMA OwingKeeps ==
    ASSUME RequestInv, worker = "drained", worker' = "waiting", asked[Len(asked)].returns,
           owed' = Append(owed, Len(asked)), pending' = Len(asked),
           UNCHANGED <<arrived, read, asked, outcome, answer, published>>
    PROVE  RequestInv'
<1> DEFINE n == Len(asked)
<1>1. n \in Nat /\ owed \in Seq(Nat) /\ Len(owed) \in Nat
  BY DEF RequestInv, RequestTypes
<1>2. n \in 1 .. n
  <2>1. asked # <<>> /\ asked \in Seq(AsksSeen)
    BY DEF RequestInv, RequestTypes, SettledInv
  <2>2. n # 0
    BY <2>1
  <2> QED BY <1>1, <2>2
<1>3. /\ owed' \in Seq(Nat) /\ Len(owed') = Len(owed) + 1 /\ owed'[Len(owed) + 1] = n
      /\ \A k \in 1 .. Len(owed) : owed'[k] = owed[k]
  BY <1>1, AppendProperties
<1>4. \A k \in 1 .. Len(owed') : k \in 1 .. Len(owed) \/ k = Len(owed) + 1
  BY <1>1, <1>3
<1>5. RequestTypes' /\ SettledInv'
  BY <1>3 DEF RequestInv, RequestTypes, SettledInv
<1>6. EachReportOnce' /\ StaleNeverAnswers' /\ StraysFollowATimeout'
  BY DEF RequestInv, EachReportOnce, StaleNeverAnswers, StraysFollowATimeout
<1>7. \A m : HasGone(m) => m # n /\ m \in 1 .. Len(asked) /\ asked[m].returns
  BY <1>1 DEF HasGone
<1>8. /\ \A k \in 1 .. Len(owed) : HasGone(owed[k])
      /\ \A k, l \in 1 .. Len(owed) : owed[k] = owed[l] => k = l
      /\ \A i \in 1 .. Len(arrived) :
            IF arrived[i].of = 0 THEN arrived[i].cmd = "cyclic"
            ELSE /\ HasGone(arrived[i].of) /\ arrived[i].ext2 = asked[arrived[i].of].ext2
                 /\ \A j \in 1 .. Len(arrived) : arrived[j].of = arrived[i].of => i = j
                 /\ \A k \in 1 .. Len(owed) : owed[k] # arrived[i].of
  BY DEF RequestInv, WireInv
<1>9. \A k \in 1 .. Len(owed') : owed'[k] \in 1 .. Len(asked) /\ asked[owed'[k]].returns
  BY <1>2, <1>3, <1>4, <1>7, <1>8
<1>10. \A k, l \in 1 .. Len(owed') : owed'[k] = owed'[l] => k = l
  BY <1>3, <1>4, <1>7, <1>8
<1>11. \A i \in 1 .. Len(arrived) :
          arrived[i].of # 0 => \A k \in 1 .. Len(owed') : owed'[k] # arrived[i].of
  BY <1>3, <1>4, <1>7, <1>8
<1>12. WireInv'
  BY <1>7, <1>8, <1>9, <1>10, <1>11 DEF WireInv, HasGone
<1> QED BY <1>5, <1>6, <1>12 DEF RequestInv

LEMMA ReportingKeeps ==
    ASSUME RequestInv, SendReport
    PROVE  RequestInv'
<1>1. /\ worker = "drained" /\ pending' = Len(asked)
      /\ UNCHANGED <<arrived, read, asked, published>>
  BY DEF SendReport
<1>2. CASE ~alive
  <2>1. worker' = "ended" /\ Settle("gone", 0) /\ UNCHANGED owed
    BY <1>2 DEF SendReport
  <2> QED BY <1>1, <2>1, UnansweredKeeps
<1>3. CASE alive /\ asked[Len(asked)].returns
  <2>1. worker' = "waiting" /\ owed' = Append(owed, Len(asked)) /\ UNCHANGED <<outcome, answer>>
    BY <1>3 DEF SendReport, replyVars
  <2> QED BY <1>1, <1>3, <2>1, OwingKeeps
<1>4. CASE alive /\ ~asked[Len(asked)].returns
  <2>1. worker' = "idle" /\ Settle("sent", 0) /\ UNCHANGED owed
    BY <1>4 DEF SendReport
  <2> QED BY <1>1, <1>4, <2>1, UnansweredKeeps
<1> QED BY <1>2, <1>3, <1>4

\* A reply that answers a request it is not the reply to was left over, and
\* the requests from its own on were each given another's.
LEMMA StrayHasATimeout ==
    ASSUME RequestInv, worker = "waiting", NEW i \in Answering
    PROVE  LET m == arrived[i].of
           IN  m = Len(asked) \/ /\ m < Len(asked) /\ \E k \in 1 .. m : outcome[k] = "timeout"
                                 /\ asked[m].ext2 = asked[Len(asked)].ext2
<1> DEFINE m == arrived[i].of
           n == Len(asked)
<1>1. /\ read \in Nat /\ Len(arrived) \in Nat /\ n \in Nat /\ i \in read + 1 .. Len(arrived)
      /\ read <= Len(arrived)
  BY RequestFacts DEF Answering, Waiting
<1>2. i \in 1 .. Len(arrived) /\ i \notin 1 .. read
  BY <1>1, After
<1>3. pending = n /\ n \in 1 .. n
  <2>1. asked # <<>> /\ asked \in Seq(AsksSeen) /\ pending = n
    BY DEF RequestInv, RequestTypes, SettledInv
  <2>2. n # 0
    BY <2>1
  <2> QED BY <1>1, <2>1, <2>2
<1>4. arrived[i].cmd \in {Ack, asked[n].cmd} /\ arrived[i].ext2 = asked[n].ext2
  BY <1>3 DEF Answering, Answers, IsValidResponse, IsRefusal
<1>5. asked[n].cmd \in Cmds
  <2>1. asked[n] \in AsksSeen
    BY <1>3, RequestFacts
  <2> QED BY <2>1 DEF AsksSeen
<1>6. arrived[i].cmd # "cyclic"
  BY <1>4, <1>5 DEF Ack
<1>7. /\ HasGone(m) /\ asked[m].ext2 = asked[n].ext2
      /\ \A j \in 1 .. Len(arrived) : arrived[j].of = m => i = j
  BY <1>2, <1>4, <1>6 DEF RequestInv, WireInv
<1>8. m \in 1 .. n /\ asked[m].returns
  BY <1>7 DEF HasGone
<1>9. ASSUME m < n
      PROVE  \E k \in 1 .. m : outcome[k] = "timeout"
  <2>1. /\ outcome[m] \notin {"under way", "gone"} /\ outcome[m] # "sent"
        /\ outcome[m] \in {"matched", "refused"} <=> answer[m] # 0
    BY <1>8, <1>9 DEF RequestInv, SettledInv
  <2>2. outcome[m] \in {"matched", "refused", "timeout"}
    <3>1. outcome[m] \in Outcomes
      BY <1>8, RequestFacts
    <3> QED BY <2>1, <3>1 DEF Outcomes
  <2>3. m \in 1 .. m
    BY <1>1, <1>8
  <2>4. CASE outcome[m] = "timeout"
    BY <2>3, <2>4
  <2>5. CASE outcome[m] # "timeout"
    <3>1. answer[m] # 0
      BY <2>1, <2>2, <2>5
    <3>2. answer[m] \in 1 .. read /\ answer[m] \in 1 .. Len(arrived)
      BY <1>8, <3>1, RequestFacts
    <3>3. arrived[answer[m]].of # m
      BY <1>2, <1>7, <3>2
    <3>4. DOMAIN answer = 1 .. n
      BY RequestFacts
    <3>5. /\ arrived[answer[m]].of < m
          /\ \E k \in 1 .. arrived[answer[m]].of : outcome[k] = "timeout"
      BY <1>8, <3>1, <3>3, <3>4 DEF RequestInv, StraysFollowATimeout
    <3>6. arrived[answer[m]].of \in Nat
      BY <3>2, RequestFacts
    <3>7. \A k \in 1 .. arrived[answer[m]].of : k \in 1 .. m
      BY <1>1, <1>8, <3>5, <3>6
    <3> QED BY <3>5, <3>7
  <2> QED BY <2>4, <2>5
<1>10. m = n \/ m < n
  BY <1>1, <1>8
<1> QED BY <1>7, <1>9, <1>10

LEMMA PumpingKeeps ==
    ASSUME RequestInv, Pump
    PROVE  RequestInv'
<1>1. /\ worker = "waiting" /\ read' = Len(arrived) /\ UNCHANGED <<arrived, owed, asked>>
      /\ published' = published \cup ((read + 1 .. Len(arrived)) \ Answering)
  BY DEF Pump, Waiting, wireVars
<1>2. /\ read \in Nat /\ Len(arrived) \in Nat /\ read <= Len(arrived) /\ Len(asked) \in Nat
      /\ published \subseteq 1 .. read
  BY RequestFacts
<1>3. read' \in 0 .. Len(arrived)
  <2>1. Len(arrived) \in 0 .. Len(arrived)
    BY <1>2
  <2> QED BY <1>1, <2>1
<1>4. /\ \A x \in read + 1 .. Len(arrived) : x \in 1 .. Len(arrived) /\ x \notin 1 .. read /\ x # 0
      /\ \A x \in 1 .. read : x \in 1 .. Len(arrived) /\ x \notin read + 1 .. Len(arrived)
      /\ \A x \in 1 .. Len(arrived) : x \in 1 .. read \/ x \in read + 1 .. Len(arrived)
  BY <1>2
<1>5. published' \subseteq 1 .. Len(arrived)
  <2>1. published \subseteq 1 .. Len(arrived) /\ read + 1 .. Len(arrived) \subseteq 1 .. Len(arrived)
    BY <1>2, <1>4, Zenon
  <2> QED BY <1>1, <2>1, Zenon
<1>6. CASE Answering = {}
  <2>1. UNCHANGED <<worker, pending, outcome, answer>>
    BY <1>6 DEF Pump, replyVars
  <2>2. EachReportOnce'
    <3>1. DOMAIN answer' = 1 .. Len(asked)
      BY <2>1, RequestFacts
    <3>2. \A m \in 1 .. Len(asked) :
             answer'[m] # 0 => answer'[m] \in 1 .. Len(arrived) /\ answer'[m] \notin published'
      BY <1>1, <1>4, <2>1, RequestFacts
    <3>3. \A x \in 1 .. Len(arrived) : x \in published' \/ \E m \in 1 .. Len(asked) : answer'[m] = x
      BY <1>1, <1>4, <1>6, <2>1, RequestFacts
    <3>4. \A l, m \in 1 .. Len(asked) : answer'[l] = answer'[m] /\ answer'[l] # 0 => l = m
      BY <2>1, RequestFacts
    <3> QED BY <1>1, <1>2, <1>5, <3>1, <3>2, <3>3, <3>4, OnceByReport
  <2>3. RequestTypes'
    BY <1>1, <1>3, <2>1 DEF RequestInv, RequestTypes
  <2>4. SettledInv'
    <3>1. asked[Len(asked)].seen \in Nat /\ asked[Len(asked)].seen <= read
      <4>1. asked \in Seq(AsksSeen) /\ asked # <<>> /\ asked[Len(asked)].seen <= read
        BY <1>1 DEF RequestInv, RequestTypes, SettledInv
      <4>2. Len(asked) \in 1 .. Len(asked)
        BY ONLY <4>1
      <4>3. asked[Len(asked)] \in AsksSeen
        BY <4>2, RequestFacts
      <4> QED BY <4>1, <4>3 DEF AsksSeen
    <3>2. asked[Len(asked)].seen <= Len(arrived)
      BY <1>2, <3>1
    <3>3. asked'[Len(asked')].seen <= read'
      BY <1>1, <3>2, Zenon
    <3> QED BY <1>1, <2>1, <3>3 DEF RequestInv, SettledInv
  <2>5. WireInv' /\ StaleNeverAnswers' /\ StraysFollowATimeout'
    BY <1>1, <2>1 DEF RequestInv, WireInv, HasGone, StaleNeverAnswers, StraysFollowATimeout
  <2> QED BY <2>2, <2>3, <2>4, <2>5 DEF RequestInv
<1>7. ASSUME NEW i \in Answering, worker' = "idle",
             Settle(IF arrived[i].flagged THEN "refused" ELSE "matched", i)
      PROVE  RequestInv'
  <2> DEFINE what == IF arrived[i].flagged THEN "refused" ELSE "matched"
  <2>1. what \in {"refused", "matched"} /\ what \in Outcomes
    BY DEF Outcomes
  <2>2. i \in read + 1 .. Len(arrived)
    BY DEF Answering, Waiting
  <2>3. \A j \in Answering : i <= j /\ j <= i /\ j \in read + 1 .. Len(arrived)
    BY DEF Answering, Waiting
  <2>4. Answering = {i}
    <3>1. \A j \in Answering : j = i
      BY <1>2, <2>2, <2>3
    <3> QED BY <3>1
  <2>5. i \in Nat /\ i # 0 /\ i \in 1 .. Len(arrived) /\ i \notin 1 .. read
    BY <1>2, <1>4, <2>2
  <2> HIDE DEF what
  <2>6. Settle(what, i)
    BY <1>7 DEF what
  <2>7. /\ answer' \in Seq(Nat) /\ Len(answer') = Len(asked)
        /\ Len(asked) \in 1 .. Len(asked) /\ answer'[Len(asked)] = i /\ answer[Len(asked)] = 0
        /\ \A m \in 1 .. Len(asked) : m # Len(asked) => answer'[m] = answer[m]
    BY <1>1, <2>1, <2>5, <2>6, Settled
  <2>8. EachReportOnce'
    <3>1. DOMAIN answer' = 1 .. Len(asked)
      BY ONLY <2>7
    <3>2. published' = published \cup ((read + 1 .. Len(arrived)) \ {i})
      BY <1>1, <2>4
    <3>3. i \notin published'
      BY <1>2, <2>5, <3>2
    <3>4. \A m \in 1 .. Len(asked) :
             answer[m] # 0 => /\ answer[m] \in 1 .. read /\ answer[m] \in 1 .. Len(arrived)
                              /\ answer[m] \notin published' /\ answer[m] # i
      BY <1>4, <2>5, <3>2, RequestFacts
    <3>5. ASSUME NEW m \in 1 .. Len(asked), answer'[m] # 0
          PROVE  answer'[m] \in 1 .. Len(arrived) /\ answer'[m] \notin published'
      BY <2>5, <2>7, <3>3, <3>4, <3>5
    <3>6. ASSUME NEW x \in 1 .. Len(arrived)
          PROVE  x \in published' \/ \E m \in 1 .. Len(asked) : answer'[m] = x
      <4>1. CASE x = i
        BY <2>7, <4>1
      <4>2. CASE x \in 1 .. read
        <5>1. x \in published \/ \E m \in 1 .. Len(asked) : answer[m] = x
          BY <4>2, RequestFacts
        <5>2. x # 0
          BY <4>2
        <5> QED BY <2>7, <3>2, <5>1, <5>2
      <4>3. CASE x \in read + 1 .. Len(arrived) /\ x # i
        BY <3>2, <4>3
      <4> QED BY <1>4, <4>1, <4>2, <4>3
    <3>7. ASSUME NEW l \in 1 .. Len(asked), NEW m \in 1 .. Len(asked),
                 answer'[l] = answer'[m], answer'[l] # 0
          PROVE  l = m
      <4>1. \A k \in 1 .. Len(asked) :
               answer'[k] = i \/ (answer'[k] = answer[k] /\ k # Len(asked))
        BY <2>7
      <4>2. CASE answer'[l] = i
        BY <2>7, <3>4, <3>7, <4>2
      <4>3. CASE answer'[l] # i
        <5>1. answer[l] = answer[m] /\ answer[l] # 0
          BY <3>7, <4>1, <4>3
        <5> QED BY <5>1, RequestFacts
      <4> QED BY <4>2, <4>3
    <3> QED BY <1>1, <1>2, <1>5, <3>1, <3>5, <3>6, <3>7, OnceByReport
  <2> QED BY <1>1, <1>3, <1>7, <2>1, <2>2, <2>5, <2>6, <2>8, StrayHasATimeout, SettlingKeeps
<1>8. CASE Answering # {}
  <2>1. \E i \in Answering :
           /\ Settle(IF arrived[i].flagged THEN "refused" ELSE "matched", i)
           /\ worker' = "idle"
    BY <1>8 DEF Pump
  <2> QED BY <1>7, <2>1
<1> QED BY <1>6, <1>8

LEMMA RequestStep == RequestInv /\ [RequestsNext]_requestVars => RequestInv'
<1> SUFFICES ASSUME RequestInv, [RequestsNext]_requestVars
             PROVE  RequestInv'
  OBVIOUS
<1>1. CASE \/ \E kind \in {"reply", "ack", "refusal"} : Replies(kind)
           \/ NeverReplies \/ (\E x \in Selectors : SendsCyclic(x)) \/ Unplugged
  BY <1>1, InterfaceKeeps
<1>2. CASE Timeout
  <2>1. /\ worker = "waiting" /\ worker' = "idle" /\ Settle("timeout", 0)
        /\ UNCHANGED <<arrived, owed, asked, read, published>>
    BY <1>2 DEF Timeout, wireVars
  <2> QED BY <2>1, UnansweredKeeps
<1>3. ASSUME UNCHANGED <<arrived, owed, asked, read, published, outcome, answer>>,
             worker' \in {worker, "ended"}, worker' = "waiting" => pending' = pending,
             worker = "idle" \/ worker' = worker
      PROVE  RequestInv'
  <2>1. RequestTypes' /\ SettledInv'
    BY <1>3 DEF RequestInv, RequestTypes, SettledInv
  <2>2. WireInv'
    BY <1>3 DEF RequestInv, WireInv, HasGone
  <2>3. EachReportOnce' /\ StaleNeverAnswers' /\ StraysFollowATimeout'
    BY <1>3 DEF RequestInv, EachReportOnce, StaleNeverAnswers, StraysFollowATimeout
  <2> QED BY <2>1, <2>2, <2>3 DEF RequestInv
<1>4. CASE FoundGone
  <2>1. worker' = "ended" /\ UNCHANGED <<arrived, owed, asked, read, pending, published>>
    BY <1>4 DEF FoundGone, wireVars
  <2>2. CASE worker = "waiting" /\ Settle("gone", 0)
    BY <2>1, <2>2, UnansweredKeeps
  <2>3. CASE worker = "idle" /\ UNCHANGED replyVars
    BY <1>3, <2>1, <2>3 DEF replyVars
  <2> QED BY <1>4, <2>2, <2>3 DEF FoundGone
<1>5. CASE RequestsEnd \/ UNCHANGED requestVars
  BY <1>3, <1>5 DEF RequestsEnd, requestVars, wireVars, replyVars
<1> QED BY <1>1, <1>2, <1>4, <1>5, DrainingKeeps, TakingKeeps, ReportingKeeps, PumpingKeeps
        DEF RequestsNext, ServeRequest

LEMMA RequestAlways == RequestsSpec => []RequestInv
BY RequestsStart, RequestStep, PTL DEF RequestsSpec

\* Each report that was read has answered one request or been told to the
\* clients, never both and never twice (worker.rs, pump: "published as
\* device-initiated events rather than discarded").
THEOREM ReadOnce == RequestsSpec => []EachReportOnce
<1>1. RequestInv => EachReportOnce
  BY DEF RequestInv
<1> QED BY RequestAlways, <1>1, PTL

\* No request is answered by what had arrived before the worker took it
\* (worker.rs, handle_request: "Discard stale inbound traffic before sending").
THEOREM StaleIgnored == RequestsSpec => []StaleNeverAnswers
<1>1. RequestInv => StaleNeverAnswers
  BY DEF RequestInv
<1> QED BY RequestAlways, <1>1, PTL

\* A request is answered by the reply to another only after one was given up
\* at its time-out, and within one selector; never by the reply to a request
\* sent after it (correlation.rs).
THEOREM StraysAfterTimeout == RequestsSpec => []StraysFollowATimeout
<1>1. RequestInv => StraysFollowATimeout
  BY DEF RequestInv
<1> QED BY RequestAlways, <1>1, PTL

-----------------------------------------------------------------------------
(* Packets into messages.                                                  *)

HIDE RequestsAssumption
USE ReassemblyAssumption

Pieces == [message : Nat, place : Nat]
Piece(m, p) == [message |-> m, place |-> p]

PacketTypes ==
    /\ sent \in Seq(Lengths) /\ sending \in Nat /\ total \in Nat
    /\ sent # <<>> => sending <= sent[Len(sent)]
    /\ buf \in Seq(Pieces) /\ delivered \in Seq(Seq(Pieces))

\* Pieces in their places, of messages up to n, that change from one message to
\* another only where the rest of the one and the start of the other were lost.
PiecesInOrder(d, n, away) ==
    /\ \A i \in 1 .. Len(d) : d[i].place = i - 1 /\ d[i].message \in 1 .. n
    /\ \A i \in 1 .. Len(d) - 1 :
          d[i].message # d[i + 1].message =>
              <<d[i].message, i>> \in away /\ <<d[i + 1].message, 0>> \in away
End(d) == d[Len(d)].message

\* How much of a message has left.
Left(m) == IF m < Len(sent) THEN sent[m] ELSE sending

\* What is being put together is short of the message its last piece is of,
\* and all that left after that piece was lost.
BufInv ==
    buf # <<>> =>
        /\ inProgress /\ Len(buf) < total /\ PiecesInOrder(buf, Len(sent), dropped)
        /\ total = sent[End(buf)]
        /\ \A m \in 1 .. Len(sent), p \in Nat :
              p < Left(m) /\ (m > End(buf) \/ (m = End(buf) /\ p >= Len(buf)))
                 => <<m, p>> \in dropped

\* Of a message that has lost nothing yet all that left is there.
OwnInv ==
    /\ sent # <<>> /\ sending > 0 /\ sending < sent[Len(sent)]
    /\ \A p \in 0 .. sending - 1 : <<Len(sent), p>> \notin dropped
    => /\ inProgress /\ total = sent[Len(sent)] /\ Len(buf) = sending
       /\ \A i \in 1 .. sending : buf[i] = Piece(Len(sent), i - 1)

\* Each delivery is made by the last piece of a message, so none is made twice.
EndInv ==
    /\ \A k \in 1 .. Len(delivered) :
          /\ Len(delivered[k]) > 0 /\ PiecesInOrder(delivered[k], Len(sent), dropped)
          /\ End(delivered[k]) \in 1 .. Len(sent) /\ Len(delivered[k]) = sent[End(delivered[k])]
          /\ End(delivered[k]) = Len(sent) => sending = sent[Len(sent)]
    /\ \A k, l \in 1 .. Len(delivered) : k < l => End(delivered[k]) < End(delivered[l])

ArrivedInv ==
    \A m \in 1 .. Len(sent) :
        (m < Len(sent) \/ sending = sent[m]) /\ AllArrived(m) =>
            \E k \in 1 .. Len(delivered) : delivered[k] = Own(m)

PacketInv == PacketTypes /\ BufInv /\ OwnInv /\ EndInv /\ ArrivedInv

LEMMA PacketFacts ==
    ASSUME PacketInv
    PROVE  /\ Len(sent) \in Nat /\ sending \in Nat /\ Len(buf) \in Nat /\ Len(delivered) \in Nat
           /\ sent \in Seq(Lengths) /\ buf \in Seq(Pieces) /\ delivered \in Seq(Seq(Pieces))
           /\ \A m \in 1 .. Len(sent) : sent[m] \in Nat /\ sent[m] > 0
           /\ sent # <<>> => Len(sent) \in 1 .. Len(sent) /\ sending <= sent[Len(sent)]
           /\ \A k \in 1 .. Len(delivered) :
                 delivered[k] \in Seq(Pieces) /\ Len(delivered[k]) \in Nat
<1>1. /\ sent \in Seq(Lengths) /\ sending \in Nat /\ buf \in Seq(Pieces)
      /\ delivered \in Seq(Seq(Pieces)) /\ (sent # <<>> => sending <= sent[Len(sent)])
  BY DEF PacketInv, PacketTypes
<1>2. Len(sent) \in Nat /\ Len(buf) \in Nat /\ Len(delivered) \in Nat
  BY <1>1
<1>3. \A m \in 1 .. Len(sent) : sent[m] \in Lengths
  BY <1>1, ElementOfSeq
<1>4. \A k \in 1 .. Len(delivered) : delivered[k] \in Seq(Pieces)
  BY <1>1, ElementOfSeq
<1>5. sent # <<>> => Len(sent) \in 1 .. Len(sent)
  BY <1>1
<1>6. \A x \in Lengths : x \in Nat /\ x > 0
  OBVIOUS
<1>7. \A d \in Seq(Pieces) : Len(d) \in Nat
  OBVIOUS
<1> QED BY <1>1, <1>2, <1>3, <1>4, <1>5, <1>6, <1>7, Zenon

LEMMA PacketsStart == SegmentsInit => PacketInv
<1> SUFFICES ASSUME SegmentsInit
             PROVE  PacketInv
  OBVIOUS
<1>1. sent = <<>> /\ sending = 0 /\ total = 0 /\ buf = <<>> /\ delivered = <<>>
  BY DEF SegmentsInit
<1> QED BY <1>1 DEF PacketInv, PacketTypes, BufInv, OwnInv, EndInv, ArrivedInv

LEMMA OrderGrows ==
    ASSUME NEW d, NEW n \in Nat, NEW l \in Nat, n <= l, NEW away, NEW more, away \subseteq more,
           PiecesInOrder(d, n, away)
    PROVE  PiecesInOrder(d, l, more)
<1>1. \A i : i \in 1 .. n => i \in 1 .. l
  OBVIOUS
<1> QED BY <1>1 DEF PiecesInOrder

\* The next message begins when all of the last one has left.
LEMMA BeginKeeps ==
    ASSUME PacketInv, BeginMessage
    PROVE  PacketInv'
<1> DEFINE n == Len(sent)
<1>1. PICK l \in Lengths : sent' = Append(sent, l)
  BY DEF BeginMessage
<1>2. /\ sending' = 0 /\ UNCHANGED <<dropped, inProgress, buf, total, delivered>>
      /\ sent # <<>> => sending = sent[n]
  BY DEF BeginMessage, receiverVars, Last
<1>3. /\ sent' \in Seq(Lengths) /\ Len(sent') = n + 1 /\ sent'[n + 1] = l
      /\ \A m \in 1 .. n : sent'[m] = sent[m]
  BY <1>1, PacketFacts, AppendProperties
<1>4. n \in Nat /\ l \in Nat /\ l > 0 /\ n <= n + 1
  BY PacketFacts
<1>5. /\ \A m \in 1 .. n + 1 : m \in 1 .. n \/ m = n + 1
      /\ \A m \in 1 .. n : m < n + 1 /\ m # n + 1 /\ m \in 1 .. n + 1 /\ (m < n \/ m = n)
      /\ ~(n + 1 < n + 1) /\ n + 1 \in 1 .. n + 1
  BY <1>4
<1>6. \A m \in 1 .. n : sent # <<>>
  BY <1>4
<1> HIDE DEF n
<1>7. \A d : PiecesInOrder(d, n, dropped) => PiecesInOrder(d, n + 1, dropped)
  BY <1>4, OrderGrows
<1>8. PacketTypes'
  <2>1. sent'[Len(sent')] = l /\ sending' <= l /\ sending' \in Nat
    BY <1>2, <1>3, <1>4
  <2> QED BY <1>2, <1>3, <2>1 DEF PacketInv, PacketTypes
<1>9. BufInv'
  <2>1. SUFFICES ASSUME buf # <<>>
                 PROVE  /\ inProgress /\ Len(buf) < total /\ PiecesInOrder(buf, n + 1, dropped)
                        /\ total = sent'[End(buf)]
                        /\ \A m \in 1 .. n + 1, p \in Nat :
                              p < Left(m)' /\ (m > End(buf) \/ (m = End(buf) /\ p >= Len(buf)))
                                 => <<m, p>> \in dropped
    BY <1>2, <1>3 DEF BufInv, End
  <2>2. /\ inProgress /\ Len(buf) < total /\ PiecesInOrder(buf, n, dropped) /\ total = sent[End(buf)]
        /\ \A m \in 1 .. n, p \in Nat :
              p < Left(m) /\ (m > End(buf) \/ (m = End(buf) /\ p >= Len(buf)))
                 => <<m, p>> \in dropped
    BY <2>1 DEF PacketInv, BufInv, n
  <2>3. End(buf) \in 1 .. n
    <3>1. Len(buf) \in 1 .. Len(buf)
      BY <2>1, PacketFacts
    <3> QED BY <2>2, <3>1 DEF PiecesInOrder, End
  <2>4. \A m \in 1 .. n + 1 : Left(m)' = IF m < n + 1 THEN sent'[m] ELSE 0
    BY <1>2, <1>3 DEF Left
  <2>5. ASSUME NEW m \in 1 .. n + 1, NEW p \in Nat, p < Left(m)'
        PROVE  m \in 1 .. n /\ p < Left(m)
    <3>1. CASE m = n + 1
      <4>1. Left(m)' = 0
        BY <1>5, <2>4, <3>1
      <4> QED BY <2>5, <4>1
    <3>2. CASE m \in 1 .. n
      <4>1. Left(m)' = sent[m]
        BY <1>3, <1>5, <2>4, <3>2
      <4>2. Left(m) = sent[m]
        BY <1>2, <1>5, <1>6, <3>2 DEF Left, n
      <4> QED BY <2>5, <3>2, <4>1, <4>2
    <3> QED BY <1>5, <3>1, <3>2
  <2> QED BY <1>3, <1>7, <2>2, <2>3, <2>5
<1>10. OwnInv'
  BY <1>2 DEF OwnInv
<1>11. EndInv'
  <2>1. ASSUME NEW k \in 1 .. Len(delivered)
        PROVE  /\ Len(delivered[k]) > 0 /\ PiecesInOrder(delivered[k], n + 1, dropped)
               /\ End(delivered[k]) \in 1 .. n + 1 /\ End(delivered[k]) # n + 1
               /\ Len(delivered[k]) = sent'[End(delivered[k])]
    <3>1. /\ Len(delivered[k]) > 0 /\ PiecesInOrder(delivered[k], n, dropped)
          /\ End(delivered[k]) \in 1 .. n /\ Len(delivered[k]) = sent[End(delivered[k])]
      BY DEF PacketInv, EndInv, n
    <3> QED BY <1>3, <1>5, <1>7, <3>1
  <2>2. \A k, l_1 \in 1 .. Len(delivered) : k < l_1 => End(delivered[k]) < End(delivered[l_1])
    BY DEF PacketInv, EndInv
  <2> QED BY <1>2, <1>3, <2>1, <2>2 DEF EndInv, End
<1>12. ArrivedInv'
  <2>1. ASSUME NEW m \in 1 .. n + 1, m < n + 1 \/ 0 = sent'[m],
               \A i \in 0 .. sent'[m] - 1 : <<m, i>> \notin dropped
        PROVE  \E k \in 1 .. Len(delivered) :
                  delivered[k] = [i \in 1 .. sent'[m] |-> Piece(m, i - 1)]
    <3>1. m \in 1 .. n
      BY <1>3, <1>4, <1>5, <2>1
    <3>2. sent'[m] = sent[m]
      BY <1>3, <3>1
    <3>3. m < n \/ sending = sent[m]
      BY <1>2, <1>5, <1>6, <3>1
    <3> QED BY <2>1, <3>1, <3>2, <3>3 DEF PacketInv, ArrivedInv, AllArrived, Own, Piece, n
  <2> QED BY <1>2, <1>3, <2>1 DEF ArrivedInv, AllArrived, Own, Piece
<1> QED BY <1>8, <1>9, <1>10, <1>11, <1>12 DEF PacketInv

\* A piece that is lost, or makes the receiver forget: of its message a part is
\* missing from then on.
LEMMA LosingKeeps ==
    ASSUME PacketInv, sent # <<>>, sending < sent[Len(sent)], sending' = sending + 1,
           UNCHANGED <<sent, delivered>>, dropped \subseteq dropped',
           \E p \in 0 .. sending : <<Len(sent), p>> \in dropped',
           \/ buf' = <<>> /\ total' \in Nat
           \/ /\ UNCHANGED <<inProgress, buf, total>>
              /\ <<Len(sent), sending>> \in dropped'
    PROVE  PacketInv'
<1> DEFINE n == Len(sent)
<1>1. /\ n \in Nat /\ n \in 1 .. n /\ sending \in Nat /\ sent[n] \in Nat /\ sent[n] > 0
  BY PacketFacts
<1>2. /\ sending + 1 \in Nat /\ sending + 1 <= sent[n] /\ (sending + 1) - 1 = sending
      /\ sending + 1 > 0 /\ \A p \in Nat : p < sending + 1 => p < sending \/ p = sending
  BY <1>1
<1>3. \A m \in 1 .. n : m < n \/ m = n
  BY <1>1
<1>4. /\ sending' = sending + 1 /\ sending' \in Nat /\ sending' <= sent[n] /\ sending' - 1 = sending
      /\ \A p \in Nat : p < sending' => p < sending \/ p = sending
      /\ sent[n] # sending
  BY <1>1, <1>2
<1> HIDE DEF n
<1>5. \A d : PiecesInOrder(d, n, dropped) => PiecesInOrder(d, n, dropped')
  BY <1>1, OrderGrows
<1>6. PacketTypes'
  <2>1. buf' \in Seq(Pieces) /\ total' \in Nat
    <3>1. buf \in Seq(Pieces) /\ total \in Nat /\ <<>> \in Seq(Pieces)
      BY DEF PacketInv, PacketTypes
    <3>2. \/ buf' = <<>> /\ total' \in Nat
          \/ buf' = buf /\ total' = total
      OBVIOUS
    <3> QED BY <3>1, <3>2, Zenon
  <2> QED BY <1>4, <2>1 DEF PacketInv, PacketTypes, n
<1>7. BufInv'
  <2>1. CASE buf' = <<>>
    BY <2>1 DEF BufInv
  <2>2. CASE /\ UNCHANGED <<inProgress, buf, total>> /\ <<n, sending>> \in dropped' /\ buf # <<>>
    <3>1. /\ inProgress /\ Len(buf) < total /\ PiecesInOrder(buf, n, dropped) /\ total = sent[End(buf)]
          /\ \A m \in 1 .. n, p \in Nat :
                p < Left(m) /\ (m > End(buf) \/ (m = End(buf) /\ p >= Len(buf)))
                   => <<m, p>> \in dropped
      BY <2>2 DEF PacketInv, BufInv, n
    <3>2. ASSUME NEW m \in 1 .. n, NEW p \in Nat, p < (IF m < n THEN sent[m] ELSE sending')
          PROVE  p < Left(m) \/ (m = n /\ p = sending)
      <4>1. CASE m < n
        BY <3>2, <4>1 DEF Left, n
      <4>2. CASE m = n
        <5>1. p < sending'
          BY <1>1, <3>2, <4>2
        <5>2. p < sending \/ p = sending
          BY <1>4, <5>1
        <5>3. p < sending => p < Left(m)
          BY <1>1, <4>2 DEF Left, n
        <5> QED BY <4>2, <5>2, <5>3
      <4> QED BY <1>3, <4>1, <4>2
    <3>3. \A m \in 1 .. n, p \in Nat :
             p < (IF m < n THEN sent[m] ELSE sending')
               /\ (m > End(buf) \/ (m = End(buf) /\ p >= Len(buf))) => <<m, p>> \in dropped'
      BY <2>2, <3>1, <3>2
    <3> QED BY <1>5, <2>2, <3>1, <3>3 DEF BufInv, Left, End, n
  <2> QED BY <2>1, <2>2 DEF n
<1>8. OwnInv'
  <2>1. \E p \in 0 .. sending' - 1 : <<n, p>> \in dropped'
    BY <1>4 DEF n
  <2> QED BY <2>1 DEF OwnInv, n
<1>9. EndInv'
  BY <1>4, <1>5 DEF PacketInv, EndInv, End, n
<1>10. ArrivedInv'
  <2>1. ASSUME NEW m \in 1 .. n, m < n \/ sending' = sent[m],
               \A i \in 0 .. sent[m] - 1 : <<m, i>> \notin dropped'
        PROVE  \E k \in 1 .. Len(delivered) :
                  delivered[k] = [i \in 1 .. sent[m] |-> Piece(m, i - 1)]
    <3>1. m < n
      <4>1. SUFFICES ASSUME m = n
                     PROVE  FALSE
        BY <1>3
      <4>2. sending' = sent[n]
        BY <1>1, <2>1, <4>1
      <4>3. \A p \in 0 .. sending : p \in 0 .. sent[n] - 1
        BY <1>4, <4>2
      <4> QED BY <2>1, <4>1, <4>3 DEF n
    <3> QED BY <2>1, <3>1 DEF PacketInv, ArrivedInv, AllArrived, Own, Piece, n
  <2> QED BY <2>1 DEF ArrivedInv, AllArrived, Own, Piece, n
<1> QED BY <1>6, <1>7, <1>8, <1>9, <1>10 DEF PacketInv

\* What the receiver has when a piece is put after what it is taken to follow.
LEMMA Continued ==
    ASSUME PacketInv, sent # <<>>, sending < sent[Len(sent)], NEW b \in Seq(Pieces),
           b = <<>> \/ (b = buf /\ inProgress /\ total = sent[Len(sent)]), sending = Len(b)
    PROVE  LET whole == Append(b, NextSegment)
           IN  /\ whole \in Seq(Pieces) /\ Len(whole) = sending + 1
               /\ End(whole) = Len(sent) /\ PiecesInOrder(whole, Len(sent), dropped)
               /\ (\A p \in 0 .. sending : <<Len(sent), p>> \notin dropped) =>
                     \A i \in 1 .. sending + 1 : whole[i] = Piece(Len(sent), i - 1)
<1> DEFINE n == Len(sent)
           seg == Piece(n, sending)
           whole == Append(b, seg)
<1>1. /\ n \in Nat /\ n \in 1 .. n /\ sending \in Nat /\ sent[n] \in Nat
      /\ Len(buf) \in Nat
  BY PacketFacts
<1>2. NextSegment = seg /\ seg \in Pieces /\ seg.message = n /\ seg.place = sending
  BY <1>1 DEF NextSegment, Piece, Pieces
<1> HIDE DEF n, seg
<1>3. /\ whole \in Seq(Pieces) /\ Len(whole) = sending + 1 /\ whole[sending + 1] = seg
      /\ \A i \in 1 .. sending : whole[i] = b[i]
  BY <1>2, AppendProperties
<1> HIDE DEF whole
<1>4. End(whole) = n
  BY <1>2, <1>3 DEF End
<1>5. /\ \A i \in 1 .. sending + 1 : i \in 1 .. sending \/ (i = sending + 1 /\ sending = i - 1)
      /\ \A i \in 1 .. sending : i \in 1 .. sending - 1 \/ i = sending
      /\ \A i \in 1 .. sending - 1 : i \in 1 .. sending /\ i + 1 \in 1 .. sending
      /\ (sending + 1) - 1 = sending
  BY <1>1
<1>6. ASSUME sending > 0
      PROVE  /\ b = buf /\ buf # <<>> /\ sending = Len(buf) /\ sending \in 1 .. sending
             /\ PiecesInOrder(buf, n, dropped) /\ total = sent[End(buf)] /\ sending < total
             /\ total = sent[n]
             /\ \A m \in 1 .. n, p \in Nat :
                   p < Left(m) /\ (m > End(buf) \/ (m = End(buf) /\ p >= Len(buf)))
                      => <<m, p>> \in dropped
  <2>1. b # <<>>
    BY <1>6
  <2>2. b = buf /\ buf # <<>> /\ sending = Len(buf)
    BY <2>1
  <2>3. sending \in 1 .. sending
    BY <1>1, <1>6
  <2> QED BY <2>1, <2>2, <2>3 DEF PacketInv, BufInv, n
<1>7. PiecesInOrder(whole, n, dropped)
  <2>1. ASSUME NEW i \in 1 .. sending + 1
        PROVE  whole[i].place = i - 1 /\ whole[i].message \in 1 .. n
    <3>1. CASE i \in 1 .. sending
      <4>1. sending > 0 /\ whole[i] = buf[i] /\ i \in 1 .. Len(buf)
        BY <1>1, <1>3, <1>6, <3>1
      <4> QED BY <1>6, <4>1 DEF PiecesInOrder
    <3>2. CASE i = sending + 1 /\ sending = i - 1
      BY <1>1, <1>2, <1>3, <3>2
    <3> QED BY <1>5, <3>1, <3>2
  <2>2. ASSUME NEW i \in 1 .. sending, whole[i].message # whole[i + 1].message
        PROVE  <<whole[i].message, i>> \in dropped /\ <<whole[i + 1].message, 0>> \in dropped
    <3>1. sending > 0 /\ whole[i] = buf[i]
      BY <1>1, <1>3
    <3>2. CASE i \in 1 .. sending - 1
      <4>1. whole[i + 1] = buf[i + 1] /\ i \in 1 .. Len(buf) - 1
        BY <1>3, <1>5, <1>6, <3>1, <3>2
      <4> QED BY <1>6, <2>2, <3>1, <4>1 DEF PiecesInOrder
    <3>3. CASE i = sending
      <4> DEFINE l == End(buf)
      <4>1. whole[i].message = l /\ whole[i + 1].message = n /\ i = Len(buf) /\ l # n
        BY <1>2, <1>3, <1>6, <2>2, <3>1, <3>3 DEF End
      <4>2. l \in 1 .. n
        BY <1>6, <3>1 DEF PiecesInOrder, End
      <4> HIDE DEF l
      <4>3. l < n /\ n > l
        BY <1>1, <4>1, <4>2
      <4>4. i < Left(l) /\ i >= Len(buf) /\ i \in Nat
        <5>1. i < sent[l] /\ i \in Nat
          BY <1>1, <1>6, <3>1, <3>3 DEF l
        <5>2. Left(l) = sent[l]
          BY <4>3 DEF Left, n
        <5>3. i >= Len(buf)
          BY <1>1, <4>1
        <5> QED BY <5>1, <5>2, <5>3
      <4>5. 0 < Left(n) /\ 0 \in Nat
        BY <1>1, <3>1 DEF Left, n
      <4>6. <<l, i>> \in dropped
        BY <1>6, <3>1, <4>2, <4>4 DEF l
      <4>7. <<n, 0>> \in dropped
        BY <1>1, <1>6, <3>1, <4>3, <4>5 DEF l
      <4> QED BY <4>1, <4>6, <4>7
    <3> QED BY <1>5, <3>2, <3>3
  <2> QED BY <1>3, <1>5, <2>1, <2>2 DEF PiecesInOrder
<1>8. ASSUME \A p \in 0 .. sending : <<n, p>> \notin dropped, NEW i \in 1 .. sending + 1
      PROVE  whole[i] = Piece(n, i - 1)
  <2>1. CASE i = sending + 1 /\ sending = i - 1
    BY <1>3, <2>1 DEF seg
  <2>2. CASE i \in 1 .. sending
    <3>1. sending > 0
      BY <1>1, <2>2
    <3>2. \A p \in 0 .. sending - 1 : p \in 0 .. sending
      BY <1>1
    <3>3. buf[i] = Piece(n, i - 1)
      BY <1>8, <2>2, <3>1, <3>2 DEF PacketInv, OwnInv, n
    <3> QED BY <1>3, <1>6, <2>2, <3>1, <3>3
  <2> QED BY <1>5, <2>1, <2>2
<1> QED BY <1>2, <1>3, <1>4, <1>7, <1>8 DEF n, whole

\* A piece that is put in its place completes the message it is of, or brings
\* it one further.
LEMMA PuttingKeeps ==
    ASSUME PacketInv, sent # <<>>, sending < sent[Len(sent)], sending' = sending + 1,
           UNCHANGED <<sent, dropped>>, total' = sent[Len(sent)],
           NEW whole \in Seq(Pieces), Len(whole) = sending + 1, End(whole) = Len(sent),
           PiecesInOrder(whole, Len(sent), dropped),
           (\A p \in 0 .. sending : <<Len(sent), p>> \notin dropped) =>
              \A i \in 1 .. sending + 1 : whole[i] = Piece(Len(sent), i - 1),
           \/ Len(whole) >= sent[Len(sent)] /\ delivered' = Append(delivered, whole) /\ buf' = <<>>
           \/ Len(whole) < sent[Len(sent)] /\ delivered' = delivered /\ buf' = whole /\ inProgress'
    PROVE  PacketInv'
<1> DEFINE n == Len(sent)
           d == Len(delivered)
<1>1. /\ n \in Nat /\ n \in 1 .. n /\ sending \in Nat /\ sent[n] \in Nat /\ sent[n] > 0
      /\ d \in Nat /\ delivered \in Seq(Seq(Pieces))
  BY PacketFacts
<1>2. /\ sending' = sending + 1 /\ sending' \in Nat /\ sending' <= sent[n] /\ sending' - 1 = sending
      /\ sending' > 0 /\ sending # sent[n]
  BY <1>1
<1>3. /\ \A m \in 1 .. n : m < n \/ m = n
      /\ \A k \in 1 .. d + 1 : k = d + 1 \/ k \in 1 .. d
      /\ \A k \in 1 .. d : k \in 1 .. d + 1 /\ ~(d + 1 < k) /\ k # d + 1
      /\ ~(d + 1 < d + 1) /\ d + 1 \in 1 .. d + 1
  BY <1>1
<1>4. /\ \A k \in 1 .. d :
            /\ Len(delivered[k]) > 0 /\ PiecesInOrder(delivered[k], n, dropped)
            /\ End(delivered[k]) \in 1 .. n /\ Len(delivered[k]) = sent[End(delivered[k])]
            /\ End(delivered[k]) # n
      /\ \A k, l \in 1 .. d : k < l => End(delivered[k]) < End(delivered[l])
  BY <1>2 DEF PacketInv, EndInv
<1>5. \A m \in 1 .. n : m < n /\ AllArrived(m) => \E k \in 1 .. d : delivered[k] = Own(m)
  BY DEF PacketInv, ArrivedInv
<1> HIDE DEF n, d
<1>6. CASE Len(whole) >= sent[n] /\ delivered' = Append(delivered, whole) /\ buf' = <<>>
  <2>1. /\ delivered' \in Seq(Seq(Pieces)) /\ Len(delivered') = d + 1 /\ delivered'[d + 1] = whole
        /\ \A k \in 1 .. d : delivered'[k] = delivered[k]
    BY <1>1, <1>6, AppendProperties DEF d
  <2>2. Len(whole) = sent[n] /\ sending' = sent[n] /\ Len(whole) > 0
    BY <1>1, <1>2, <1>6
  <2>3. PacketTypes'
    <3>1. <<>> \in Seq(Pieces) /\ total' \in Nat
      BY <1>1 DEF n
    <3>2. sent \in Seq(Lengths)
      BY PacketFacts
    <3> QED BY <1>2, <1>6, <2>1, <3>1, <3>2 DEF PacketTypes, n
  <2>4. BufInv' /\ OwnInv'
    <3>1. ~(sending' < sent'[Len(sent')])
      BY <1>1, <2>2 DEF n
    <3> QED BY <1>6, <3>1 DEF BufInv, OwnInv
  <2>5. EndInv'
    <3>1. ASSUME NEW k \in 1 .. d + 1
          PROVE  /\ Len(delivered'[k]) > 0 /\ PiecesInOrder(delivered'[k], n, dropped)
                 /\ End(delivered'[k]) \in 1 .. n
                 /\ Len(delivered'[k]) = sent[End(delivered'[k])]
      <4>1. CASE k = d + 1
        BY <1>1, <2>1, <2>2, <4>1 DEF n
      <4>2. CASE k \in 1 .. d
        BY <1>4, <2>1, <4>2
      <4> QED BY <1>3, <4>1, <4>2
    <3>2. ASSUME NEW k \in 1 .. d + 1, NEW l \in 1 .. d + 1, k < l
          PROVE  End(delivered'[k]) < End(delivered'[l])
      <4>1. CASE k = d + 1
        BY <1>3, <3>2, <4>1
      <4>2. CASE k \in 1 .. d /\ l \in 1 .. d
        BY <1>4, <2>1, <3>2, <4>2
      <4>3. CASE k \in 1 .. d /\ l = d + 1
        <5>1. End(delivered[k]) < n
          BY <1>3, <1>4, <4>3
        <5> QED BY <2>1, <4>3, <5>1 DEF n
      <4> QED BY <1>3, <4>1, <4>2, <4>3
    <3> QED BY <2>1, <2>2, <3>1, <3>2 DEF EndInv, End, n
  <2>6. ArrivedInv'
    <3>1. ASSUME NEW m \in 1 .. n, AllArrived(m)
          PROVE  \E k \in 1 .. d + 1 : delivered'[k] = Own(m)
      <4>1. CASE m < n
        BY <1>3, <1>5, <2>1, <3>1, <4>1
      <4>2. CASE m = n
        <5>1. \A p \in 0 .. sending : p \in 0 .. sent[n] - 1
          BY <1>1, <1>2
        <5>2. \A i \in 1 .. sent[n] : whole[i] = Piece(n, i - 1)
          BY <2>2, <3>1, <4>2, <5>1 DEF AllArrived, n
        <5>3. DOMAIN whole = 1 .. sent[n] /\ whole = [i \in DOMAIN whole |-> whole[i]]
          BY <2>2
        <5>4. whole = Own(n)
          BY <5>2, <5>3 DEF Own, Piece
        <5> QED BY <1>3, <2>1, <4>2, <5>4
      <4> QED BY <1>3, <4>1, <4>2
    <3> QED BY <2>1, <3>1 DEF ArrivedInv, AllArrived, Own, n
  <2> QED BY <2>3, <2>4, <2>5, <2>6 DEF PacketInv
<1>7. CASE Len(whole) < sent[n] /\ delivered' = delivered /\ buf' = whole /\ inProgress'
  <2>1. sending' < sent[n] /\ sending' # sent[n] /\ Len(whole) = sending' /\ sending' <= sending'
    BY <1>1, <1>2, <1>7
  <2>2. PacketTypes'
    BY <1>1, <1>2, <1>7 DEF PacketInv, PacketTypes, n
  <2>3. BufInv'
    <3>1. ASSUME NEW m \in 1 .. n, NEW p \in Nat, p < (IF m < n THEN sent[m] ELSE sending'),
                 m > n \/ (m = n /\ p >= Len(whole))
          PROVE  FALSE
      <4>1. m = n /\ p >= Len(whole)
        BY <1>1, <3>1
      <4>2. p < sending'
        BY <1>1, <3>1, <4>1
      <4> QED BY <1>2, <2>1, <4>1, <4>2
    <3>2. /\ inProgress' /\ Len(buf') < total' /\ PiecesInOrder(buf', n, dropped)
          /\ total' = sent[End(buf')] /\ End(buf') = n
      BY <1>7 DEF n
    <3>3. \A m \in 1 .. n, p \in Nat :
             p < (IF m < n THEN sent[m] ELSE sending')
               /\ (m > End(buf') \/ (m = End(buf') /\ p >= Len(buf'))) => <<m, p>> \in dropped
      BY <1>7, <3>1, <3>2
    <3> QED BY <3>2, <3>3 DEF BufInv, Left, End, n
  <2>4. OwnInv'
    <3>1. SUFFICES ASSUME \A p \in 0 .. sending : <<n, p>> \notin dropped
                   PROVE  \A i \in 1 .. sending' : whole[i] = Piece(n, i - 1)
      BY <1>2, <1>7, <2>1 DEF OwnInv, Piece, n
    <3> QED BY <1>2, <3>1 DEF n
  <2>5. EndInv'
    BY <1>4, <1>7 DEF EndInv, End, n, d
  <2>6. ArrivedInv'
    BY <1>3, <1>5, <1>7, <2>1 DEF ArrivedInv, AllArrived, Own, n, d
  <2> QED BY <2>2, <2>3, <2>4, <2>5, <2>6 DEF PacketInv
<1> QED BY <1>6, <1>7 DEF n

LEMMA ReceivingKeeps ==
    ASSUME PacketInv, Receive
    PROVE  PacketInv'
<1> DEFINE n == Len(sent)
           seg == NextSegment
           l == sent[n]
<1>1. /\ sent # <<>> /\ sending < l /\ sending' = sending + 1 /\ UNCHANGED <<sent, dropped>>
      /\ Push(seg, l)
  BY DEF Receive, Last
<1>2. seg.place = sending
  BY DEF NextSegment
<1>3. /\ n \in Nat /\ sending \in Nat /\ l \in Nat /\ buf \in Seq(Pieces) /\ <<>> \in Seq(Pieces)
      /\ Len(<<>>) = 0
  BY <1>1, PacketFacts
<1>4. ASSUME NEW b \in Seq(Pieces), b = <<>> \/ (b = buf /\ inProgress /\ total = l),
             sending = Len(b), Extend(b, seg, l), total' = l, inProgress' \/ ~(l > 1)
      PROVE  PacketInv'
  <2> DEFINE whole == Append(b, seg)
  <2>1. /\ whole \in Seq(Pieces) /\ Len(whole) = sending + 1
        /\ End(whole) = Len(sent) /\ PiecesInOrder(whole, Len(sent), dropped)
        /\ (\A p \in 0 .. sending : <<Len(sent), p>> \notin dropped) =>
              \A i \in 1 .. sending + 1 : whole[i] = Piece(Len(sent), i - 1)
    BY <1>1, <1>4, Continued
  <2>2. \/ Len(whole) >= l /\ delivered' = Append(delivered, whole) /\ buf' = <<>>
        \/ ~(Len(whole) >= l) /\ delivered' = delivered /\ buf' = whole
    BY <1>4 DEF Extend
  <2> HIDE DEF whole
  <2>3. ~(Len(whole) >= l) => Len(whole) < l /\ l > 1
    BY <1>3, <2>1
  <2> QED BY <1>1, <1>4, <2>1, <2>2, <2>3, PuttingKeeps
<1> HIDE DEF seg
<1>5. SoFar(l) \in Seq(Pieces) /\ (SoFar(l) = <<>> \/ (SoFar(l) = buf /\ inProgress /\ total = l))
  BY <1>3 DEF SoFar
<1>6. CASE /\ Fits(seg.place, l) /\ Extend(SoFar(l), seg, l)
           /\ total' = l /\ inProgress' = (inProgress \/ l > 1)
  <2>1. sending = Len(SoFar(l))
    BY <1>2, <1>6 DEF Fits
  <2> QED BY <1>4, <1>5, <1>6, <2>1
<1>7. CASE /\ seg.place = 0 /\ Extend(<<>>, seg, l)
           /\ total' = l /\ inProgress' = (l > 1)
  BY <1>2, <1>3, <1>4, <1>7
<1>8. CASE /\ ~Fits(seg.place, l) /\ seg.place # 0
           /\ inProgress' = FALSE /\ buf' = <<>> /\ total' = 0 /\ UNCHANGED delivered
  <2>1. \E p \in 0 .. sending : <<n, p>> \in dropped'
    <3>1. SUFFICES ASSUME \A p \in 0 .. sending - 1 : <<n, p>> \notin dropped
                   PROVE  FALSE
      <4>1. \A p \in 0 .. sending - 1 : p \in 0 .. sending
        BY <1>3
      <4> QED BY <1>1, <4>1
    <3>2. sending > 0
      BY <1>2, <1>3, <1>8
    <3>3. inProgress /\ total = l /\ Len(buf) = sending
      BY <1>1, <3>1, <3>2 DEF PacketInv, OwnInv
    <3> QED BY <1>2, <1>8, <3>3 DEF Fits, SoFar
  <2> QED BY <1>1, <1>8, <2>1, LosingKeeps
<1> QED BY <1>1, <1>6, <1>7, <1>8 DEF Push

LEMMA PacketStep == PacketInv /\ [SegmentsNext]_segmentVars => PacketInv'
<1> SUFFICES ASSUME PacketInv, [SegmentsNext]_segmentVars
             PROVE  PacketInv'
  OBVIOUS
<1>1. ASSUME sent # <<>>, sending < sent[Len(sent)], sending' = sending + 1, UNCHANGED <<sent, delivered>>,
             dropped' = dropped \cup {<<Len(sent), sending>>},
             \/ buf' = <<>> /\ total' = 0
             \/ UNCHANGED <<inProgress, buf, total>>
      PROVE  PacketInv'
  <2>1. sending \in 0 .. sending
    BY PacketFacts
  <2>2. \E p \in 0 .. sending : <<Len(sent), p>> \in dropped'
    BY <1>1, <2>1
  <2> QED BY <1>1, <2>2, LosingKeeps
<1>2. CASE Drop
  BY <1>1, <1>2 DEF Drop, receiverVars, Last
<1>3. CASE Malformed
  BY <1>1, <1>3 DEF Malformed, Last
<1>4. CASE AllSent \/ UNCHANGED segmentVars
  <2>1. UNCHANGED <<sent, sending, dropped, inProgress, buf, total, delivered>>
    BY <1>4 DEF AllSent, segmentVars, senderVars, receiverVars
  <2>2. PacketTypes' /\ BufInv' /\ OwnInv'
    BY <2>1 DEF PacketInv, PacketTypes, BufInv, Left, End, OwnInv
  <2>3. EndInv' /\ ArrivedInv'
    BY <2>1 DEF PacketInv, EndInv, End, ArrivedInv, AllArrived, Own
  <2> QED BY <2>2, <2>3 DEF PacketInv
<1> QED BY <1>2, <1>3, <1>4, BeginKeeps, ReceivingKeeps DEF SegmentsNext

LEMMA PacketsAlways == SegmentsSpec => []PacketInv
BY PacketsStart, PacketStep, PTL DEF SegmentsSpec

\* A message of which nothing is lost is delivered whole, and once, whatever
\* was lost before it (framing.rs, push: "silently wedging the device").
THEOREM WholeArrive == SegmentsSpec => []WholeMessagesArrive
<1>1. ASSUME PacketInv
      PROVE  WholeMessagesArrive
  <2>1. DOMAIN sent = 1 .. Len(sent) /\ DOMAIN delivered = 1 .. Len(delivered)
    BY <1>1, PacketFacts
  <2>2. ASSUME NEW m \in 1 .. Len(sent), m < Len(sent) \/ sending = sent[m], AllArrived(m)
        PROVE  Cardinality({k \in 1 .. Len(delivered) : delivered[k] = Own(m)}) = 1
    <3>1. PICK k \in 1 .. Len(delivered) : delivered[k] = Own(m)
      BY <1>1, <2>2 DEF PacketInv, ArrivedInv
    <3>2. ASSUME NEW j \in 1 .. Len(delivered), delivered[j] = Own(m)
          PROVE  j = k
      <4>1. End(delivered[j]) = End(delivered[k]) /\ End(delivered[j]) \in Nat
        <5>1. End(delivered[j]) \in 1 .. Len(sent)
          BY <1>1 DEF PacketInv, EndInv
        <5> QED BY <3>1, <3>2, <5>1
      <4>2. ~(j < k) /\ ~(k < j)
        <5>1. j < k => End(delivered[j]) < End(delivered[k])
          BY <1>1 DEF PacketInv, EndInv
        <5>2. k < j => End(delivered[k]) < End(delivered[j])
          BY <1>1 DEF PacketInv, EndInv
        <5> QED BY <4>1, <5>1, <5>2
      <4> QED BY <4>2
    <3>3. {j \in 1 .. Len(delivered) : delivered[j] = Own(m)} = {k}
      BY <3>1, <3>2
    <3> QED BY <3>3, FS_Singleton
  <2> QED BY <2>1, <2>2 DEF WholeMessagesArrive
<1> QED BY PacketsAlways, <1>1, PTL

\* What is delivered has every place of its length in order, and is of one
\* message, but where all between two pieces was lost (framing.rs, push).
THEOREM MixedAcrossAGap == SegmentsSpec => []MixedOnlyAcrossAGap
<1>1. ASSUME PacketInv
      PROVE  MixedOnlyAcrossAGap
  <2>1. ASSUME NEW k \in DOMAIN delivered
        PROVE  LET d == delivered[k]
               IN  /\ \A i \in DOMAIN d : d[i].place = i - 1
                   /\ Len(d) = sent[Last(d).message]
                   /\ \A i \in 1 .. Len(d) - 1 :
                         d[i].message # d[i + 1].message =>
                             /\ <<d[i].message, i>> \in dropped
                             /\ <<d[i + 1].message, 0>> \in dropped
    <3>1. k \in 1 .. Len(delivered)
      BY <1>1, PacketFacts
    <3>2. DOMAIN delivered[k] = 1 .. Len(delivered[k])
      BY <1>1, <3>1, PacketFacts
    <3>3. PiecesInOrder(delivered[k], Len(sent), dropped) /\ Len(delivered[k]) = sent[End(delivered[k])]
      BY <1>1, <3>1 DEF PacketInv, EndInv
    <3> QED BY <3>2, <3>3 DEF PiecesInOrder, End, Last
  <2> QED BY <2>1 DEF MixedOnlyAcrossAGap
<1> QED BY PacketsAlways, <1>1, PTL

-----------------------------------------------------------------------------
(* A page's connection and its calls.                                      *)

HIDE ReassemblyAssumption
USE CallsAssumption

\* A dial is under way while the client reconnects and is not waiting to, or at
\* its first start.
LinkInv ==
    /\ AlwaysAWayBack
    /\ retry => link = "reconnecting" /\ socket = "none"
    /\ socket = "dialing" =>
          ~retry /\ (link = "reconnecting" \/ (link = "closed" /\ start = "waiting"))
    /\ socket = "greeted" => link = "open"
    /\ socket \in {"none", "dialing", "greeted"} /\ link \in {"closed", "open", "reconnecting"}
    /\ start = "waiting" => socket = "dialing" /\ link = "closed" /\ ~unpaired

Fates == {"waiting", "answered", "timeout", "closed", "superseded", "refused", "unauthorized"}

CallTypes ==
    /\ keyOf \in Seq(Keys \cup {NoKey}) /\ fate \in Seq(Fates) /\ Len(fate) = Len(keyOf)
    /\ framed \in Seq(Nat) /\ \A i \in 1 .. Len(framed) : framed[i] \in 1 .. Len(keyOf)
    /\ inFlight \subseteq 1 .. Len(framed)
    /\ DOMAIN slots \subseteq Keys /\ \A k \in DOMAIN slots : slots[k] \in 0 .. Len(keyOf)

\* A call in flight waits for its answer and holds its key alone.
FlightInv ==
    /\ \A i \in inFlight :
          /\ fate[framed[i]] = "waiting"
          /\ keyOf[framed[i]] # NoKey => keyOf[framed[i]] \in DOMAIN slots
    /\ \A i, j \in inFlight :
          keyOf[framed[i]] = keyOf[framed[j]] /\ keyOf[framed[i]] # NoKey => i = j

\* A key is held by one in flight, and the call behind it was not sent, and is
\* newer than all of the key that were.
BehindInv ==
    \A k \in DOMAIN slots :
        /\ \E i \in inFlight : keyOf[framed[i]] = k
        /\ slots[k] # 0 =>
              /\ fate[slots[k]] = "waiting" /\ keyOf[slots[k]] = k
              /\ \A i \in 1 .. Len(framed) :
                    framed[i] # slots[k] /\ (keyOf[framed[i]] = k => framed[i] < slots[k])

\* Whatever waits is in flight or behind one that is.
WaitsInv ==
    \A c \in 1 .. Len(keyOf) :
        fate[c] = "waiting" =>
            (\E i \in inFlight : framed[i] = c) \/ (\E k \in DOMAIN slots : slots[k] = c)

SentOnceInv ==
    \A i, j \in 1 .. Len(framed) :
        i < j => framed[i] # framed[j] /\ (keyOf[framed[i]] = keyOf[framed[j]] /\ keyOf[framed[i]] # NoKey
                                             => framed[i] < framed[j])
NewerInv ==
    \A c \in 1 .. Len(keyOf) :
        fate[c] = "superseded" =>
            /\ \A i \in 1 .. Len(framed) : framed[i] # c
            /\ \E d \in c + 1 .. Len(keyOf) : keyOf[d] = keyOf[c]

CallInv == CallTypes /\ FlightInv /\ BehindInv /\ WaitsInv /\ SentOnceInv /\ NewerInv
ClientInv == LinkInv /\ CallInv

LEMMA CallFacts ==
    ASSUME CallInv
    PROVE  /\ Len(keyOf) \in Nat /\ Len(framed) \in Nat /\ Len(fate) = Len(keyOf)
           /\ keyOf \in Seq(Keys \cup {NoKey}) /\ fate \in Seq(Fates) /\ framed \in Seq(Nat)
           /\ DOMAIN fate = 1 .. Len(keyOf) /\ DOMAIN framed = 1 .. Len(framed)
           /\ \A c \in 1 .. Len(keyOf) : keyOf[c] \in Keys \cup {NoKey}
           /\ \A i \in 1 .. Len(framed) : framed[i] \in 1 .. Len(keyOf) /\ framed[i] # 0
           /\ inFlight \subseteq 1 .. Len(framed) /\ DOMAIN slots \subseteq Keys
           /\ \A k \in DOMAIN slots :
                 k # NoKey /\ (slots[k] # 0 => slots[k] \in 1 .. Len(keyOf))
<1>1. /\ keyOf \in Seq(Keys \cup {NoKey}) /\ fate \in Seq(Fates) /\ framed \in Seq(Nat)
      /\ Len(fate) = Len(keyOf) /\ \A i \in 1 .. Len(framed) : framed[i] \in 1 .. Len(keyOf)
      /\ inFlight \subseteq 1 .. Len(framed) /\ DOMAIN slots \subseteq Keys
      /\ \A k \in DOMAIN slots : slots[k] \in 0 .. Len(keyOf)
  BY DEF CallInv, CallTypes
<1>2. Len(keyOf) \in Nat /\ Len(framed) \in Nat /\ DOMAIN framed = 1 .. Len(framed)
  BY <1>1
<1>3. DOMAIN fate = 1 .. Len(keyOf)
  BY <1>1
<1>4. \A c \in 1 .. Len(keyOf) : keyOf[c] \in Keys \cup {NoKey}
  BY <1>1, ElementOfSeq
<1>5. /\ \A c \in 1 .. Len(keyOf) : c # 0
      /\ \A c \in 0 .. Len(keyOf) : c # 0 => c \in 1 .. Len(keyOf)
  BY <1>2
<1>6. \A k \in Keys : k # NoKey
  OBVIOUS
<1> QED BY <1>1, <1>2, <1>3, <1>4, <1>5, <1>6, Zenon

LEMMA ClientStarts == ClientInit => ClientInv
<1> SUFFICES ASSUME ClientInit
             PROVE  ClientInv
  OBVIOUS
<1>1. /\ link = "closed" /\ socket = "dialing" /\ retry = FALSE /\ start = "waiting"
      /\ unpaired = FALSE /\ inFlight = {}
  BY DEF ClientInit
<1>2. keyOf = <<>> /\ fate = <<>> /\ framed = <<>> /\ inFlight = {} /\ slots = <<>>
  BY DEF ClientInit
<1>3. LinkInv
  BY <1>1 DEF LinkInv, AlwaysAWayBack
<1>4. CallInv
  BY <1>2 DEF CallInv, CallTypes, FlightInv, BehindInv, WaitsInv, SentOnceInv, NewerInv
<1> QED BY <1>3, <1>4 DEF ClientInv

LEMMA LinkStep ==
    ASSUME ClientInv, ClientNext
    PROVE  LinkInv'
<1>1. ASSUME UNCHANGED linkVars, inFlight' # {} => inFlight # {} \/ (link = "open" /\ socket = "greeted")
      PROVE  LinkInv'
  BY <1>1 DEF ClientInv, LinkInv, AlwaysAWayBack, linkVars
<1>2. ASSUME NEW k, InvokeRefused(k) \/ InvokeWaits(k) \/ InvokeSends(k) \/ InvokeCannotSend(k)
      PROVE  LinkInv'
  <2>1. UNCHANGED linkVars
    BY <1>2 DEF InvokeRefused, InvokeWaits, InvokeSends, InvokeCannotSend, Call
  <2>2. inFlight' = inFlight \/ (link = "open" /\ socket = "greeted")
    BY <1>2 DEF InvokeRefused, InvokeWaits, InvokeSends, InvokeCannotSend
  <2> QED BY <1>1, <2>1, <2>2
<1>3. ASSUME NEW i, Answer(i) \/ LateAnswer(i) \/ CallTimesOut(i)
      PROVE  LinkInv'
  <2>1. UNCHANGED linkVars /\ (inFlight # {} \/ inFlight' = inFlight)
    BY <1>3 DEF Answer, LateAnswer, CallTimesOut, SettleCall
  <2> QED BY <1>1, <2>1
<1>4. CASE Hello
  BY <1>4 DEF Hello, ClientInv, LinkInv, AlwaysAWayBack, callingVars
<1>5. CASE HelloWhileClosing
  BY <1>5 DEF HelloWhileClosing, FailAll, ClientInv, LinkInv, AlwaysAWayBack
<1>6. CASE DialFails
  <2>1. CASE start = "waiting"
    BY <1>6, <2>1 DEF DialFails, ClientInv, LinkInv, AlwaysAWayBack, callingVars
  <2>2. CASE start # "waiting"
    BY <1>6, <2>2 DEF DialFails, ClientInv, LinkInv, AlwaysAWayBack, callingVars
  <2> QED BY <2>1, <2>2
<1>7. CASE RetryFires
  BY <1>7 DEF RetryFires, ClientInv, LinkInv, AlwaysAWayBack, callingVars
<1>8. CASE Lost
  BY <1>8 DEF Lost, FailAll, ClientInv, LinkInv, AlwaysAWayBack
<1>9. CASE StopUnpaired
  BY <1>9 DEF StopUnpaired, Ended, FailAll, ClientInv, LinkInv, AlwaysAWayBack
<1>10. CASE CloseClient
  BY <1>10 DEF CloseClient, Ended, FailAll, ClientInv, LinkInv, AlwaysAWayBack
<1> QED BY <1>2, <1>3, <1>4, <1>5, <1>6, <1>7, <1>8, <1>9, <1>10 DEF ClientNext

\* Failing all in hand leaves none that waits.
LEMMA FailingAllKeeps ==
    ASSUME CallInv, NEW why \in {"closed", "unauthorized"}, FailAll(why)
    PROVE  CallInv'
<1> DEFINE n == Len(keyOf)
<1>1. /\ fate' = [c \in 1 .. n |-> IF c \in InHand THEN why ELSE fate[c]]
      /\ inFlight' = {} /\ slots' = <<>> /\ UNCHANGED <<keyOf, framed>>
  BY CallFacts DEF FailAll
<1>2. \A c \in 1 .. n : fate'[c] = IF c \in InHand THEN why ELSE fate[c]
  BY <1>1
<1>3. \A c \in 1 .. n : fate[c] \in Fates
  BY CallFacts, ElementOfSeq
<1>4. why \in Fates /\ why # "waiting" /\ why # "superseded"
  BY DEF Fates
<1>5. fate' \in Seq(Fates) /\ Len(fate') = n
  <2>1. n \in Nat
    BY CallFacts
  <2>2. fate' \in [1 .. n -> Fates]
    BY <1>1, <1>3, <1>4
  <2>3. fate' \in Seq(Fates)
    BY <2>1, <2>2, SeqDef
  <2>4. DOMAIN fate' = 1 .. n
    BY <2>2
  <2> QED BY <2>1, <2>3, <2>4
<1>6. \A c \in 1 .. n : fate'[c] # "waiting"
  <2>1. \A c \in 1 .. n : fate[c] = "waiting" => c \in InHand
    BY DEF CallInv, WaitsInv, InHand
  <2> QED BY <1>2, <1>4, <2>1
<1>7. \A c \in 1 .. n : fate'[c] = "superseded" => fate[c] = "superseded"
  BY <1>2, <1>4
<1>8. CallTypes'
  BY <1>1, <1>5 DEF CallInv, CallTypes
<1>9. FlightInv' /\ BehindInv' /\ WaitsInv'
  BY <1>1, <1>6 DEF FlightInv, BehindInv, WaitsInv
<1>10. SentOnceInv' /\ NewerInv'
  BY <1>1, <1>7 DEF CallInv, SentOnceInv, NewerInv
<1> QED BY <1>8, <1>9, <1>10 DEF CallInv

\* What every call that is made adds.
LEMMA Called ==
    ASSUME CallInv, NEW k \in Keys \cup {NoKey}, keyOf' = Append(keyOf, k)
    PROVE  /\ keyOf' \in Seq(Keys \cup {NoKey}) /\ Len(keyOf') = Len(keyOf) + 1
           /\ keyOf'[Len(keyOf) + 1] = k
           /\ \A c \in 1 .. Len(keyOf) : keyOf'[c] = keyOf[c]
           /\ \A c \in 1 .. Len(keyOf) + 1 : c \in 1 .. Len(keyOf) \/ c = Len(keyOf) + 1
           /\ \A c \in 1 .. Len(keyOf) :
                 c \in 1 .. Len(keyOf) + 1 /\ c < Len(keyOf) + 1 /\ c # Len(keyOf) + 1 /\ c # 0
           /\ \A c \in 0 .. Len(keyOf) : c \in 0 .. Len(keyOf) + 1
           /\ Len(keyOf) + 1 \in 1 .. Len(keyOf) + 1 /\ Len(keyOf) + 1 # 0
           /\ \A c \in 1 .. Len(keyOf) : \A d \in c + 1 .. Len(keyOf) :
                 d \in c + 1 .. Len(keyOf) + 1 /\ d \in 1 .. Len(keyOf)
           /\ \A c \in 1 .. Len(keyOf) : Len(keyOf) + 1 \in c + 1 .. Len(keyOf) + 1
<1>1. keyOf \in Seq(Keys \cup {NoKey}) /\ Len(keyOf) \in Nat
  BY CallFacts
<1>2. /\ keyOf' \in Seq(Keys \cup {NoKey}) /\ Len(keyOf') = Len(keyOf) + 1
      /\ keyOf'[Len(keyOf) + 1] = k /\ \A c \in 1 .. Len(keyOf) : keyOf'[c] = keyOf[c]
  BY <1>1, AppendProperties
<1>3. /\ \A c \in 1 .. Len(keyOf) + 1 : c \in 1 .. Len(keyOf) \/ c = Len(keyOf) + 1
      /\ \A c \in 1 .. Len(keyOf) :
            c \in 1 .. Len(keyOf) + 1 /\ c < Len(keyOf) + 1 /\ c # Len(keyOf) + 1 /\ c # 0
      /\ Len(keyOf) + 1 \in 1 .. Len(keyOf) + 1 /\ Len(keyOf) + 1 # 0
  BY <1>1
<1>4. /\ \A c \in 0 .. Len(keyOf) : c \in 0 .. Len(keyOf) + 1
      /\ \A c \in 1 .. Len(keyOf) : \A d \in c + 1 .. Len(keyOf) :
            d \in c + 1 .. Len(keyOf) + 1 /\ d \in 1 .. Len(keyOf)
      /\ \A c \in 1 .. Len(keyOf) : Len(keyOf) + 1 \in c + 1 .. Len(keyOf) + 1
  BY <1>1
<1> QED BY <1>2, <1>3, <1>4

\* A call that takes the place behind another, or is refused at once.
LEMMA NotSentKeeps ==
    ASSUME CallInv, NEW k \in Keys \cup {NoKey}, keyOf' = Append(keyOf, k),
           UNCHANGED <<framed, inFlight>>, fate' \in Seq(Fates), Len(fate') = Len(keyOf) + 1,
           \/ /\ \A c \in 1 .. Len(keyOf) : fate'[c] = fate[c]
              /\ fate'[Len(keyOf) + 1] \notin {"waiting", "superseded"} /\ UNCHANGED slots
           \/ /\ k \in DOMAIN slots /\ slots' = Held(k, Len(keyOf) + 1)
              /\ \A c \in 1 .. Len(keyOf) :
                    fate'[c] = IF c = slots[k] THEN "superseded" ELSE fate[c]
              /\ fate'[Len(keyOf) + 1] = "waiting"
    PROVE  CallInv'
<1> DEFINE n == Len(keyOf)
<1>1. /\ keyOf' \in Seq(Keys \cup {NoKey}) /\ Len(keyOf') = n + 1 /\ keyOf'[n + 1] = k
      /\ \A c \in 1 .. n : keyOf'[c] = keyOf[c]
      /\ \A c \in 1 .. n + 1 : c \in 1 .. n \/ c = n + 1
      /\ \A c \in 1 .. n : c \in 1 .. n + 1 /\ c < n + 1 /\ c # n + 1 /\ c # 0
      /\ n + 1 \in 1 .. n + 1 /\ n + 1 # 0
      /\ \A c \in 0 .. n : c \in 0 .. n + 1
      /\ \A c \in 1 .. n : \A d \in c + 1 .. n : d \in c + 1 .. n + 1 /\ d \in 1 .. n
      /\ \A c \in 1 .. n : n + 1 \in c + 1 .. n + 1
  BY Called
<1>2. /\ \A i \in 1 .. Len(framed) : framed[i] \in 1 .. n /\ framed[i] # 0
      /\ inFlight \subseteq 1 .. Len(framed) /\ DOMAIN slots \subseteq Keys
      /\ \A j \in DOMAIN slots : j # NoKey /\ (slots[j] # 0 => slots[j] \in 1 .. n)
      /\ framed \in Seq(Nat) /\ \A j \in DOMAIN slots : slots[j] \in 0 .. n
  BY CallFacts DEF CallInv, CallTypes
<1> HIDE DEF n
<1>3. /\ DOMAIN slots' = DOMAIN slots
      /\ \A j \in DOMAIN slots :
            slots'[j] = slots[j] \/ (j = k /\ slots'[j] = n + 1 /\ fate'[n + 1] = "waiting")
  BY DEF Held, n
<1>4. \A c \in 1 .. n :
         fate'[c] = fate[c] \/ (k \in DOMAIN slots /\ c = slots[k] /\ fate'[c] = "superseded"
                                /\ slots'[k] = n + 1)
  BY DEF Held, n
<1>5. CallTypes'
  <2>1. \A j \in DOMAIN slots' : slots'[j] \in 0 .. n + 1
    <3>1. n + 1 \in 0 .. n + 1
      BY CallFacts DEF n
    <3> QED BY <1>1, <1>2, <1>3, <3>1
  <2> QED BY <1>1, <1>2, <1>3, <2>1 DEF CallTypes, n
<1>6. \A i \in inFlight : fate'[framed[i]] = "waiting"
  <2>1. \A j \in DOMAIN slots : \A i \in 1 .. Len(framed) : slots[j] # 0 => framed[i] # slots[j]
    BY DEF CallInv, BehindInv
  <2>2. \A i \in inFlight : fate[framed[i]] = "waiting"
    BY DEF CallInv, FlightInv
  <2> QED BY <1>2, <1>4, <2>1, <2>2
<1>7. FlightInv'
  BY SMTT(30), <1>1, <1>2, <1>3, <1>6 DEF CallInv, FlightInv
<1>8. BehindInv'
  <2>1. ASSUME NEW j \in DOMAIN slots
        PROVE  /\ \E i \in inFlight : keyOf'[framed[i]] = j
               /\ slots'[j] # 0 =>
                     /\ fate'[slots'[j]] = "waiting" /\ keyOf'[slots'[j]] = j
                     /\ \A i \in 1 .. Len(framed) :
                           framed[i] # slots'[j] /\ (keyOf'[framed[i]] = j => framed[i] < slots'[j])
    <3>1. /\ \E i \in inFlight : keyOf[framed[i]] = j
          /\ slots[j] # 0 =>
                /\ fate[slots[j]] = "waiting" /\ keyOf[slots[j]] = j
                /\ \A i \in 1 .. Len(framed) :
                      framed[i] # slots[j] /\ (keyOf[framed[i]] = j => framed[i] < slots[j])
      BY DEF CallInv, BehindInv
    <3>2. \E i \in inFlight : keyOf'[framed[i]] = j
      BY <1>1, <1>2, <3>1
    <3>3. CASE j = k /\ slots'[j] = n + 1 /\ fate'[n + 1] = "waiting"
      <4>1. keyOf'[n + 1] = j
        BY <1>1, <1>2, <3>3
      <4>2. \A i \in 1 .. Len(framed) : framed[i] < n + 1 /\ framed[i] # n + 1
        BY <1>1, <1>2
      <4> QED BY <3>2, <3>3, <4>1, <4>2
    <3>4. CASE slots'[j] = slots[j] /\ slots[j] # 0 /\ slots'[j] # n + 1
      <4>1. slots[j] \in 1 .. n
        BY <1>2, <3>4
      <4>2. k \in DOMAIN slots /\ slots[k] = slots[j] /\ slots[j] # 0 => k = j
        BY <3>1 DEF CallInv, BehindInv
      <4>3. fate'[slots[j]] = fate[slots[j]]
        BY <1>4, <3>4, <4>1, <4>2
      <4>4. keyOf'[slots[j]] = keyOf[slots[j]]
        BY <1>1, <4>1
      <4>5. \A i \in 1 .. Len(framed) : keyOf'[framed[i]] = keyOf[framed[i]]
        BY <1>1, <1>2
      <4> QED BY <3>1, <3>2, <3>4, <4>3, <4>4, <4>5
    <3>5. CASE slots'[j] = 0
      BY <3>2, <3>5
    <3>6. slots'[j] = slots[j] => slots'[j] # n + 1
      BY <1>1, <1>2
    <3> QED BY <1>3, <3>3, <3>4, <3>5, <3>6
  <2> QED BY <1>3, <2>1 DEF BehindInv
<1>9. WaitsInv'
  <2>1. ASSUME NEW c \in 1 .. n + 1, fate'[c] = "waiting"
        PROVE  (\E i \in inFlight : framed[i] = c) \/ (\E j \in DOMAIN slots : slots'[j] = c)
    <3>1. CASE c = n + 1
      BY <2>1, <3>1 DEF Held, n
    <3>2. CASE c \in 1 .. n
      <4>1. fate[c] = "waiting" /\ (k \in DOMAIN slots => slots'[k] = slots[k] \/ c # slots[k])
        <5>1. fate'[c] = fate[c]
          BY <1>4, <2>1, <3>2
        <5>2. k \in DOMAIN slots /\ slots'[k] # slots[k] => fate'[slots[k]] = "superseded" \/ slots[k] \notin 1 .. n
          BY DEF Held, n
        <5> QED BY <2>1, <3>2, <5>1, <5>2
      <4>2. (\E i \in inFlight : framed[i] = c) \/ (\E j \in DOMAIN slots : slots[j] = c)
        BY <3>2, <4>1 DEF CallInv, WaitsInv, n
      <4>3. ASSUME NEW j \in DOMAIN slots, slots[j] = c
            PROVE  slots'[j] = c
        BY <1>3, <4>1, <4>3
      <4> QED BY <4>2, <4>3
    <3> QED BY <1>1, <3>1, <3>2
  <2> QED BY <1>1, <1>3, <2>1 DEF WaitsInv
<1>10. SentOnceInv'
  BY <1>1, <1>2 DEF CallInv, SentOnceInv
<1>11. NewerInv'
  <2>1. ASSUME NEW c \in 1 .. n + 1, fate'[c] = "superseded"
        PROVE  /\ \A i \in 1 .. Len(framed) : framed[i] # c
               /\ \E d \in c + 1 .. n + 1 : keyOf'[d] = keyOf'[c]
    <3>1. c \in 1 .. n
      <4>1. fate'[n + 1] # "superseded"
        BY DEF n
      <4> QED BY <1>1, <2>1, <4>1
    <3>2. CASE fate[c] = "superseded"
      <4>1. /\ \A i \in 1 .. Len(framed) : framed[i] # c
            /\ \E d \in c + 1 .. n : keyOf[d] = keyOf[c]
        BY <3>1, <3>2 DEF CallInv, NewerInv, n
      <4> QED BY <1>1, <3>1, <4>1
    <3>3. CASE k \in DOMAIN slots /\ c = slots[k]
      <4>1. /\ keyOf[c] = k /\ \A i \in 1 .. Len(framed) : framed[i] # c
        BY <1>1, <3>1, <3>3 DEF CallInv, BehindInv
      <4>2. n + 1 \in c + 1 .. n + 1 /\ keyOf'[n + 1] = k /\ keyOf'[c] = k
        BY <1>1, <3>1, <4>1
      <4> QED BY <4>1, <4>2
    <3> QED BY <1>4, <2>1, <3>1, <3>2, <3>3
  <2> QED BY <1>1, <2>1 DEF NewerInv
<1> QED BY <1>5, <1>7, <1>8, <1>9, <1>10, <1>11 DEF CallInv

\* A call that is sent as it is made, or has nothing to be sent on.
LEMMA SentAtOnceKeeps ==
    ASSUME CallInv, NEW k \in Keys \cup {NoKey}, keyOf' = Append(keyOf, k),
           NEW what \in {"waiting", "closed"}, fate' = Append(fate, what),
           framed' = Append(framed, Len(keyOf) + 1),
           \/ /\ what = "waiting" /\ inFlight' = inFlight \cup {Len(framed) + 1}
              /\ k \notin DOMAIN slots
              /\ slots' = IF k = NoKey THEN slots ELSE Held(k, 0)
           \/ what = "closed" /\ inFlight = {} /\ UNCHANGED <<inFlight, slots>>
    PROVE  CallInv'
<1> DEFINE n == Len(keyOf)
           f == Len(framed)
<1>1. /\ keyOf' \in Seq(Keys \cup {NoKey}) /\ Len(keyOf') = n + 1 /\ keyOf'[n + 1] = k
      /\ \A c \in 1 .. n : keyOf'[c] = keyOf[c]
      /\ \A c \in 1 .. n + 1 : c \in 1 .. n \/ c = n + 1
      /\ \A c \in 1 .. n : c \in 1 .. n + 1 /\ c < n + 1 /\ c # n + 1 /\ c # 0
      /\ n + 1 \in 1 .. n + 1 /\ n + 1 # 0
      /\ \A c \in 0 .. n : c \in 0 .. n + 1
      /\ \A c \in 1 .. n : \A d \in c + 1 .. n : d \in c + 1 .. n + 1 /\ d \in 1 .. n
      /\ \A c \in 1 .. n : n + 1 \in c + 1 .. n + 1
  BY Called
<1>2. /\ n \in Nat /\ f \in Nat /\ framed \in Seq(Nat) /\ fate \in Seq(Fates) /\ Len(fate) = n
      /\ \A i \in 1 .. f : framed[i] \in 1 .. n /\ framed[i] # 0
      /\ inFlight \subseteq 1 .. f /\ DOMAIN slots \subseteq Keys
      /\ \A j \in DOMAIN slots : j # NoKey /\ (slots[j] # 0 => slots[j] \in 1 .. n)
      /\ \A j \in DOMAIN slots : slots[j] \in 0 .. n
  BY CallFacts DEF CallInv, CallTypes
<1>3. /\ framed' \in Seq(Nat) /\ Len(framed') = f + 1 /\ framed'[f + 1] = n + 1
      /\ \A i \in 1 .. f : framed'[i] = framed[i]
  <2>1. n + 1 \in Nat
    BY <1>2
  <2> QED BY <1>2, <2>1, AppendProperties
<1>4. /\ fate' \in Seq(Fates) /\ Len(fate') = n + 1 /\ fate'[n + 1] = what
      /\ \A c \in 1 .. n : fate'[c] = fate[c]
  <2>1. what \in Fates
    BY DEF Fates
  <2>2. /\ fate' \in Seq(Fates) /\ Len(fate') = Len(fate) + 1 /\ fate'[Len(fate) + 1] = what
        /\ \A c \in 1 .. Len(fate) : fate'[c] = fate[c]
    BY <1>2, <2>1, AppendProperties
  <2> QED BY <1>2, <2>2
<1>5. /\ \A i \in 1 .. f + 1 : i \in 1 .. f \/ i = f + 1
      /\ \A i \in 1 .. f : i \in 1 .. f + 1 /\ i # f + 1 /\ ~(f + 1 < i)
      /\ f + 1 \in 1 .. f + 1 /\ ~(f + 1 < f + 1) /\ 0 \in 0 .. n + 1
  BY <1>2
<1>6. \/ /\ what = "waiting" /\ inFlight' = inFlight \cup {f + 1} /\ k \notin DOMAIN slots
         /\ slots' = IF k = NoKey THEN slots ELSE Held(k, 0)
      \/ what = "closed" /\ inFlight = {} /\ UNCHANGED <<inFlight, slots>>
  OBVIOUS
<1> HIDE DEF n, f
<1>7. /\ \A j \in DOMAIN slots' : (j \in DOMAIN slots /\ slots'[j] = slots[j])
                                    \/ (j = k /\ k \in Keys /\ slots'[j] = 0 /\ f + 1 \in inFlight')
      /\ \A j \in DOMAIN slots : j \in DOMAIN slots' /\ slots'[j] = slots[j]
      /\ what = "waiting" /\ k # NoKey => k \in DOMAIN slots'
  BY <1>6 DEF Held
<1>8. /\ inFlight' \subseteq inFlight \cup {f + 1} /\ inFlight \subseteq inFlight'
      /\ f + 1 \in inFlight' => what = "waiting" /\ k \notin DOMAIN slots
  BY <1>2, <1>5, <1>6
<1>9. CallTypes'
  <2>1. \A i \in 1 .. f + 1 : framed'[i] \in 1 .. n + 1
    BY <1>1, <1>2, <1>3, <1>5
  <2>2. inFlight' \subseteq 1 .. f + 1
    BY <1>2, <1>5, <1>8
  <2>3. DOMAIN slots' \subseteq Keys /\ \A j \in DOMAIN slots' : slots'[j] \in 0 .. n + 1
    BY <1>1, <1>2, <1>5, <1>7
  <2> QED BY <1>1, <1>3, <1>4, <2>1, <2>2, <2>3 DEF CallTypes
<1>10. /\ \A i \in 1 .. f : keyOf'[framed'[i]] = keyOf[framed[i]] /\ fate'[framed'[i]] = fate[framed[i]]
       /\ keyOf'[framed'[f + 1]] = k
  BY <1>1, <1>2, <1>3, <1>4
<1>11. FlightInv'
  <2>1. /\ \A i \in inFlight :
              /\ fate[framed[i]] = "waiting"
              /\ keyOf[framed[i]] # NoKey => keyOf[framed[i]] \in DOMAIN slots
        /\ \A i, j \in inFlight :
              keyOf[framed[i]] = keyOf[framed[j]] /\ keyOf[framed[i]] # NoKey => i = j
    BY DEF CallInv, FlightInv
  <2>2. ASSUME NEW i \in inFlight'
        PROVE  /\ fate'[framed'[i]] = "waiting"
               /\ keyOf'[framed'[i]] # NoKey => keyOf'[framed'[i]] \in DOMAIN slots'
    <3>1. CASE i = f + 1
      BY <1>3, <1>4, <1>7, <1>8, <1>10, <3>1
    <3>2. CASE i \in inFlight
      BY <1>2, <1>7, <1>10, <2>1, <3>2
    <3> QED BY <1>8, <3>1, <3>2
  <2>3. ASSUME NEW i \in inFlight', NEW j \in inFlight', keyOf'[framed'[i]] = keyOf'[framed'[j]],
               keyOf'[framed'[i]] # NoKey
        PROVE  i = j
    <3>1. \A h \in inFlight : keyOf'[framed'[h]] = keyOf[framed[h]]
      BY <1>2, <1>10
    <3>2. \A h \in inFlight : f + 1 \in inFlight' /\ keyOf[framed[h]] # NoKey => keyOf[framed[h]] # k
      BY <1>8, <2>1
    <3>3. CASE i = f + 1 /\ j = f + 1
      BY <3>3
    <3>4. CASE i = f + 1 /\ j \in inFlight
      <4>1. keyOf[framed[j]] = k /\ k # NoKey
        BY <1>10, <2>3, <3>1, <3>4
      <4> QED BY <3>2, <3>4, <4>1
    <3>5. CASE i \in inFlight /\ j = f + 1
      <4>1. keyOf[framed[i]] = k /\ k # NoKey
        BY <1>10, <2>3, <3>1, <3>5
      <4> QED BY <3>2, <3>5, <4>1
    <3>6. CASE i \in inFlight /\ j \in inFlight
      <4>1. keyOf[framed[i]] = keyOf[framed[j]] /\ keyOf[framed[i]] # NoKey
        BY <2>3, <3>1, <3>6
      <4> QED BY <2>1, <3>6, <4>1
    <3> QED BY <1>8, <3>3, <3>4, <3>5, <3>6
  <2> QED BY <2>2, <2>3 DEF FlightInv
<1>12. BehindInv'
  <2>1. ASSUME NEW j \in DOMAIN slots'
        PROVE  /\ \E i \in inFlight' : keyOf'[framed'[i]] = j
               /\ slots'[j] # 0 =>
                     /\ fate'[slots'[j]] = "waiting" /\ keyOf'[slots'[j]] = j
                     /\ \A i \in 1 .. f + 1 :
                           framed'[i] # slots'[j]
                             /\ (keyOf'[framed'[i]] = j => framed'[i] < slots'[j])
    <3>1. CASE j = k /\ slots'[j] = 0 /\ f + 1 \in inFlight'
      BY <1>10, <3>1
    <3>2. CASE j \in DOMAIN slots /\ slots'[j] = slots[j]
      <4>1. /\ \E i \in inFlight : keyOf[framed[i]] = j
            /\ slots[j] # 0 =>
                  /\ fate[slots[j]] = "waiting" /\ keyOf[slots[j]] = j
                  /\ \A i \in 1 .. f :
                        framed[i] # slots[j] /\ (keyOf[framed[i]] = j => framed[i] < slots[j])
        BY <3>2 DEF CallInv, BehindInv, f
      <4>2. \E i \in inFlight' : keyOf'[framed'[i]] = j
        BY <1>2, <1>8, <1>10, <4>1
      <4>3. inFlight # {} /\ j # k
        <5>1. inFlight # {}
          BY <4>1
        <5> QED BY <1>6, <3>2, <5>1
      <4>4. ASSUME slots[j] # 0
            PROVE  /\ fate'[slots[j]] = "waiting" /\ keyOf'[slots[j]] = j
                   /\ \A i \in 1 .. f + 1 :
                         framed'[i] # slots[j] /\ (keyOf'[framed'[i]] = j => framed'[i] < slots[j])
        <5>1. slots[j] \in 1 .. n
          BY <1>2, <3>2, <4>4
        <5>2. fate'[slots[j]] = "waiting" /\ keyOf'[slots[j]] = j
          BY <1>1, <1>4, <4>1, <4>4, <5>1
        <5>3. ASSUME NEW i \in 1 .. f + 1
              PROVE  framed'[i] # slots[j] /\ (keyOf'[framed'[i]] = j => framed'[i] < slots[j])
          <6>1. CASE i = f + 1
            BY <1>1, <1>3, <1>10, <4>3, <5>1, <6>1
          <6>2. CASE i \in 1 .. f
            BY <1>3, <1>10, <4>1, <4>4, <6>2
          <6> QED BY <1>5, <6>1, <6>2
        <5> QED BY <5>2, <5>3
      <4> QED BY <3>2, <4>2, <4>4
    <3> QED BY <1>7, <3>1, <3>2
  <2> QED BY <1>3, <2>1 DEF BehindInv
<1>13. WaitsInv'
  <2>1. ASSUME NEW c \in 1 .. n + 1, fate'[c] = "waiting"
        PROVE  (\E i \in inFlight' : framed'[i] = c) \/ (\E j \in DOMAIN slots' : slots'[j] = c)
    <3>1. CASE c = n + 1
      <4>1. f + 1 \in inFlight'
        BY <1>4, <1>6, <2>1, <3>1
      <4> QED BY <1>3, <3>1, <4>1
    <3>2. CASE c \in 1 .. n
      <4>1. (\E i \in inFlight : framed[i] = c) \/ (\E j \in DOMAIN slots : slots[j] = c)
        BY <1>4, <2>1, <3>2 DEF CallInv, WaitsInv, n
      <4> QED BY <1>2, <1>3, <1>7, <1>8, <4>1
    <3> QED BY <1>1, <3>1, <3>2
  <2> QED BY <1>1, <2>1 DEF WaitsInv
<1>14. SentOnceInv'
  <2>1. ASSUME NEW i \in 1 .. f + 1, NEW j \in 1 .. f + 1, i < j
        PROVE  /\ framed'[i] # framed'[j]
               /\ keyOf'[framed'[i]] = keyOf'[framed'[j]] /\ keyOf'[framed'[i]] # NoKey
                    => framed'[i] < framed'[j]
    <3>1. CASE j = f + 1 /\ i \in 1 .. f
      BY <1>1, <1>2, <1>3, <3>1
    <3>2. CASE i \in 1 .. f /\ j \in 1 .. f
      <4>1. /\ framed[i] # framed[j]
            /\ keyOf[framed[i]] = keyOf[framed[j]] /\ keyOf[framed[i]] # NoKey
                 => framed[i] < framed[j]
        BY <2>1, <3>2 DEF CallInv, SentOnceInv, f
      <4>2. /\ framed'[i] = framed[i] /\ framed'[j] = framed[j]
            /\ keyOf'[framed'[i]] = keyOf[framed[i]] /\ keyOf'[framed'[j]] = keyOf[framed[j]]
        BY <1>3, <1>10, <3>2
      <4> QED BY <4>1, <4>2
    <3> QED BY <1>5, <2>1, <3>1, <3>2
  <2> QED BY <1>3, <2>1 DEF SentOnceInv
<1>15. NewerInv'
  <2>1. ASSUME NEW c \in 1 .. n + 1, fate'[c] = "superseded"
        PROVE  /\ \A i \in 1 .. f + 1 : framed'[i] # c
               /\ \E d \in c + 1 .. n + 1 : keyOf'[d] = keyOf'[c]
    <3>1. c \in 1 .. n /\ fate[c] = "superseded"
      BY <1>1, <1>4, <2>1
    <3>2. /\ \A i \in 1 .. f : framed[i] # c
          /\ \E d \in c + 1 .. n : keyOf[d] = keyOf[c]
      BY <3>1 DEF CallInv, NewerInv, n, f
    <3>3. \A i \in 1 .. f + 1 : framed'[i] # c
      BY <1>1, <1>3, <1>5, <3>1, <3>2
    <3>4. PICK d \in c + 1 .. n : keyOf[d] = keyOf[c]
      BY <3>2
    <3>5. d \in c + 1 .. n + 1 /\ keyOf'[d] = keyOf[d] /\ keyOf'[c] = keyOf[c]
      BY <1>1, <3>1, <3>4
    <3> QED BY <3>3, <3>4, <3>5
  <2>2. Len(keyOf') = n + 1 /\ Len(framed') = f + 1
    BY <1>1, <1>3
  <2> QED BY <2>1, <2>2, Zenon DEF NewerInv
<1> QED BY <1>9, <1>11, <1>12, <1>13, <1>14, <1>15 DEF CallInv

LEMMA InvokingKeeps ==
    ASSUME ClientInv, NEW k \in Keys \cup {NoKey},
           InvokeRefused(k) \/ InvokeWaits(k) \/ InvokeSends(k) \/ InvokeCannotSend(k)
    PROVE  CallInv'
<1> DEFINE n == Len(keyOf)
<1>1. CallInv /\ n \in Nat /\ fate \in Seq(Fates) /\ Len(fate) = n /\ DOMAIN fate = 1 .. n
  BY CallFacts DEF ClientInv
<1>2. CASE InvokeRefused(k)
  <2>1. /\ keyOf' = Append(keyOf, k) /\ fate' = Append(fate, "refused")
        /\ UNCHANGED <<framed, inFlight, slots>>
    BY <1>2 DEF InvokeRefused
  <2>2. "refused" \in Fates
    BY DEF Fates
  <2>3. /\ fate' \in Seq(Fates) /\ Len(fate') = Len(fate) + 1
        /\ fate'[Len(fate) + 1] = "refused" /\ \A c \in 1 .. Len(fate) : fate'[c] = fate[c]
    BY <1>1, <2>1, <2>2, AppendProperties
  <2>4. /\ fate' \in Seq(Fates) /\ Len(fate') = n + 1
        /\ fate'[n + 1] = "refused" /\ \A c \in 1 .. n : fate'[c] = fate[c]
    BY <1>1, <2>3
  <2> QED BY <1>1, <2>1, <2>4, NotSentKeeps
<1>3. CASE InvokeWaits(k)
  <2> DEFINE g == [c \in DOMAIN fate |-> IF c = slots[k] THEN "superseded" ELSE fate[c]]
  <2>1. /\ keyOf' = Append(keyOf, k) /\ fate' = Append(g, "waiting")
        /\ k \in DOMAIN slots /\ slots' = Held(k, n + 1)
        /\ UNCHANGED <<framed, inFlight>>
    BY <1>3 DEF InvokeWaits, Call, This
  <2>2. "waiting" \in Fates /\ "superseded" \in Fates
    BY DEF Fates
  <2>3. \A c \in 1 .. n : fate[c] \in Fates
    BY <1>1, ElementOfSeq
  <2>4. g \in [1 .. n -> Fates]
    BY <1>1, <2>2, <2>3
  <2>5. g \in Seq(Fates)
    BY <1>1, <2>4, SeqDef
  <2>6. DOMAIN g = 1 .. n /\ \A c \in 1 .. n : g[c] = IF c = slots[k] THEN "superseded" ELSE fate[c]
    BY <1>1
  <2> HIDE DEF g
  <2>7. Len(g) = n
    BY <1>1, <2>5, <2>6
  <2>8. /\ fate' \in Seq(Fates) /\ Len(fate') = Len(g) + 1
        /\ fate'[Len(g) + 1] = "waiting" /\ \A c \in 1 .. Len(g) : fate'[c] = g[c]
    BY <2>1, <2>2, <2>5, AppendProperties
  <2>9. /\ fate' \in Seq(Fates) /\ Len(fate') = n + 1 /\ fate'[n + 1] = "waiting"
        /\ \A c \in 1 .. n : fate'[c] = IF c = slots[k] THEN "superseded" ELSE fate[c]
    BY <2>6, <2>7, <2>8
  <2> QED BY <1>1, <2>1, <2>9, NotSentKeeps
<1>4. CASE InvokeSends(k)
  <2>1. /\ keyOf' = Append(keyOf, k) /\ fate' = Append(fate, "waiting")
        /\ framed' = Append(framed, n + 1) /\ inFlight' = inFlight \cup {Len(framed) + 1}
        /\ k \notin DOMAIN slots /\ slots' = IF k = NoKey THEN slots ELSE Held(k, 0)
    BY <1>4 DEF InvokeSends, Call, This, FrameId, Nobody
  <2> QED BY <1>1, <2>1, SentAtOnceKeeps
<1>5. CASE InvokeCannotSend(k)
  <2>1. /\ keyOf' = Append(keyOf, k) /\ fate' = Append(fate, "closed")
        /\ framed' = Append(framed, n + 1) /\ UNCHANGED <<inFlight, slots>> /\ socket = "none"
    BY <1>5 DEF InvokeCannotSend, This
  <2>2. inFlight = {}
    BY <2>1 DEF ClientInv, LinkInv, AlwaysAWayBack
  <2> QED BY <1>1, <2>1, <2>2, SentAtOnceKeeps
<1> QED BY <1>2, <1>3, <1>4, <1>5

\* Losing the last call of a key's hold frees the key or sends the one behind.
LEMMA SettlingCallKeeps ==
    ASSUME CallInv, NEW i \in inFlight, NEW how \in {"answered", "timeout"}, NEW left,
           SettleCall(i, how, left)
    PROVE  CallInv'
<1> DEFINE n == Len(keyOf)
           f == Len(framed)
           c == framed[i]
           k == keyOf[c]
           next == IF k \in DOMAIN slots THEN slots[k] ELSE 0
<1>1. /\ n \in Nat /\ f \in Nat /\ framed \in Seq(Nat) /\ fate \in Seq(Fates) /\ Len(fate) = n
      /\ DOMAIN fate = 1 .. n /\ keyOf \in Seq(Keys \cup {NoKey})
      /\ \A h \in 1 .. f : framed[h] \in 1 .. n /\ framed[h] # 0
      /\ inFlight \subseteq 1 .. f /\ DOMAIN slots \subseteq Keys
      /\ \A j \in DOMAIN slots : j # NoKey /\ (slots[j] # 0 => slots[j] \in 1 .. n)
      /\ \A j \in DOMAIN slots : slots[j] \in 0 .. n
  BY CallFacts DEF CallInv, CallTypes
<1>2. i \in 1 .. f /\ c \in 1 .. n
  BY <1>1
<1>3. /\ fate' = [fate EXCEPT ![c] = how] /\ UNCHANGED keyOf
      /\ IF next = 0
         THEN inFlight' = inFlight \ {i} /\ slots' = Freed(k) /\ UNCHANGED framed
         ELSE /\ framed' = Append(framed, next) /\ inFlight' = (inFlight \ {i}) \cup {f + 1}
              /\ slots' = Held(k, 0)
  BY DEF SettleCall, FrameId, Nobody
<1>4. how \in Fates /\ how # "waiting" /\ how # "superseded"
  BY DEF Fates
<1>5. /\ fate' \in Seq(Fates) /\ Len(fate') = n /\ fate'[c] = how
      /\ \A d \in 1 .. n : d # c => fate'[d] = fate[d]
  BY <1>1, <1>2, <1>3, <1>4, ExceptSeq
<1>6. /\ \A h \in inFlight :
            /\ fate[framed[h]] = "waiting"
            /\ keyOf[framed[h]] # NoKey => keyOf[framed[h]] \in DOMAIN slots
      /\ \A h, j \in inFlight :
            keyOf[framed[h]] = keyOf[framed[j]] /\ keyOf[framed[h]] # NoKey => h = j
  BY DEF CallInv, FlightInv
<1>7. \A j \in DOMAIN slots :
        /\ \E h \in inFlight : keyOf[framed[h]] = j
        /\ slots[j] # 0 =>
              /\ fate[slots[j]] = "waiting" /\ keyOf[slots[j]] = j
              /\ \A h \in 1 .. f :
                    framed[h] # slots[j] /\ (keyOf[framed[h]] = j => framed[h] < slots[j])
  BY DEF CallInv, BehindInv
<1>8. \A d \in 1 .. n : fate'[d] = "waiting" => d # c /\ fate[d] = "waiting"
  BY <1>4, <1>5
<1>9. \A d \in 1 .. n : fate'[d] = "superseded" => d # c /\ fate[d] = "superseded"
  BY <1>4, <1>5
<1>10. \A h \in 1 .. f : h # i => framed[h] # c
  <2>1. \A g, h \in 1 .. f : g < h => framed[g] # framed[h]
    BY DEF CallInv, SentOnceInv
  <2>2. \A h \in 1 .. f : h # i => h < i \/ i < h
    BY <1>1, <1>2
  <2> QED BY <1>2, <2>1, <2>2
<1>11. \A d \in 1 .. n :
         fate[d] = "waiting" => (\E h \in inFlight : framed[h] = d) \/ (\E j \in DOMAIN slots : slots[j] = d)
  BY DEF CallInv, WaitsInv, n
<1> HIDE DEF n, f, c, k
<1>12. /\ Len(keyOf') = n
       /\ c \in 1 .. n /\ keyOf[c] = k /\ framed[i] = c /\ c # 0
  BY <1>1, <1>2, <1>3 DEF n, f, c, k
<1>13. \A h \in inFlight \ {i} :
          /\ fate'[framed[h]] = "waiting" /\ framed[h] \in 1 .. n
          /\ keyOf[framed[h]] # NoKey => keyOf[framed[h]] \in DOMAIN slots /\ keyOf[framed[h]] # k
  BY <1>1, <1>5, <1>6, <1>10, <1>12
<1>14. \A j \in DOMAIN slots : slots[j] # 0 =>
          slots[j] \in 1 .. n /\ slots[j] # c /\ fate'[slots[j]] = "waiting"
  BY <1>1, <1>2, <1>5, <1>7, <1>12
<1>15. \A j \in DOMAIN slots : j # k => \E h \in inFlight \ {i} : keyOf[framed[h]] = j
  BY <1>7, <1>12
<1>16. CASE next = 0
  <2>1. inFlight' = inFlight \ {i} /\ UNCHANGED <<framed, keyOf>>
    BY <1>3, <1>16
  <2>2. /\ DOMAIN slots' = DOMAIN slots \ {k}
        /\ \A j \in DOMAIN slots' : slots'[j] = slots[j]
    BY <1>3, <1>16 DEF Freed, Restrict
  <2>3. CallTypes'
    BY <1>1, <1>5, <1>12, <2>1, <2>2 DEF CallTypes, f, n
  <2>4. FlightInv'
    BY <1>6, <1>13, <2>1, <2>2 DEF FlightInv
  <2>5. BehindInv'
    BY <1>7, <1>14, <1>15, <2>1, <2>2 DEF BehindInv, f
  <2>6. WaitsInv'
    <3>1. ASSUME NEW d \in 1 .. n, fate'[d] = "waiting"
          PROVE  (\E h \in inFlight' : framed[h] = d) \/ (\E j \in DOMAIN slots' : slots'[j] = d)
      <4>1. d # c /\ fate[d] = "waiting" /\ d # 0
        BY <1>1, <1>8, <3>1
      <4>2. k \in DOMAIN slots => slots[k] # d
        BY <1>16, <4>1
      <4>3. (\E h \in inFlight : framed[h] = d) \/ (\E j \in DOMAIN slots : slots[j] = d)
        BY <1>11, <4>1
      <4> QED BY <1>12, <2>1, <2>2, <4>1, <4>2, <4>3
    <3> QED BY <1>12, <2>1, <3>1 DEF WaitsInv
  <2>7. SentOnceInv'
    BY <2>1 DEF CallInv, SentOnceInv
  <2>8. NewerInv'
    BY <1>9, <2>1 DEF CallInv, NewerInv, n
  <2> QED BY <2>3, <2>4, <2>5, <2>6, <2>7, <2>8 DEF CallInv
<1>17. CASE next # 0
  <2>1. /\ k \in DOMAIN slots /\ next = slots[k] /\ next \in 1 .. n /\ k # NoKey
        /\ fate[next] = "waiting" /\ keyOf[next] = k /\ fate'[next] = "waiting"
        /\ \A h \in 1 .. f : framed[h] # next /\ (keyOf[framed[h]] = k => framed[h] < next)
    BY <1>1, <1>7, <1>14, <1>17
  <2> HIDE DEF next
  <2>2. /\ framed' = Append(framed, next) /\ inFlight' = (inFlight \ {i}) \cup {f + 1}
        /\ slots' = Held(k, 0) /\ UNCHANGED keyOf
    BY <1>3, <1>17
  <2>3. /\ framed' \in Seq(Nat) /\ Len(framed') = f + 1 /\ framed'[f + 1] = next
        /\ \A h \in 1 .. f : framed'[h] = framed[h]
    <3>1. next \in Nat
      BY <1>1, <2>1
    <3> QED BY <1>1, <2>2, <3>1, AppendProperties DEF f
  <2>4. /\ DOMAIN slots' = DOMAIN slots /\ slots'[k] = 0
        /\ \A j \in DOMAIN slots : j # k => slots'[j] = slots[j]
    BY <2>1, <2>2 DEF Held
  <2>5. /\ \A h \in 1 .. f + 1 : h \in 1 .. f \/ h = f + 1
        /\ \A h \in 1 .. f : h \in 1 .. f + 1 /\ h # f + 1 /\ ~(f + 1 < h)
        /\ f + 1 \in 1 .. f + 1 /\ ~(f + 1 < f + 1) /\ 0 \in 0 .. n
    BY <1>1
  <2>6. \A h \in inFlight \ {i} : h \in 1 .. f /\ framed'[h] = framed[h]
    BY <1>1, <2>3
  <2>7. CallTypes'
    <3>1. \A h \in 1 .. f + 1 : framed'[h] \in 1 .. n
      BY <1>1, <2>1, <2>3, <2>5
    <3>2. inFlight' \subseteq 1 .. f + 1
      BY <1>1, <2>2, <2>5
    <3>3. \A j \in DOMAIN slots' : slots'[j] \in 0 .. n
      BY <1>1, <2>4, <2>5
    <3>4. keyOf' \in Seq(Keys \cup {NoKey}) /\ Len(fate') = Len(keyOf') /\ DOMAIN slots' \subseteq Keys
      BY <1>1, <1>5, <1>12, <2>2, <2>4
    <3> QED BY <1>5, <1>12, <2>3, <3>1, <3>2, <3>3, <3>4 DEF CallTypes
  <2>8. FlightInv'
    <3>1. ASSUME NEW h \in inFlight'
          PROVE  /\ fate'[framed'[h]] = "waiting"
                 /\ keyOf'[framed'[h]] # NoKey => keyOf'[framed'[h]] \in DOMAIN slots'
      <4>1. CASE h = f + 1
        BY <2>1, <2>2, <2>3, <2>4, <4>1
      <4>2. CASE h \in inFlight \ {i}
        BY <1>13, <2>2, <2>4, <2>6, <4>2
      <4> QED BY <2>2, <4>1, <4>2
    <3>2. ASSUME NEW h \in inFlight', NEW j \in inFlight', keyOf'[framed'[h]] = keyOf'[framed'[j]],
                 keyOf'[framed'[h]] # NoKey
          PROVE  h = j
      <4>1. keyOf' = keyOf /\ keyOf'[framed'[f + 1]] = k
        BY <2>1, <2>2, <2>3
      <4>2. \A g \in inFlight \ {i} :
               keyOf'[framed'[g]] = keyOf[framed[g]] /\ (keyOf'[framed'[g]] # NoKey => keyOf'[framed'[g]] # k)
        BY <1>13, <2>6, <4>1
      <4>3. CASE h = f + 1 /\ j = f + 1
        BY <4>3
      <4>4. CASE h = f + 1 /\ j \in inFlight \ {i}
        BY <3>2, <4>1, <4>2, <4>4
      <4>5. CASE h \in inFlight \ {i} /\ j = f + 1
        BY <3>2, <4>1, <4>2, <4>5
      <4>6. CASE h \in inFlight \ {i} /\ j \in inFlight \ {i}
        <5>1. keyOf[framed[h]] = keyOf[framed[j]] /\ keyOf[framed[h]] # NoKey
          BY <3>2, <4>2, <4>6
        <5> QED BY <1>6, <4>6, <5>1
      <4> QED BY <2>2, <4>3, <4>4, <4>5, <4>6
    <3> QED BY <3>1, <3>2 DEF FlightInv
  <2>9. BehindInv'
    <3>1. ASSUME NEW j \in DOMAIN slots
          PROVE  /\ \E h \in inFlight' : keyOf'[framed'[h]] = j
                 /\ slots'[j] # 0 =>
                       /\ fate'[slots'[j]] = "waiting" /\ keyOf'[slots'[j]] = j
                       /\ \A h \in 1 .. f + 1 :
                             framed'[h] # slots'[j]
                               /\ (keyOf'[framed'[h]] = j => framed'[h] < slots'[j])
      <4>1. CASE j = k
        BY <2>1, <2>2, <2>3, <2>4, <4>1
      <4>2. CASE j # k
        <5>1. PICK h \in inFlight \ {i} : keyOf[framed[h]] = j
          BY <1>15, <4>2
        <5>2. \E g \in inFlight' : keyOf'[framed'[g]] = j
          BY <2>2, <2>6, <5>1
        <5>3. slots'[j] = slots[j]
          BY <2>4, <4>2
        <5>4. ASSUME slots[j] # 0, NEW g \in 1 .. f + 1
              PROVE  framed'[g] # slots[j] /\ (keyOf'[framed'[g]] = j => framed'[g] < slots[j])
          <6>1. CASE g = f + 1
            <7>1. keyOf[slots[j]] = j
              BY <1>7, <5>4
            <7> QED BY <2>1, <2>2, <2>3, <4>2, <6>1, <7>1
          <6>2. CASE g \in 1 .. f
            BY <1>7, <2>2, <2>3, <5>4, <6>2
          <6> QED BY <2>5, <6>1, <6>2
        <5>5. slots[j] # 0 => fate'[slots[j]] = "waiting" /\ keyOf'[slots[j]] = j
          BY <1>7, <1>14, <2>2
        <5> QED BY <5>2, <5>3, <5>4, <5>5
      <4> QED BY <4>1, <4>2
    <3> QED BY <2>3, <2>4, <3>1 DEF BehindInv
  <2>10. WaitsInv'
    <3>1. ASSUME NEW d \in 1 .. n, fate'[d] = "waiting"
          PROVE  (\E h \in inFlight' : framed'[h] = d) \/ (\E j \in DOMAIN slots' : slots'[j] = d)
      <4>1. d # c /\ fate[d] = "waiting"
        BY <1>8, <3>1
      <4>2. (\E h \in inFlight : framed[h] = d) \/ (\E j \in DOMAIN slots : slots[j] = d)
        BY <1>11, <4>1
      <4>3. ASSUME NEW h \in inFlight, framed[h] = d
            PROVE  h \in inFlight' /\ framed'[h] = d
        BY <1>12, <2>2, <2>6, <4>1, <4>3
      <4>4. ASSUME NEW j \in DOMAIN slots, slots[j] = d, j # k
            PROVE  slots'[j] = d
        BY <2>4, <4>4
      <4>5. slots[k] = d => f + 1 \in inFlight' /\ framed'[f + 1] = d
        BY <2>1, <2>2, <2>3
      <4> QED BY <2>4, <4>2, <4>3, <4>4, <4>5
    <3> QED BY <1>12, <3>1, Zenon DEF WaitsInv
  <2>11. SentOnceInv'
    <3>1. ASSUME NEW h \in 1 .. f + 1, NEW j \in 1 .. f + 1, h < j
          PROVE  /\ framed'[h] # framed'[j]
                 /\ keyOf'[framed'[h]] = keyOf'[framed'[j]] /\ keyOf'[framed'[h]] # NoKey
                      => framed'[h] < framed'[j]
      <4>1. CASE j = f + 1 /\ h \in 1 .. f
        BY <2>1, <2>2, <2>3, <4>1
      <4>2. CASE h \in 1 .. f /\ j \in 1 .. f
        <5>1. /\ framed[h] # framed[j]
              /\ keyOf[framed[h]] = keyOf[framed[j]] /\ keyOf[framed[h]] # NoKey
                   => framed[h] < framed[j]
          BY <3>1, <4>2 DEF CallInv, SentOnceInv, f
        <5> QED BY <2>2, <2>3, <4>2, <5>1
      <4> QED BY <2>5, <3>1, <4>1, <4>2
    <3> QED BY <2>3, <3>1 DEF SentOnceInv
  <2>12. NewerInv'
    <3>1. ASSUME NEW d \in 1 .. n, fate'[d] = "superseded"
          PROVE  /\ \A h \in 1 .. f + 1 : framed'[h] # d
                 /\ \E e \in d + 1 .. n : keyOf'[e] = keyOf'[d]
      <4>1. fate[d] = "superseded" /\ d # next
        BY <1>9, <2>1, <3>1
      <4>2. (\A h \in 1 .. f : framed[h] # d) /\ (\E e \in d + 1 .. n : keyOf[e] = keyOf[d])
        BY <4>1 DEF CallInv, NewerInv, f, n
      <4> QED BY <2>2, <2>3, <2>5, <4>1, <4>2
    <3>2. Len(keyOf') = n /\ Len(framed') = f + 1
      BY <1>12, <2>3
    <3> QED BY <3>1, <3>2, Zenon DEF NewerInv
  <2> QED BY <2>7, <2>8, <2>9, <2>10, <2>11, <2>12 DEF CallInv
<1> QED BY <1>16, <1>17

LEMMA ClientStep == ClientInv /\ [ClientNext]_connectionVars => ClientInv'
<1> SUFFICES ASSUME ClientInv, [ClientNext]_connectionVars
             PROVE  ClientInv'
  OBVIOUS
<1>1. ASSUME UNCHANGED <<keyOf, fate, framed, inFlight, slots>>
      PROVE  CallInv'
  <2>1. CallTypes' /\ FlightInv'
    BY <1>1 DEF ClientInv, CallInv, CallTypes, FlightInv
  <2>2. BehindInv' /\ WaitsInv'
    BY <1>1 DEF ClientInv, CallInv, BehindInv, WaitsInv
  <2>3. SentOnceInv' /\ NewerInv'
    BY <1>1 DEF ClientInv, CallInv, SentOnceInv, NewerInv
  <2> QED BY <2>1, <2>2, <2>3 DEF CallInv
<1>2. CASE UNCHANGED connectionVars
  BY <1>1, <1>2 DEF connectionVars, linkVars, callingVars, ClientInv, LinkInv, AlwaysAWayBack
<1>3. CASE ClientNext
  <2>1. ASSUME NEW k \in Keys \cup {NoKey},
               InvokeRefused(k) \/ InvokeWaits(k) \/ InvokeSends(k) \/ InvokeCannotSend(k)
        PROVE  CallInv'
    BY <2>1, InvokingKeeps
  <2>2. ASSUME NEW i, Answer(i) \/ CallTimesOut(i)
        PROVE  CallInv'
    <3>1. i \in inFlight /\ \E left : SettleCall(i, "answered", left) \/ SettleCall(i, "timeout", left)
      BY <2>2 DEF Answer, CallTimesOut
    <3> QED BY <3>1, SettlingCallKeeps DEF ClientInv
  <2>3. ASSUME NEW i, LateAnswer(i)
        PROVE  CallInv'
    BY <1>1, <2>3 DEF LateAnswer
  <2>4. ASSUME Hello \/ DialFails \/ RetryFires
        PROVE  CallInv'
    <3>1. UNCHANGED callingVars
      <4>1. CASE Hello
        BY <4>1 DEF Hello
      <4>2. CASE DialFails
        BY <4>2 DEF DialFails
      <4>3. CASE RetryFires
        BY <4>3 DEF RetryFires
      <4> QED BY <2>4, <4>1, <4>2, <4>3
    <3>2. UNCHANGED <<keyOf, fate, framed, inFlight, slots>>
      BY <3>1 DEF callingVars
    <3> QED BY <1>1, <3>2
  <2>5. ASSUME HelloWhileClosing \/ Lost \/ StopUnpaired \/ CloseClient
        PROVE  CallInv'
    <3>1. \E why \in {"closed", "unauthorized"} : FailAll(why)
      <4>1. CASE HelloWhileClosing
        BY <4>1 DEF HelloWhileClosing
      <4>2. CASE Lost
        BY <4>2 DEF Lost
      <4>3. CASE StopUnpaired
        BY <4>3 DEF StopUnpaired, Ended
      <4>4. CASE CloseClient
        BY <4>4 DEF CloseClient, Ended
      <4> QED BY <2>5, <4>1, <4>2, <4>3, <4>4
    <3>2. CallInv
      BY DEF ClientInv
    <3>3. PICK why \in {"closed", "unauthorized"} : FailAll(why)
      BY <3>1
    <3> QED BY <3>2, <3>3, FailingAllKeeps
  <2>6. CallInv'
    <3>1. CASE \E k \in Keys \cup {NoKey} :
                 InvokeRefused(k) \/ InvokeWaits(k) \/ InvokeSends(k) \/ InvokeCannotSend(k)
      BY <2>1, <3>1
    <3>2. CASE \E i \in DOMAIN framed : Answer(i) \/ LateAnswer(i) \/ CallTimesOut(i)
      BY <2>2, <2>3, <3>2
    <3> QED BY <1>3, <2>4, <2>5, <3>1, <3>2 DEF ClientNext
  <2> QED BY <1>3, <2>6, LinkStep DEF ClientInv
<1> QED BY <1>2, <1>3

LEMMA OneOrNone ==
    ASSUME NEW S, NEW P, \A x, y \in S : x = y, (S # {}) <=> P
    PROVE  Cardinality(S) = IF P THEN 1 ELSE 0
<1>1. CASE S = {}
  BY <1>1, FS_EmptySet
<1>2. CASE S # {}
  <2>1. PICK x \in S : TRUE
    BY <1>2
  <2>2. S = {x}
    BY <2>1
  <2> QED BY <1>2, <2>2, FS_Singleton
<1> QED BY <1>1, <1>2

LEMMA ClientInvImplies == ClientInv => ClientIsConsistent
<1> SUFFICES ASSUME ClientInv
             PROVE  ClientIsConsistent
  OBVIOUS
<1>1. CallInv /\ AlwaysAWayBack
  BY DEF ClientInv, LinkInv
<1>2. /\ DOMAIN fate = 1 .. Len(keyOf) /\ DOMAIN framed = 1 .. Len(framed) /\ inFlight \subseteq 1 .. Len(framed)
      /\ Len(framed) \in Nat /\ \A c \in 1 .. Len(keyOf) : c # 0
      /\ \A i \in 1 .. Len(framed) : framed[i] \in 1 .. Len(keyOf)
      /\ \A k \in DOMAIN slots : k \in Keys /\ k # NoKey
  BY <1>1, CallFacts
<1>3. \A i, j \in 1 .. Len(framed) : framed[i] = framed[j] => i = j
  <2>1. \A i, j \in 1 .. Len(framed) : i < j => framed[i] # framed[j]
    BY <1>1 DEF CallInv, SentOnceInv
  <2>2. \A i, j \in 1 .. Len(framed) : i # j => i < j \/ j < i
    BY <1>2
  <2> QED BY <2>1, <2>2
<1>4. CallsAreSomewhere
  <2> SUFFICES ASSUME NEW c \in 1 .. Len(keyOf)
               PROVE  Cardinality({i \in inFlight : framed[i] = c})
                        + Cardinality({k \in DOMAIN slots : slots[k] = c})
                      = IF fate[c] = "waiting" THEN 1 ELSE 0
    BY <1>2 DEF CallsAreSomewhere
  <2> DEFINE A == {i \in inFlight : framed[i] = c}
             B == {k \in DOMAIN slots : slots[k] = c}
  <2>1. /\ \A i \in inFlight : fate[framed[i]] = "waiting"
        /\ \A k \in DOMAIN slots : slots[k] # 0 =>
              /\ fate[slots[k]] = "waiting" /\ keyOf[slots[k]] = k
              /\ \A i \in 1 .. Len(framed) : framed[i] # slots[k]
    BY <1>1 DEF CallInv, FlightInv, BehindInv
  <2>2. fate[c] = "waiting" => A # {} \/ B # {}
    BY <1>1 DEF CallInv, WaitsInv
  <2>3. (A # {} => fate[c] = "waiting") /\ (B # {} => fate[c] = "waiting" /\ A = {})
    <3>1. A # {} => fate[c] = "waiting"
      BY <2>1
    <3>2. ASSUME NEW k \in B
          PROVE  fate[c] = "waiting" /\ \A i \in inFlight : framed[i] # c
      BY <1>2, <2>1
    <3> QED BY <3>1, <3>2
  <2>4. \A i, j \in A : i = j
    BY <1>2, <1>3
  <2>5. \A j, k \in B : j = k
    BY <1>2, <2>1
  <2> HIDE DEF A, B
  <2>6. Cardinality(A) = IF A # {} THEN 1 ELSE 0
    BY <2>4, OneOrNone
  <2>7. Cardinality(B) = IF B # {} THEN 1 ELSE 0
    BY <2>5, OneOrNone
  <2>8. Cardinality(A) + Cardinality(B) = IF fate[c] = "waiting" THEN 1 ELSE 0
    BY <2>2, <2>3, <2>6, <2>7
  <2> QED BY <2>8 DEF A, B
<1>5. OneInFlightPerKey
  <2> SUFFICES ASSUME NEW k \in Keys
               PROVE  Cardinality({i \in inFlight : keyOf[framed[i]] = k}) = IF k \in DOMAIN slots THEN 1 ELSE 0
    BY DEF OneInFlightPerKey
  <2> DEFINE A == {i \in inFlight : keyOf[framed[i]] = k}
  <2>1. k # NoKey
    OBVIOUS
  <2>2. A # {} <=> k \in DOMAIN slots
    BY <1>1, <2>1 DEF CallInv, FlightInv, BehindInv
  <2>3. \A i, j \in A : i = j
    BY <1>1, <2>1 DEF CallInv, FlightInv
  <2> HIDE DEF A
  <2>4. Cardinality(A) = IF k \in DOMAIN slots THEN 1 ELSE 0
    BY <2>2, <2>3, OneOrNone
  <2> QED BY <2>4 DEF A
<1>6. NothingIsReplayed
  BY <1>1, <1>2 DEF CallInv, SentOnceInv, NothingIsReplayed
<1>7. SupersededByNewer
  BY <1>1, <1>2 DEF CallInv, NewerInv, SupersededByNewer
<1> QED BY <1>1, <1>4, <1>5, <1>6, <1>7 DEF ClientIsConsistent

\* A page's calls, whatever happens to the connection: each that waits is in
\* one place, none is sent twice or out of the order of its key, and the client
\* is never stuck between states.
THEOREM ClientConsistent == ClientFairSpec => []ClientIsConsistent
<1>1. ClientInit => ClientInv
  BY ClientStarts
<1>2. ClientInv /\ [ClientNext]_connectionVars => ClientInv'
  BY ClientStep
<1>3. ClientInv => ClientIsConsistent
  BY ClientInvImplies
<1> QED BY <1>1, <1>2, <1>3, PTL DEF ClientFairSpec

-----------------------------------------------------------------------------
(* Phones.                                                                 *)

HIDE CallsAssumption
USE PhonesAssumption

ErrandPlaces == {"rest", "save", "write", "failed", "saved", "apply", "act", "kick"}
ErrandKinds == {"nothing", "set", "pair", "revoke", "let in"}
ErrandRecords ==
    [does : ErrandKinds, on : BOOLEAN, was : BOOLEAN, phone : Phones \cup {"nobody"},
     at : ErrandPlaces, copy : RemoteFile]

\* Where an errand may be by what it is for, and who holds `saving`.
ErrandsInv ==
    /\ errand \in [Hands -> ErrandRecords]
    /\ paired \subseteq Phones /\ kept \in RemoteFile
    /\ allowPhones \in BOOLEAN /\ listening \in BOOLEAN /\ bindError \in BOOLEAN
    /\ {shut, crossed, adrift, together, unsaved} \subseteq BOOLEAN
    /\ errand["start"].does = "nothing" /\ errand["start"].at \in {"rest", "apply", "act", "kick"}
    /\ \A t \in Threads :
          /\ errand[t].at = "rest" <=> errand[t].does = "nothing"
          /\ errand[t].at \in {"apply", "act", "kick"} => errand[t].does = "set"
          /\ errand[t].at = "write" <=> saving = t

\* In the file and in every copy on its way to it, or in none.
InFile(p) ==
    p \in kept.phones /\ \A t \in Threads : errand[t].at = "write" => p \in errand[t].copy.phones
OutOfFile(p) ==
    p \notin kept.phones /\ \A t \in Threads : errand[t].at = "write" => p \notin errand[t].copy.phones

\* A phone that is being paired becomes safe as it is told so, which it is once.
PairInv ==
    /\ \A p \in holdToken \ gone : p \in paired /\ InFile(p)
    /\ \A t \in Threads :
          errand[t].does = "pair" /\ errand[t].phone \notin gone =>
             /\ errand[t].phone \in paired \ holdToken
             /\ errand[t].at = "write" => errand[t].phone \in errand[t].copy.phones
             /\ errand[t].at = "saved" => InFile(errand[t].phone)
    /\ \A t, u \in Threads :
          errand[t].does = "pair" /\ errand[u].does = "pair" /\ errand[t].phone \notin gone
             /\ errand[t].phone = errand[u].phone => t = u

RevokeInv ==
    /\ \A p \in revoked : p \in gone \ paired /\ OutOfFile(p)
    /\ \A t \in Threads :
          errand[t].does = "revoke" =>
             /\ errand[t].phone \in gone \ paired
             /\ errand[t].at = "write" => errand[t].phone \notin errand[t].copy.phones
             /\ errand[t].at = "saved" => OutOfFile(errand[t].phone)

\* What is kept is what is in memory, or will be by one that has yet to save;
\* what one that works alone puts back if it fails is what is kept.
SavedInv ==
    /\ ~together => \A t, u \in Threads : errand[t].at # "rest" /\ errand[u].at # "rest" => t = u
    /\ ~unsaved \/ ~together =>
          \A t \in Threads :
             errand[t].at = "write" => errand[t].copy = Memory \/ \E u \in Threads : errand[u].at = "save"
    /\ ~unsaved =>
          /\ kept = Memory \/ \E t \in Threads : errand[t].at \in {"save", "write", "failed"}
          /\ \A t \in Threads : errand[t].at = "failed" => errand[t].does \in {"set", "pair"}
    /\ ~unsaved /\ ~together =>
          \A t \in Threads :
             errand[t].at \in {"save", "write", "failed"} =>
                /\ errand[t].does = "set" => kept = [allow |-> errand[t].was, phones |-> paired]
                /\ errand[t].does = "pair" => kept = [allow |-> allowPhones, phones |-> paired \ {errand[t].phone}]

\* The listener is as the setting was before the change under way, if that one
\* met no other.
Follows(setting) == (listening = setting) \/ (setting /\ bindError)
FollowInv ==
    /\ ~crossed => \A g, h \in AtListener : g = h
    /\ crossed /\ ~adrift => \E t \in Threads : errand[t].does = "set" /\ errand[t].at \notin {"rest", "kick"}
    /\ ~crossed => \A h \in Hands : errand[h].at = "act" => errand[h].on = allowPhones
    /\ ~crossed /\ ~adrift /\ ~shut =>
          /\ AtListener = {} => Follows(allowPhones)
          /\ \A h \in Hands : errand[h].at = "kick" => Follows(allowPhones)
          /\ \A t \in Threads :
                errand[t].does = "set" /\ errand[t].at \in {"save", "write", "failed"} => Follows(errand[t].was)

PhonesInv == ErrandsInv /\ PairInv /\ RevokeInv /\ SavedInv /\ FollowInv /\ ShutIsShut

LEMMA PhonesStart == PhonesInit => PhonesInv
<1> SUFFICES ASSUME PhonesInit
             PROVE  PhonesInv
  OBVIOUS
<1>1. /\ \A t \in Threads : errand[t] = NoErrand
      /\ errand["start"] = [NoErrand EXCEPT !.at = "apply"]
      /\ Hands = Threads \cup {"start"}
  BY DEF PhonesInit, Hands
<1>2. /\ \A t \in Threads : errand[t].at = "rest" /\ errand[t].does = "nothing"
      /\ errand["start"].at = "apply" /\ errand["start"].does = "nothing"
  BY <1>1 DEF NoErrand
<1>3. ErrandsInv
  <2>1. NoErrand \in ErrandRecords /\ [NoErrand EXCEPT !.at = "apply"] \in ErrandRecords
    BY DEF NoErrand, ErrandRecords, ErrandKinds, ErrandPlaces, RemoteFile
  <2>2. errand \in [Hands -> ErrandRecords]
    BY <2>1 DEF PhonesInit
  <2>3. kept \in RemoteFile /\ allowPhones \in BOOLEAN /\ paired \subseteq Phones
    BY DEF PhonesInit, Begins, RemoteFile
  <2>4. \A t \in Threads : saving # t
    BY DEF PhonesInit
  <2> QED BY <1>2, <2>2, <2>3, <2>4 DEF PhonesInit, ErrandsInv
<1>4. kept = Memory
  <2>1. kept \in [allow : BOOLEAN, phones : SUBSET Phones] /\ allowPhones = kept.allow /\ paired = kept.phones
    BY DEF PhonesInit, Begins, RemoteFile
  <2> QED BY <2>1 DEF Memory
<1>5. PairInv /\ RevokeInv
  BY <1>2, <1>4 DEF PhonesInit, Begins, PairInv, RevokeInv, InFile
<1>6. SavedInv
  BY <1>2, <1>4 DEF SavedInv
<1>7. FollowInv
  <2>1. AtListener = {"start"}
    BY <1>1, <1>2 DEF AtListener, AtWork
  <2> QED BY <1>1, <1>2, <2>1 DEF FollowInv, PhonesInit
<1> QED BY <1>3, <1>5, <1>6, <1>7 DEF PhonesInv, ShutIsShut, PhonesInit

\* A hand whose errand becomes `e`.
LEMMA HandMoves ==
    ASSUME ErrandsInv, NEW h \in Hands, NEW e \in ErrandRecords, errand' = [errand EXCEPT ![h] = e]
    PROVE  /\ errand' \in [Hands -> ErrandRecords] /\ errand'[h] = e
           /\ \A g \in Hands : g # h => errand'[g] = errand[g]
BY DEF ErrandsInv

LEMMA HandFields ==
    ASSUME ErrandsInv, NEW h \in Hands
    PROVE  /\ errand[h] \in ErrandRecords
           /\ errand[h].does \in ErrandKinds /\ errand[h].on \in BOOLEAN /\ errand[h].was \in BOOLEAN
           /\ errand[h].phone \in Phones \cup {"nobody"} /\ errand[h].at \in ErrandPlaces
           /\ errand[h].copy \in RemoteFile
BY DEF ErrandsInv, ErrandRecords

\* A hand that goes to another place of its errand.
LEMMA HandGoes ==
    ASSUME ErrandsInv, NEW h \in Hands, NEW place \in ErrandPlaces, GoesTo(h, place)
    PROVE  /\ errand' \in [Hands -> ErrandRecords]
           /\ \A g \in Hands : g # h => errand'[g] = errand[g]
           /\ errand'[h].at = place /\ errand'[h].does = errand[h].does /\ errand'[h].was = errand[h].was
           /\ errand'[h].on = errand[h].on /\ errand'[h].phone = errand[h].phone
           /\ errand'[h].copy = errand[h].copy
<1> DEFINE e == [errand[h] EXCEPT !.at = place]
<1>1. /\ e \in ErrandRecords /\ e.at = place /\ e.does = errand[h].does /\ e.was = errand[h].was
      /\ e.on = errand[h].on /\ e.phone = errand[h].phone /\ e.copy = errand[h].copy
  BY HandFields DEF ErrandRecords
<1>2. errand' = [errand EXCEPT ![h] = e]
  BY DEF GoesTo
<1> HIDE DEF e
<1> QED BY <1>1, <1>2, HandMoves

\* One that has no errand any more.
LEMMA HandRests ==
    ASSUME ErrandsInv, NEW h \in Hands, errand' = [errand EXCEPT ![h] = NoErrand]
    PROVE  /\ errand' \in [Hands -> ErrandRecords]
           /\ \A g \in Hands : g # h => errand'[g] = errand[g]
           /\ errand'[h].at = "rest" /\ errand'[h].does = "nothing"
<1>1. NoErrand \in ErrandRecords /\ NoErrand.at = "rest" /\ NoErrand.does = "nothing"
  BY DEF NoErrand, ErrandRecords, ErrandKinds, ErrandPlaces, RemoteFile
<1> QED BY <1>1, HandMoves

LEMMA Begun ==
    ASSUME ErrandsInv, NEW t \in Threads, NEW does \in {"set", "pair", "revoke", "let in"},
           NEW on \in BOOLEAN, NEW p \in Phones \cup {"nobody"}, BeginsErrand(t, does, on, p)
    PROVE  /\ errand' \in [Hands -> ErrandRecords]
           /\ \A g \in Hands : g # t => errand'[g] = errand[g]
           /\ errand[t].at = "rest" /\ errand[t].does = "nothing"
           /\ errand'[t].at = "save" /\ errand'[t].does = does /\ errand'[t].phone = p
           /\ does = "set" => errand'[t].was = allowPhones
           /\ together' = (AtWork \ {"start"} # {})
           /\ UNCHANGED <<kept, saving, listening, bindError, shut, holdToken, revoked, adrift, unsaved>>
<1> DEFINE was == does = "set" /\ allowPhones
           e == [NoErrand EXCEPT !.does = does, !.on = on, !.phone = p, !.at = "save", !.was = was]
<1>1. was \in BOOLEAN /\ (does = "set" => was = allowPhones)
  BY DEF ErrandsInv
<1>2. errand' = [errand EXCEPT ![t] = e] /\ t \in Hands
  BY DEF BeginsErrand, Hands
<1> HIDE DEF was
<1>3. e \in ErrandRecords /\ e.at = "save" /\ e.does = does /\ e.phone = p /\ e.was = was
  BY <1>1 DEF NoErrand, ErrandRecords, ErrandKinds, ErrandPlaces, RemoteFile
<1> HIDE DEF e
<1>4. /\ errand' \in [Hands -> ErrandRecords] /\ errand'[t] = e
      /\ \A g \in Hands : g # t => errand'[g] = errand[g]
  BY <1>2, <1>3, HandMoves
<1>5. errand[t].at = "rest" /\ errand[t].does = "nothing"
  BY DEF BeginsErrand, ErrandsInv
<1> QED BY <1>1, <1>3, <1>4, <1>5 DEF BeginsErrand, listenerVars

LEMMA WhoIsAtListener ==
    ASSUME ErrandsInv
    PROVE  \A h : h \in AtListener <=>
              \/ h = "start" /\ errand[h].at # "rest"
              \/ h \in Threads /\ errand[h].does = "set"
BY DEF AtListener, AtWork, Hands, ErrandsInv

\* What a thread that is asked for something begins with.
Started(t, does, p) ==
    /\ errand' \in [Hands -> ErrandRecords]
    /\ \A g \in Hands : g # t => errand'[g] = errand[g]
    /\ errand[t].at = "rest" /\ errand[t].does = "nothing"
    /\ errand'[t].at = "save" /\ errand'[t].does = does /\ errand'[t].phone = p
    /\ does = "set" => errand'[t].was = allowPhones
    /\ together' = (AtWork \ {"start"} # {})
    /\ UNCHANGED <<kept, saving, listening, bindError, shut, holdToken, revoked, adrift, unsaved>>
    /\ \/ /\ does = "set" /\ allowPhones' \in BOOLEAN /\ crossed' = (AtListener # {})
          /\ UNCHANGED <<paired, gone>>
       \/ /\ does = "pair" /\ p \in Phones /\ p \notin holdToken \cup gone \cup paired
          /\ \A h \in Threads : errand[h].phone # p
          /\ paired' = paired \cup {p} /\ UNCHANGED <<allowPhones, gone, crossed>>
       \/ /\ does = "revoke" /\ p \in paired
          /\ paired' = paired \ {p} /\ gone' = gone \cup {p} /\ UNCHANGED <<allowPhones, crossed>>
       \/ does = "let in" /\ UNCHANGED <<allowPhones, paired, gone, crossed>>

LEMMA Starting ==
    ASSUME ErrandsInv, NEW t \in Threads,
           SetAllowPhones(t) \/ \E p \in Phones : Pair(t, p) \/ Revoke(t, p) \/ LetIn(t, p)
    PROVE  \E does \in {"set", "pair", "revoke", "let in"}, p \in Phones \cup {"nobody"} :
              Started(t, does, p)
<1>1. CASE SetAllowPhones(t)
  <2>1. PICK on \in BOOLEAN : BeginsErrand(t, "set", on, "nobody") /\ allowPhones' = on
    BY <1>1 DEF SetAllowPhones
  <2>2. crossed' = (AtListener # {}) /\ UNCHANGED <<paired, gone>> /\ allowPhones' \in BOOLEAN
    BY <1>1, <2>1 DEF SetAllowPhones
  <2>3. /\ errand' \in [Hands -> ErrandRecords]
        /\ \A g \in Hands : g # t => errand'[g] = errand[g]
        /\ errand[t].at = "rest" /\ errand[t].does = "nothing"
        /\ errand'[t].at = "save" /\ errand'[t].does = "set" /\ errand'[t].phone = "nobody"
        /\ errand'[t].was = allowPhones
        /\ UNCHANGED <<kept, saving, listening, bindError, shut, holdToken, revoked, adrift, unsaved>>
    <3>1. on \in BOOLEAN /\ "set" \in {"set", "pair", "revoke", "let in"}
            /\ "nobody" \in Phones \cup {"nobody"}
      OBVIOUS
    <3>2. BeginsErrand(t, "set", on, "nobody")
      BY <2>1
    <3>3. /\ errand' \in [Hands -> ErrandRecords]
          /\ \A g \in Hands : g # t => errand'[g] = errand[g]
          /\ errand[t].at = "rest" /\ errand[t].does = "nothing"
      BY <3>1, <3>2, Begun, ZenonT(40)
    <3>4. errand'[t].at = "save" /\ errand'[t].does = "set" /\ errand'[t].phone = "nobody"
      <4>1. errand'[t].at = "save"
        BY <3>1, <3>2, Begun, Zenon
      <4>2. errand'[t].does = "set"
        BY <3>1, <3>2, Begun, ZenonT(40)
      <4>3. errand'[t].phone = "nobody"
        <5>1. errand \in [Hands -> ErrandRecords] /\ t \in Hands
          BY DEF ErrandsInv, Hands
        <5> QED BY <3>2, <5>1 DEF BeginsErrand, NoErrand
      <4> QED BY <4>1, <4>2, <4>3
    <3>5. errand'[t].was = allowPhones
      BY <3>1, <3>2, Begun, ZenonT(40)
    <3>6. UNCHANGED <<kept, saving, listening, bindError, shut, holdToken, revoked, adrift, unsaved>>
      BY <3>1, <3>2, Begun, Zenon
    <3> QED BY <3>3, <3>4, <3>5, <3>6
  <2>4. together' = (AtWork \ {"start"} # {})
    BY <2>1 DEF BeginsErrand
  <2>5. Started(t, "set", "nobody")
    BY <2>2, <2>3, <2>4, Zenon DEF Started
  <2> QED BY <2>5
<1>2. ASSUME NEW p \in Phones, Pair(t, p)
      PROVE  Started(t, "pair", p)
  <2>1. BeginsErrand(t, "pair", FALSE, p)
    BY <1>2 DEF Pair
  <2> QED BY <1>2, <2>1, Begun DEF Started, Pair, NewId
<1>3. ASSUME NEW p \in Phones, Revoke(t, p)
      PROVE  Started(t, "revoke", p)
  <2>1. BeginsErrand(t, "revoke", FALSE, p)
    BY <1>3 DEF Revoke
  <2> QED BY <1>3, <2>1, Begun DEF Started, Revoke
<1>4. ASSUME NEW p \in Phones, LetIn(t, p)
      PROVE  Started(t, "let in", p)
  <2>1. BeginsErrand(t, "let in", FALSE, p)
    BY <1>4 DEF LetIn
  <2> QED BY <1>4, <2>1, Begun DEF Started, LetIn, memoryVars
<1> QED BY <1>1, <1>2, <1>3, <1>4

LEMMA StartingKeeps ==
    ASSUME PhonesInv, NEW t \in Threads, NEW does \in {"set", "pair", "revoke", "let in"},
           NEW p \in Phones \cup {"nobody"}, Started(t, does, p)
    PROVE  PhonesInv'
<1>1. ErrandsInv /\ t \in Hands /\ t # "start" /\ Hands = Threads \cup {"start"}
  BY DEF PhonesInv, Hands
<1>2. ErrandsInv'
  <2>1. together' \in BOOLEAN
    BY Zenon DEF Started
  <2>2. crossed' \in BOOLEAN /\ allowPhones' \in BOOLEAN
    <3>1. CASE crossed' = crossed /\ allowPhones' = allowPhones
      BY <1>1, <3>1 DEF ErrandsInv
    <3>2. CASE crossed' = (AtListener # {}) /\ allowPhones' \in BOOLEAN
      BY <3>2, Zenon
    <3> QED BY <3>1, <3>2 DEF Started
  <2>3. {shut', crossed', adrift', together', unsaved'} \subseteq BOOLEAN
    BY <1>1, <2>1, <2>2 DEF Started, ErrandsInv
  <2>4. paired' \subseteq Phones /\ kept' \in RemoteFile /\ listening' \in BOOLEAN /\ bindError' \in BOOLEAN
    BY <1>1 DEF Started, ErrandsInv
  <2>5. /\ \A u \in Threads : u # t => errand'[u] = errand[u]
        /\ errand'["start"] = errand["start"] /\ saving' = saving
    BY <1>1 DEF Started
  <2>6. /\ errand'["start"].does = "nothing" /\ errand'["start"].at \in {"rest", "apply", "act", "kick"}
        /\ \A u \in Threads :
              /\ errand'[u].at = "rest" <=> errand'[u].does = "nothing"
              /\ errand'[u].at \in {"apply", "act", "kick"} => errand'[u].does = "set"
              /\ errand'[u].at = "write" <=> saving' = u
    <3>1. errand'[t].at = "save" /\ errand'[t].does # "nothing" /\ saving # t
      BY <1>1 DEF Started, ErrandsInv
    <3>2. ASSUME NEW u \in Threads, u # t
          PROVE  /\ errand'[u].at = "rest" <=> errand'[u].does = "nothing"
                 /\ errand'[u].at \in {"apply", "act", "kick"} => errand'[u].does = "set"
                 /\ errand'[u].at = "write" <=> saving' = u
      <4>1. errand'[u] = errand[u] /\ saving' = saving
        BY <2>5, <3>2
      <4> QED BY <1>1, <4>1 DEF ErrandsInv
    <3>3. /\ errand'[t].at = "rest" <=> errand'[t].does = "nothing"
          /\ errand'[t].at \in {"apply", "act", "kick"} => errand'[t].does = "set"
          /\ errand'[t].at = "write" <=> saving' = t
      BY <2>5, <3>1
    <3>4. errand'["start"].does = "nothing" /\ errand'["start"].at \in {"rest", "apply", "act", "kick"}
      BY <1>1, <2>5 DEF ErrandsInv
    <3> QED BY <3>2, <3>3, <3>4
  <2> QED BY <2>2, <2>3, <2>4, <2>6 DEF Started, ErrandsInv
<1>3. /\ \A u \in Threads : u # t => errand'[u] = errand[u]
      /\ \A u \in Threads : errand'[u].at = "write" => u # t /\ errand'[u] = errand[u]
      /\ errand'[t].at = "save" /\ errand'[t].does = does /\ errand'[t].phone = p
      /\ errand[t].at = "rest" /\ errand[t].does = "nothing"
      /\ kept' = kept /\ holdToken' = holdToken /\ revoked' = revoked /\ unsaved' = unsaved
      /\ listening' = listening /\ bindError' = bindError /\ shut' = shut /\ adrift' = adrift
  BY <1>1 DEF Started
<1>4. PairInv'
  <2>1. /\ \A q \in holdToken \ gone : q \in paired /\ InFile(q)
        /\ \A u \in Threads :
              errand[u].does = "pair" /\ errand[u].phone \notin gone =>
                 /\ errand[u].phone \in paired \ holdToken
                 /\ errand[u].at = "write" => errand[u].phone \in errand[u].copy.phones
                 /\ errand[u].at = "saved" => InFile(errand[u].phone)
        /\ \A u, v \in Threads :
              errand[u].does = "pair" /\ errand[v].does = "pair" /\ errand[u].phone \notin gone
                 /\ errand[u].phone = errand[v].phone => u = v
    BY DEF PhonesInv, PairInv
  <2>2. /\ gone \subseteq gone' /\ (\A q \in paired : q \in paired' \/ q \in gone')
        /\ does = "pair" => p \in paired' \ holdToken /\ \A u \in Threads : errand[u].phone # p
    BY DEF Started
  <2>3. \A q \in holdToken \ gone' : q \in paired' /\ InFile(q)'
    BY <1>3, <2>1, <2>2 DEF InFile
  <2>4. \A u \in Threads :
           errand'[u].does = "pair" /\ errand'[u].phone \notin gone' =>
              /\ errand'[u].phone \in paired' \ holdToken'
              /\ errand'[u].at = "write" => errand'[u].phone \in errand'[u].copy.phones
              /\ errand'[u].at = "saved" => InFile(errand[u].phone)'
    <3>1. \A q : InFile(q) =>
             q \in kept'.phones /\ \A u \in Threads : errand'[u].at = "write" => q \in errand'[u].copy.phones
      BY <1>3 DEF InFile
    <3>2. ASSUME NEW u \in Threads, errand'[u].does = "pair", errand'[u].phone \notin gone'
          PROVE  /\ errand'[u].phone \in paired' \ holdToken'
                 /\ errand'[u].at = "write" => errand'[u].phone \in errand'[u].copy.phones
                 /\ errand'[u].at = "saved" => InFile(errand[u].phone)'
      <4>1. CASE u = t
        BY <1>3, <2>2, <3>2, <4>1
      <4>2. CASE u # t
        BY <1>3, <2>1, <2>2, <3>1, <3>2, <4>2 DEF InFile
      <4> QED BY <4>1, <4>2
    <3> QED BY <3>2
  <2>5. \A u, v \in Threads :
           errand'[u].does = "pair" /\ errand'[v].does = "pair" /\ errand'[u].phone \notin gone'
              /\ errand'[u].phone = errand'[v].phone => u = v
    <3> SUFFICES ASSUME NEW u \in Threads, NEW v \in Threads, u # v,
                        errand'[u].does = "pair", errand'[v].does = "pair",
                        errand'[u].phone = errand'[v].phone
                 PROVE  errand'[u].phone \in gone'
      OBVIOUS
    <3>1. CASE u # t /\ v # t
      <4>1. errand[u].phone \in gone
        BY <1>3, <2>1, <3>1
      <4> QED BY <1>3, <2>2, <3>1, <4>1
    <3>2. u # t \/ v # t
      OBVIOUS
    <3>3. ASSUME NEW w \in Threads, w # t, errand'[w].phone = p
          PROVE  does # "pair"
      BY <1>3, <2>2, <3>3
    <3> QED BY <1>3, <3>1, <3>2, <3>3
  <2> QED BY <1>3, <2>3, <2>4, <2>5 DEF PairInv, InFile
<1>5. RevokeInv'
  <2>1. /\ \A q \in revoked : q \in gone \ paired /\ OutOfFile(q)
        /\ \A u \in Threads :
              errand[u].does = "revoke" =>
                 /\ errand[u].phone \in gone \ paired
                 /\ errand[u].at = "write" => errand[u].phone \notin errand[u].copy.phones
                 /\ errand[u].at = "saved" => OutOfFile(errand[u].phone)
    BY DEF PhonesInv, RevokeInv
  <2>2. /\ \A q \in gone \ paired : q \in gone' \ paired'
        /\ does = "revoke" => p \in gone' \ paired'
    BY DEF Started
  <2>3. \A q : OutOfFile(q) =>
           q \notin kept'.phones /\ \A u \in Threads : errand'[u].at = "write" => q \notin errand'[u].copy.phones
    BY <1>3 DEF OutOfFile
  <2>4. ASSUME NEW u \in Threads, errand'[u].does = "revoke"
        PROVE  /\ errand'[u].phone \in gone' \ paired'
               /\ errand'[u].at = "write" => errand'[u].phone \notin errand'[u].copy.phones
               /\ errand'[u].at = "saved" => OutOfFile(errand[u].phone)'
    <3>1. CASE u = t
      BY <1>3, <2>2, <2>4, <3>1
    <3>2. CASE u # t
      <4>1. errand'[u] = errand[u]
        BY <1>3, <3>2
      <4>2. errand[u].phone \in gone \ paired
        BY <2>1, <2>4, <4>1
      <4> QED BY <2>1, <2>2, <2>3, <2>4, <4>1, <4>2 DEF OutOfFile
    <3> QED BY <3>1, <3>2
  <2>5. \A q \in revoked' : q \in gone' \ paired' /\ OutOfFile(q)'
    BY <1>3, <2>1, <2>2, <2>3 DEF OutOfFile
  <2> QED BY <2>4, <2>5 DEF RevokeInv, OutOfFile
<1>6. SavedInv'
  <2>1. ~together' => \A u \in Threads : u # t => errand[u].at = "rest"
    <3>1. ~together' => AtWork \ {"start"} = {}
      BY Zenon DEF Started
    <3>2. \A u \in Threads : errand[u].at # "rest" => u \in AtWork \ {"start"}
      BY <1>1 DEF AtWork
    <3> QED BY <3>1, <3>2
  <2>2. unsaved' \/ \A u \in Threads : errand'[u].at = "failed" => errand'[u].does \in {"set", "pair"}
    BY <1>3 DEF PhonesInv, SavedInv
  <2>3. ~unsaved' /\ ~together' => kept = Memory
    BY <1>3, <2>1 DEF PhonesInv, SavedInv
  <2>4. /\ does = "set" => errand'[t].was = allowPhones /\ paired' = paired
        /\ does = "pair" => allowPhones' = allowPhones /\ paired' \ {p} = paired
    BY DEF Started
  <2>5. ASSUME ~unsaved', ~together', NEW u \in Threads, errand'[u].at \in {"save", "write", "failed"}
        PROVE  /\ errand'[u].does = "set" => kept' = [allow |-> errand'[u].was, phones |-> paired']
               /\ errand'[u].does = "pair"
                    => kept' = [allow |-> allowPhones', phones |-> paired' \ {errand'[u].phone}]
    <3>1. u = t
      BY <1>3, <2>1, <2>5
    <3> QED BY <1>3, <2>3, <2>4, <2>5, <3>1 DEF Memory
  <2> QED BY <1>3, <2>1, <2>2, <2>5 DEF SavedInv
<1>7. FollowInv'
  <2>1. \A h : h \in AtListener' <=> h \in AtListener \/ (h = t /\ does = "set")
    <3>1. \A h : h \in AtListener' <=>
             \/ h = "start" /\ errand'[h].at # "rest"
             \/ h \in Threads /\ errand'[h].does = "set"
      BY <1>2 DEF AtListener, AtWork, Hands, ErrandsInv
    <3>2. errand'["start"] = errand["start"]
      BY <1>1 DEF Started
    <3>3. \A u \in Threads : errand'[u].does = "set" <=> errand[u].does = "set" \/ (u = t /\ does = "set")
      BY <1>3
    <3>4. \A h : h \in AtListener <=>
             \/ h = "start" /\ errand[h].at # "rest"
             \/ h \in Threads /\ errand[h].does = "set"
      BY <1>1, WhoIsAtListener
    <3> QED BY <3>1, <3>2, <3>3, <3>4
  <2>2. /\ \A h \in Hands : errand'[h].at \in {"act", "kick"} => h # t /\ errand'[h] = errand[h]
    BY <1>1 DEF Started
  <2>3. CASE does = "set"
    <3>1. crossed' = (AtListener # {}) /\ errand'[t].was = allowPhones
      BY <2>3 DEF Started
    <3>2. \A h \in Hands : errand'[h].at \in {"act", "kick"} => h \in AtListener
      BY <1>1, <1>3, <2>2, WhoIsAtListener DEF ErrandsInv
    <3>3. ~crossed' /\ ~adrift' /\ ~shut' => Follows(allowPhones)
      <4>1. CASE crossed
        BY <1>3, <3>1, <4>1, WhoIsAtListener, <1>1 DEF PhonesInv, FollowInv
      <4>2. CASE ~crossed
        BY <1>3, <3>1, <4>2 DEF PhonesInv, FollowInv
      <4> QED BY <4>1, <4>2
    <3>4. ~crossed' => \A u \in Threads : u # t => errand'[u].does # "set"
      BY <1>1, <1>3, <3>1, WhoIsAtListener
    <3>5. ~crossed' => AtListener = {}
      BY <3>1, Zenon
    <3>6. ~crossed' => \A g, h \in AtListener' : g = h
      <4>1. ASSUME ~crossed', NEW h \in AtListener'
            PROVE  h = t
        BY <2>1, <3>5, <4>1
      <4> QED BY <4>1
    <3>7. \E u \in Threads : errand'[u].does = "set" /\ errand'[u].at \notin {"rest", "kick"}
      BY <1>3, <2>3
    <3>8. ~crossed' => \A h \in Hands : errand'[h].at \notin {"act", "kick"}
      BY <3>2, <3>5
    <3>9. t \in AtListener'
      BY <2>1, <2>3
    <3>10. ~crossed' /\ ~adrift' /\ ~shut' =>
              \A u \in Threads : errand'[u].does = "set" => u = t /\ (listening' = errand'[u].was \/ (errand'[u].was /\ bindError'))
      BY <1>3, <3>1, <3>3, <3>4 DEF Follows
    <3> QED BY <3>6, <3>7, <3>8, <3>9, <3>10 DEF FollowInv, Follows
  <2>4. CASE does # "set"
    <3>1. crossed' = crossed /\ allowPhones' = allowPhones
      BY <2>4 DEF Started
    <3>2. AtListener' = AtListener
      BY <2>1, <2>4
    <3>3. FollowInv /\ listening' = listening /\ bindError' = bindError
      BY <1>3 DEF PhonesInv
    <3>4. crossed' /\ ~adrift' => \E u \in Threads : errand'[u].does = "set" /\ errand'[u].at \notin {"rest", "kick"}
      <4> SUFFICES ASSUME crossed, ~adrift
                   PROVE  \E u \in Threads : errand'[u].does = "set" /\ errand'[u].at \notin {"rest", "kick"}
        BY <1>3, <3>1
      <4>1. PICK u \in Threads : errand[u].does = "set" /\ errand[u].at \notin {"rest", "kick"}
        BY <3>3 DEF FollowInv
      <4>2. errand'[u] = errand[u]
        BY <1>3, <4>1
      <4> QED BY <4>1, <4>2
    <3>5. ~crossed' => \A h \in Hands : errand'[h].at = "act" => errand'[h].on = allowPhones'
      <4>1. ~crossed => \A h \in Hands : errand[h].at = "act" => errand[h].on = allowPhones
        BY <3>3 DEF FollowInv
      <4> QED BY <2>2, <3>1, <4>1
    <3>6. ASSUME ~crossed', ~adrift', ~shut'
          PROVE  /\ AtListener' = {} => Follows(allowPhones)
                 /\ \A h \in Hands : errand'[h].at = "kick" => Follows(allowPhones)
                 /\ \A u \in Threads :
                       errand'[u].does = "set" /\ errand'[u].at \in {"save", "write", "failed"}
                          => Follows(errand'[u].was)
      <4>1. /\ AtListener = {} => Follows(allowPhones)
            /\ \A h \in Hands : errand[h].at = "kick" => Follows(allowPhones)
            /\ \A u \in Threads :
                  errand[u].does = "set" /\ errand[u].at \in {"save", "write", "failed"}
                     => Follows(errand[u].was)
        BY <1>3, <3>1, <3>3, <3>6 DEF FollowInv
      <4>2. ASSUME NEW u \in Threads, errand'[u].does = "set"
            PROVE  errand'[u] = errand[u]
        BY <1>3, <2>4, <4>2
      <4> QED BY <2>2, <3>1, <3>2, <4>1, <4>2
    <3>7. ~crossed' => \A g, h \in AtListener' : g = h
      BY <3>1, <3>2, <3>3 DEF FollowInv
    <3> QED BY <3>1, <3>3, <3>4, <3>5, <3>6, <3>7 DEF FollowInv, Follows
  <2> QED BY <2>3, <2>4
<1> QED BY <1>2, <1>3, <1>4, <1>5, <1>6, <1>7 DEF PhonesInv, ShutIsShut

LEMMA ListenerAfter ==
    ASSUME ErrandsInv'
    PROVE  \A h : h \in AtListener' <=>
              \/ h = "start" /\ errand'[h].at # "rest"
              \/ h \in Threads /\ errand'[h].does = "set"
BY DEF AtListener, AtWork, Hands, ErrandsInv

\* What one hand does leaves what it does not touch.
OnlyHand(h) == \A g \in Hands : g # h => errand'[g] = errand[g]

LEMMA TokensSame ==
    ASSUME PairInv, RevokeInv, NEW h \in Hands, OnlyHand(h),
           UNCHANGED <<kept, paired, holdToken, gone, revoked>>,
           errand[h].does \notin {"pair", "revoke"}, errand'[h].does \notin {"pair", "revoke"},
           errand[h].at # "write", errand'[h].at # "write"
    PROVE  PairInv' /\ RevokeInv'
<1>1. /\ \A t \in Threads : errand'[t].does = "pair" => errand[t].does = "pair" /\ errand'[t] = errand[t]
      /\ \A t \in Threads : errand'[t].does = "revoke" => errand[t].does = "revoke" /\ errand'[t] = errand[t]
      /\ \A t \in Threads : errand'[t].at = "write" => errand[t].at = "write" /\ errand'[t] = errand[t]
  BY DEF OnlyHand, Hands
<1>2. PairInv'
  BY <1>1 DEF PairInv, InFile
<1>3. RevokeInv'
  BY <1>1 DEF RevokeInv, OutOfFile
<1> QED BY <1>2, <1>3

LEMMA SavedSame ==
    ASSUME SavedInv, NEW h \in Hands, OnlyHand(h),
           UNCHANGED <<kept, allowPhones, paired, together, unsaved>>,
           errand[h].at \notin {"save", "write", "failed"}, errand'[h].at \notin {"save", "write", "failed"},
           errand'[h].at # "rest" => errand[h].at # "rest"
    PROVE  SavedInv'
<1>1. /\ \A t \in Threads : errand'[t].at # "rest" => errand[t].at # "rest"
      /\ \A t \in Threads : errand'[t].at \in {"save", "write", "failed"} => errand'[t] = errand[t]
      /\ \A t \in Threads : errand[t].at \in {"save", "write", "failed"} => errand'[t] = errand[t]
  BY DEF OnlyHand, Hands
<1> QED BY <1>1 DEF SavedInv, Memory

LEMMA FollowsSame ==
    ASSUME FollowInv, ErrandsInv, ErrandsInv', NEW h \in Threads, OnlyHand(h),
           UNCHANGED <<allowPhones, listening, bindError, shut, crossed, adrift>>,
           \/ /\ errand[h].does = "set" /\ errand'[h].does = "set" /\ errand'[h].was = errand[h].was
              /\ errand[h].at \notin {"rest", "kick", "act"} /\ errand'[h].at \notin {"rest", "kick", "act"}
              /\ errand'[h].at \in {"save", "write", "failed"} => errand[h].at \in {"save", "write", "failed"}
           \/ errand[h].does # "set" /\ errand'[h].does # "set"
    PROVE  FollowInv'
<1>1. /\ \A t \in Threads : t # h => errand'[t] = errand[t]
      /\ errand'["start"] = errand["start"] /\ h \in Hands /\ Hands = Threads \cup {"start"}
  BY DEF OnlyHand, Hands
<1>2. \A t \in Threads : errand'[t].does = "set" <=> errand[t].does = "set"
  BY <1>1
<1>3. AtListener' = AtListener
  <2>1. \A g : g \in AtListener <=>
            \/ g = "start" /\ errand[g].at # "rest"
            \/ g \in Threads /\ errand[g].does = "set"
    BY WhoIsAtListener
  <2>2. \A g : g \in AtListener' <=>
            \/ g = "start" /\ errand'[g].at # "rest"
            \/ g \in Threads /\ errand'[g].does = "set"
    BY ListenerAfter
  <2>3. \A g : g \in AtListener <=> g \in AtListener'
    BY <1>1, <1>2, <2>1, <2>2
  <2> QED BY <2>3
<1>4. \A g \in Hands : errand'[g].at \in {"act", "kick"} => g # h /\ errand'[g] = errand[g]
  BY <1>1 DEF ErrandsInv
<1>5. \A t \in Threads :
         errand'[t].does = "set" /\ errand'[t].at \in {"save", "write", "failed"} =>
            errand[t].does = "set" /\ errand[t].at \in {"save", "write", "failed"} /\ errand'[t].was = errand[t].was
  BY <1>1
<1>6. \A t \in Threads :
         errand[t].does = "set" /\ errand[t].at \notin {"rest", "kick"} =>
            errand'[t].does = "set" /\ errand'[t].at \notin {"rest", "kick"}
  BY <1>1
<1> QED BY <1>3, <1>4, <1>5, <1>6 DEF FollowInv, Follows

LEMMA CopyingKeeps ==
    ASSUME PhonesInv, NEW t \in Hands, CopiesMemory(t)
    PROVE  PhonesInv'
<1>1. ErrandsInv /\ t \in Threads /\ errand[t].at = "save" /\ Memory \in RemoteFile
  <2>1. ErrandsInv /\ errand[t].at = "save"
    BY DEF PhonesInv, CopiesMemory
  <2>2. t \in Threads
    BY <2>1 DEF ErrandsInv, Hands
  <2>3. Memory \in RemoteFile
    BY <2>1 DEF ErrandsInv, Memory, RemoteFile
  <2> QED BY <2>1, <2>2, <2>3
<1>2. /\ errand' \in [Hands -> ErrandRecords] /\ OnlyHand(t)
      /\ errand'[t].at = "write" /\ errand'[t].does = errand[t].does /\ errand'[t].was = errand[t].was
      /\ errand'[t].phone = errand[t].phone /\ errand'[t].copy = Memory
  <2> DEFINE e == [errand[t] EXCEPT !.at = "write", !.copy = Memory]
  <2>1. /\ e \in ErrandRecords /\ e.at = "write" /\ e.does = errand[t].does /\ e.was = errand[t].was
        /\ e.phone = errand[t].phone /\ e.copy = Memory
    BY <1>1, HandFields DEF ErrandRecords, ErrandPlaces
  <2>2. errand' = [errand EXCEPT ![t] = e]
    BY <1>1 DEF CopiesMemory, ErrandsInv, ErrandRecords
  <2> HIDE DEF e
  <2> QED BY <1>1, <2>1, <2>2, HandMoves DEF OnlyHand
<1>3. /\ \A u \in Threads : errand[u].at # "write" /\ u # "nobody"
      /\ saving' = t
      /\ UNCHANGED <<allowPhones, paired, kept, listening, bindError, shut>>
      /\ UNCHANGED <<holdToken, gone, revoked, crossed, adrift, together, unsaved>>
  BY <1>1 DEF CopiesMemory, NobodySaves, ErrandsInv, memoryVars, listenerVars, phonesHistory
<1>4. /\ \A u \in Threads : u # t => errand'[u] = errand[u]
      /\ \A u \in Threads : errand'[u].at = "write" => u = t
      /\ errand'["start"] = errand["start"] /\ Hands = Threads \cup {"start"}
  BY <1>1, <1>2, <1>3 DEF OnlyHand, Hands
<1>5. ErrandsInv'
  BY <1>1, <1>2, <1>3, <1>4 DEF ErrandsInv
<1>6. PairInv'
  BY <1>1, <1>2, <1>3, <1>4 DEF PhonesInv, PairInv, InFile, Memory
<1>7. RevokeInv'
  BY <1>1, <1>2, <1>3, <1>4 DEF PhonesInv, RevokeInv, OutOfFile, Memory
<1>8. SavedInv'
  <2>1. Memory' = Memory
    BY <1>3 DEF Memory
  <2> QED BY <1>1, <1>2, <1>3, <1>4, <2>1 DEF PhonesInv, SavedInv
<1>9. FollowInv'
  <2>1. FollowInv
    BY DEF PhonesInv
  <2>2. UNCHANGED <<allowPhones, listening, bindError, shut, crossed, adrift>>
    BY <1>3
  <2> QED BY <1>1, <1>2, <1>5, <2>1, <2>2, FollowsSame
<1> QED BY <1>3, <1>5, <1>6, <1>7, <1>8, <1>9 DEF PhonesInv, ShutIsShut

LEMMA WritingKeeps ==
    ASSUME PhonesInv, NEW t \in Hands, WritesFile(t)
    PROVE  PhonesInv'
<1>1. ErrandsInv /\ t \in Threads /\ errand[t].at = "write" /\ saving = t /\ errand[t].copy \in RemoteFile
  <2>1. ErrandsInv /\ errand[t].at = "write"
    BY DEF PhonesInv, WritesFile
  <2> QED BY <2>1, HandFields DEF ErrandsInv, Hands
<1>2. PICK place \in {"saved", "failed"} :
        /\ WriteEnds(t, place)
        /\ IF place = "saved" THEN kept' = errand[t].copy /\ unsaved' = (unsaved /\ together)
           ELSE kept' = kept /\ unsaved' = (unsaved \/ errand[t].does \in {"revoke", "let in"})
  BY DEF WritesFile
<1>3. /\ errand' \in [Hands -> ErrandRecords] /\ OnlyHand(t)
      /\ errand'[t].at = place /\ errand'[t].does = errand[t].does /\ errand'[t].was = errand[t].was
      /\ errand'[t].phone = errand[t].phone
  <2> DEFINE e == [errand[t] EXCEPT !.at = place, !.copy = NoErrand.copy]
  <2>1. /\ e \in ErrandRecords /\ e.at = place /\ e.does = errand[t].does /\ e.was = errand[t].was
        /\ e.phone = errand[t].phone
    <3>1. errand[t] \in ErrandRecords /\ NoErrand.copy \in RemoteFile
      BY HandFields, <1>1 DEF NoErrand, RemoteFile
    <3>2. place \in ErrandPlaces
      BY DEF ErrandPlaces
    <3> QED BY <3>1, <3>2 DEF ErrandRecords
  <2>2. errand' = [errand EXCEPT ![t] = e]
    BY <1>1, <1>2 DEF WriteEnds, ErrandsInv, ErrandRecords
  <2> HIDE DEF e
  <2> QED BY <1>1, <2>1, <2>2, HandMoves DEF OnlyHand
<1>4. /\ saving' = "nobody" /\ UNCHANGED <<allowPhones, paired, listening, bindError, shut>>
      /\ UNCHANGED <<holdToken, gone, revoked, crossed, adrift, together>>
  BY DEF WritesFile, memoryVars, listenerVars
<1>5. /\ \A u \in Threads : u # t => errand'[u] = errand[u]
      /\ \A u \in Threads : errand'[u].at # "write" /\ u # "nobody"
      /\ \A u \in Threads : errand[u].at = "write" => u = t
      /\ errand'["start"] = errand["start"] /\ Hands = Threads \cup {"start"}
  BY <1>1, <1>2, <1>3 DEF OnlyHand, Hands, ErrandsInv
<1>6. kept' \in RemoteFile /\ unsaved' \in BOOLEAN
  <2>1. kept' \in RemoteFile
    BY <1>1, <1>2 DEF ErrandsInv
  <2>2. unsaved' \in BOOLEAN
    BY <1>2, Zenon
  <2> QED BY <2>1, <2>2
<1>7. ErrandsInv'
  <2>1. {shut', crossed', adrift', together', unsaved'} \subseteq BOOLEAN
    BY <1>1, <1>4, <1>6 DEF ErrandsInv
  <2>2. paired' \subseteq Phones /\ allowPhones' \in BOOLEAN /\ listening' \in BOOLEAN /\ bindError' \in BOOLEAN
    BY <1>1, <1>4 DEF ErrandsInv
  <2>3. /\ errand'["start"].does = "nothing" /\ errand'["start"].at \in {"rest", "apply", "act", "kick"}
        /\ \A u \in Threads :
              /\ errand'[u].at = "rest" <=> errand'[u].does = "nothing"
              /\ errand'[u].at \in {"apply", "act", "kick"} => errand'[u].does = "set"
              /\ errand'[u].at = "write" <=> saving' = u
    <3>1. errand'[t].at \in {"saved", "failed"} /\ errand'[t].does # "nothing"
      BY <1>1, <1>2, <1>3 DEF ErrandsInv
    <3>2. \A u \in Threads : u # t =>
             /\ errand'[u].at = "rest" <=> errand'[u].does = "nothing"
             /\ errand'[u].at \in {"apply", "act", "kick"} => errand'[u].does = "set"
      BY <1>1, <1>5 DEF ErrandsInv
    <3>3. \A u \in Threads : errand'[u].at # "write" /\ saving' # u
      BY <1>4, <1>5
    <3> QED BY <1>1, <1>5, <3>1, <3>2, <3>3 DEF ErrandsInv
  <2> QED BY <1>3, <1>6, <2>1, <2>2, <2>3 DEF ErrandsInv
<1>8. PairInv'
  <2>1. /\ \A p \in holdToken \ gone : p \in paired /\ InFile(p)
        /\ \A u \in Threads :
              errand[u].does = "pair" /\ errand[u].phone \notin gone =>
                 /\ errand[u].phone \in paired \ holdToken
                 /\ errand[u].at = "write" => errand[u].phone \in errand[u].copy.phones
                 /\ errand[u].at = "saved" => InFile(errand[u].phone)
        /\ \A u, v \in Threads :
              errand[u].does = "pair" /\ errand[v].does = "pair" /\ errand[u].phone \notin gone
                 /\ errand[u].phone = errand[v].phone => u = v
    BY DEF PhonesInv, PairInv
  <2>2. \A p : InFile(p) => p \in kept'.phones
    BY <1>1, <1>2 DEF InFile
  <2>3. \A p \in holdToken \ gone : p \in paired /\ p \in kept'.phones
    BY <2>1, <2>2
  <2>4. ASSUME NEW u \in Threads, errand'[u].does = "pair", errand'[u].phone \notin gone
        PROVE  /\ errand'[u].phone \in paired \ holdToken
               /\ errand'[u].at = "saved" => errand'[u].phone \in kept'.phones
    <3>1. CASE u = t
      BY <1>1, <1>2, <1>3, <2>1, <2>4, <3>1
    <3>2. CASE u # t
      BY <1>5, <2>1, <2>2, <2>4, <3>2
    <3> QED BY <3>1, <3>2
  <2>5. \A u, v \in Threads :
           errand'[u].does = "pair" /\ errand'[v].does = "pair" /\ errand'[u].phone \notin gone
              /\ errand'[u].phone = errand'[v].phone => u = v
    BY <1>3, <1>5, <2>1
  <2> QED BY <1>4, <1>5, <2>3, <2>4, <2>5 DEF PairInv, InFile
<1>9. RevokeInv'
  <2>1. /\ \A p \in revoked : p \in gone \ paired /\ OutOfFile(p)
        /\ \A u \in Threads :
              errand[u].does = "revoke" =>
                 /\ errand[u].phone \in gone \ paired
                 /\ errand[u].at = "write" => errand[u].phone \notin errand[u].copy.phones
                 /\ errand[u].at = "saved" => OutOfFile(errand[u].phone)
    BY DEF PhonesInv, RevokeInv
  <2>2. \A p : OutOfFile(p) => p \notin kept'.phones
    BY <1>1, <1>2 DEF OutOfFile
  <2>3. \A p \in revoked : p \in gone \ paired /\ p \notin kept'.phones
    BY <2>1, <2>2
  <2>4. ASSUME NEW u \in Threads, errand'[u].does = "revoke"
        PROVE  /\ errand'[u].phone \in gone \ paired
               /\ errand'[u].at = "saved" => errand'[u].phone \notin kept'.phones
    <3>1. CASE u = t
      BY <1>1, <1>2, <1>3, <2>1, <2>4, <3>1
    <3>2. CASE u # t
      BY <1>5, <2>1, <2>2, <2>4, <3>2
    <3> QED BY <3>1, <3>2
  <2> QED BY <1>4, <1>5, <2>3, <2>4 DEF RevokeInv, OutOfFile
<1>10. SavedInv'
  <2>1. /\ ~together => \A u, v \in Threads : errand[u].at # "rest" /\ errand[v].at # "rest" => u = v
        /\ ~unsaved \/ ~together =>
              \A u \in Threads :
                 errand[u].at = "write" => errand[u].copy = Memory \/ \E v \in Threads : errand[v].at = "save"
        /\ ~unsaved =>
              /\ \A u \in Threads : errand[u].at = "failed" => errand[u].does \in {"set", "pair"}
        /\ ~unsaved /\ ~together =>
              \A u \in Threads :
                 errand[u].at \in {"save", "write", "failed"} =>
                    /\ errand[u].does = "set" => kept = [allow |-> errand[u].was, phones |-> paired]
                    /\ errand[u].does = "pair"
                         => kept = [allow |-> allowPhones, phones |-> paired \ {errand[u].phone}]
    BY DEF PhonesInv, SavedInv
  <2>2. Memory' = Memory /\ together' = together
    BY <1>4 DEF Memory
  <2>3. ~together => \A u, v \in Threads : errand'[u].at # "rest" /\ errand'[v].at # "rest" => u = v
    BY <1>1, <1>5, <2>1
  <2>4. ~together => \A u \in Threads : errand'[u].at \in {"save", "write", "failed"} => u = t /\ place = "failed"
    BY <1>1, <1>2, <1>3, <1>5, <2>1
  <2>5. CASE place = "saved"
    <3>1. unsaved' <=> unsaved /\ together
      BY <1>2, <2>5, Zenon
    <3>2. CASE unsaved /\ ~together
      <4>1. \A v \in Threads : errand[v].at # "save"
        BY <1>1, <2>1, <3>2
      <4>2. kept' = Memory
        BY <1>1, <1>2, <2>1, <2>5, <3>2, <4>1
      <4>3. \A u \in Threads : errand'[u].at \notin {"save", "write", "failed"}
        BY <2>4, <2>5, <3>2
      <4> QED BY <2>2, <2>3, <3>2, <4>2, <4>3 DEF SavedInv
    <3>3. CASE ~unsaved
      <4>1. kept' = Memory \/ \E v \in Threads : errand'[v].at = "save"
        BY <1>1, <1>2, <1>5, <2>1, <2>5, <3>3
      <4>2. \A u \in Threads : errand'[u].at = "failed" => errand'[u].does \in {"set", "pair"}
        BY <1>3, <1>5, <2>1, <2>5, <3>3
      <4> QED BY <1>5, <2>2, <2>3, <2>4, <2>5, <4>1, <4>2 DEF SavedInv
    <3>4. CASE unsaved /\ together
      BY <2>2, <3>1, <3>4 DEF SavedInv
    <3> QED BY <3>2, <3>3, <3>4
  <2>6. CASE place = "failed"
    <3>1. kept' = kept /\ (unsaved' <=> unsaved \/ errand[t].does \in {"revoke", "let in"})
      BY <1>2, <2>6, Zenon
    <3>2. CASE unsaved'
      BY <1>5, <2>2, <2>3, <3>2 DEF SavedInv
    <3>3. CASE ~unsaved'
      <4>1. errand[t].does \in {"set", "pair"}
        <5>1. errand[t].does \in ErrandKinds /\ errand[t].does # "nothing"
          BY <1>1, HandFields DEF ErrandsInv
        <5> QED BY <3>1, <3>3, <5>1 DEF ErrandKinds
      <4>2. \A u \in Threads : errand'[u].at = "failed" => errand'[u].does \in {"set", "pair"}
        BY <1>3, <1>5, <2>1, <3>1, <3>3, <4>1
      <4>3. errand'[t].at = "failed"
        BY <1>3, <2>6
      <4>4. ASSUME ~together, NEW u \in Threads, errand'[u].at \in {"save", "write", "failed"}
            PROVE  /\ errand'[u].does = "set" => kept' = [allow |-> errand'[u].was, phones |-> paired']
                   /\ errand'[u].does = "pair"
                        => kept' = [allow |-> allowPhones', phones |-> paired' \ {errand'[u].phone}]
        <5>1. u = t
          BY <2>4, <4>4
        <5>2. ~unsaved
          BY <3>1, <3>3
        <5>3. /\ errand[t].does = "set" => kept = [allow |-> errand[t].was, phones |-> paired]
              /\ errand[t].does = "pair"
                   => kept = [allow |-> allowPhones, phones |-> paired \ {errand[t].phone}]
          BY <1>1, <2>1, <4>4, <5>2
        <5> QED BY <1>3, <1>4, <3>1, <5>1, <5>3
      <4> QED BY <1>1, <1>5, <2>2, <2>3, <4>2, <4>3, <4>4 DEF SavedInv
    <3> QED BY <3>2, <3>3
  <2> QED BY <2>5, <2>6
<1>11. FollowInv'
  <2>1. FollowInv
    BY DEF PhonesInv
  <2>2. UNCHANGED <<allowPhones, listening, bindError, shut, crossed, adrift>>
    BY <1>4
  <2> QED BY <1>1, <1>2, <1>3, <1>7, <2>1, <2>2, FollowsSame
<1> QED BY <1>4, <1>7, <1>8, <1>9, <1>10, <1>11 DEF PhonesInv, ShutIsShut

LEMMA FailingSaveKeeps ==
    ASSUME PhonesInv, NEW t \in Hands, SaveFailed(t)
    PROVE  PhonesInv'
<1>1. ErrandsInv /\ t \in Threads /\ errand[t].at = "failed" /\ errand[t].does # "nothing"
  <2>1. ErrandsInv /\ errand[t].at = "failed"
    BY DEF PhonesInv, SaveFailed
  <2> QED BY <2>1 DEF ErrandsInv, Hands
<1>2. /\ errand' \in [Hands -> ErrandRecords] /\ OnlyHand(t)
      /\ \/ errand[t].does = "let in" /\ errand'[t].at = "saved" /\ errand'[t].does = "let in"
         \/ errand[t].does # "let in" /\ errand'[t].at = "rest" /\ errand'[t].does = "nothing"
  <2>1. CASE errand[t].does = "let in"
    <3>1. GoesTo(t, "saved") /\ "saved" \in ErrandPlaces
      BY <2>1 DEF SaveFailed, ErrandPlaces
    <3> QED BY <1>1, <2>1, <3>1, HandGoes DEF OnlyHand
  <2>2. CASE errand[t].does # "let in"
    <3>1. errand' = [errand EXCEPT ![t] = NoErrand]
      BY <2>2 DEF SaveFailed
    <3> QED BY <1>1, <2>2, <3>1, HandRests DEF OnlyHand
  <2> QED BY <2>1, <2>2
<1>3. /\ UNCHANGED <<kept, saving, listening, bindError, shut, holdToken, gone, revoked, crossed, together>>
      /\ errand[t].does = "set" => allowPhones' = errand[t].was
      /\ errand[t].does # "set" => allowPhones' = allowPhones
      /\ errand[t].does = "pair" => paired' = paired \ {errand[t].phone}
      /\ errand[t].does # "pair" => paired' = paired
  BY DEF SaveFailed, listenerVars
<1>4. /\ adrift' = (adrift \/ (errand[t].does = "set" /\ crossed)) /\ unsaved' = (unsaved \/ together)
  BY DEF SaveFailed
<1>5. /\ \A u \in Threads : u # t => errand'[u] = errand[u]
      /\ \A u \in Threads : errand'[u].at = "write" => u # t
      /\ errand'["start"] = errand["start"] /\ Hands = Threads \cup {"start"}
  BY <1>1, <1>2 DEF OnlyHand, Hands
<1>6. ErrandsInv'
  <2>1. adrift' \in BOOLEAN /\ unsaved' \in BOOLEAN
    BY <1>4, Zenon
  <2>2. {shut', crossed', adrift', together', unsaved'} \subseteq BOOLEAN
    BY <1>1, <1>3, <2>1 DEF ErrandsInv
  <2>3. allowPhones' \in BOOLEAN
    BY <1>1, <1>3, HandFields DEF ErrandsInv
  <2>4. paired' \subseteq Phones /\ kept' \in RemoteFile /\ listening' \in BOOLEAN /\ bindError' \in BOOLEAN
    BY <1>1, <1>3 DEF ErrandsInv
  <2>5. /\ errand'["start"].does = "nothing" /\ errand'["start"].at \in {"rest", "apply", "act", "kick"}
        /\ \A u \in Threads :
              /\ errand'[u].at = "rest" <=> errand'[u].does = "nothing"
              /\ errand'[u].at \in {"apply", "act", "kick"} => errand'[u].does = "set"
              /\ errand'[u].at = "write" <=> saving' = u
    <3>1. ASSUME NEW u \in Threads, u # t
          PROVE  /\ errand'[u].at = "rest" <=> errand'[u].does = "nothing"
                 /\ errand'[u].at \in {"apply", "act", "kick"} => errand'[u].does = "set"
                 /\ errand'[u].at = "write" <=> saving' = u
      <4>1. errand'[u] = errand[u] /\ saving' = saving
        BY <1>3, <1>5, <3>1
      <4> QED BY <1>1, <4>1 DEF ErrandsInv
    <3>2. /\ errand'[t].at = "rest" <=> errand'[t].does = "nothing"
          /\ errand'[t].at \in {"apply", "act", "kick"} => errand'[t].does = "set"
          /\ errand'[t].at = "write" <=> saving' = t
      BY <1>1, <1>2, <1>3, <1>5 DEF ErrandsInv
    <3>3. errand'["start"].does = "nothing" /\ errand'["start"].at \in {"rest", "apply", "act", "kick"}
      BY <1>1, <1>5 DEF ErrandsInv
    <3> QED BY <3>1, <3>2, <3>3
  <2> QED BY <1>2, <2>2, <2>3, <2>4, <2>5 DEF ErrandsInv
<1>7. PairInv'
  <2>1. /\ \A p \in holdToken \ gone : p \in paired /\ InFile(p)
        /\ \A u \in Threads :
              errand[u].does = "pair" /\ errand[u].phone \notin gone =>
                 /\ errand[u].phone \in paired \ holdToken
                 /\ errand[u].at = "write" => errand[u].phone \in errand[u].copy.phones
                 /\ errand[u].at = "saved" => InFile(errand[u].phone)
        /\ \A u, v \in Threads :
              errand[u].does = "pair" /\ errand[v].does = "pair" /\ errand[u].phone \notin gone
                 /\ errand[u].phone = errand[v].phone => u = v
    BY DEF PhonesInv, PairInv
  <2>2. \A p : InFile(p) =>
           p \in kept'.phones /\ \A u \in Threads : errand'[u].at = "write" => p \in errand'[u].copy.phones
    BY <1>3, <1>5 DEF InFile
  <2>3. \A p \in holdToken \ gone : p \in paired'
    BY <1>1, <1>3, <2>1
  <2>4. ASSUME NEW u \in Threads, errand'[u].does = "pair"
        PROVE  u # t /\ errand'[u] = errand[u] /\ (errand[u].phone \in paired \ gone => errand[u].phone \in paired')
    <3>1. u # t /\ errand'[u] = errand[u]
      BY <1>2, <1>5, <2>4
    <3> QED BY <1>1, <1>3, <2>1, <2>4, <3>1
  <2>5. ASSUME NEW u \in Threads, errand'[u].does = "pair", errand'[u].phone \notin gone
        PROVE  /\ errand'[u].phone \in paired' \ holdToken
               /\ errand'[u].at = "write" => errand'[u].phone \in errand'[u].copy.phones
               /\ errand'[u].at = "saved" => 
                     /\ errand'[u].phone \in kept'.phones
                     /\ \A v \in Threads : errand'[v].at = "write" => errand'[u].phone \in errand'[v].copy.phones
    BY <2>1, <2>2, <2>4, <2>5
  <2>6. \A u, v \in Threads :
           errand'[u].does = "pair" /\ errand'[v].does = "pair" /\ errand'[u].phone \notin gone
              /\ errand'[u].phone = errand'[v].phone => u = v
    BY <2>1, <2>4
  <2> QED BY <1>3, <2>1, <2>2, <2>3, <2>5, <2>6 DEF PairInv, InFile
<1>8. RevokeInv'
  <2>1. /\ paired' \subseteq paired
        /\ \A u \in Threads : errand'[u].does = "revoke" => errand'[u] = errand[u]
        /\ \A u \in Threads : errand'[u].at = "write" => errand'[u] = errand[u]
    BY <1>2, <1>3, <1>5
  <2> QED BY <1>3, <2>1 DEF PhonesInv, RevokeInv, OutOfFile
<1>9. SavedInv'
  <2>1. CASE together
    BY <1>3, <1>4, <2>1 DEF SavedInv
  <2>2. CASE ~together
    <3>1. \A u \in Threads : u # t => errand[u].at = "rest"
      BY <1>1, <2>2 DEF PhonesInv, SavedInv
    <3>2. \A u \in Threads : errand'[u].at \notin {"save", "write", "failed"} /\ (u # t => errand'[u].at = "rest")
      BY <1>2, <1>5, <3>1
    <3>3. ~unsaved' => ~unsaved
      BY <1>4, Zenon
    <3>4. ASSUME ~unsaved
          PROVE  kept = [allow |-> allowPhones', phones |-> paired']
      BY <1>1, <1>3, <2>2, <3>4 DEF PhonesInv, SavedInv
    <3> QED BY <1>3, <3>2, <3>3, <3>4 DEF SavedInv, Memory
  <2> QED BY <2>1, <2>2
<1>10. FollowInv'
  <2>1. FollowInv
    BY DEF PhonesInv
  <2>2. CASE errand[t].does = "set"
    <3>1. /\ adrift' = (adrift \/ crossed) /\ allowPhones' = errand[t].was
      BY <1>3, <1>4, <2>2
    <3>2. \A h : h \in AtListener' <=> h \in AtListener /\ h # t
      <4>1. \A h : h \in AtListener' <=>
               \/ h = "start" /\ errand'[h].at # "rest"
               \/ h \in Threads /\ errand'[h].does = "set"
        BY <1>6, ListenerAfter
      <4>2. \A h : h \in AtListener <=>
               \/ h = "start" /\ errand[h].at # "rest"
               \/ h \in Threads /\ errand[h].does = "set"
        BY <1>1, WhoIsAtListener
      <4>3. t # "start" /\ errand'[t].does # "set"
        BY <1>1, <1>2
      <4> QED BY <1>5, <4>1, <4>2, <4>3
    <3>3. ~crossed => AtListener' = {}
      <4>1. t \in AtListener
        BY <1>1, <2>2, WhoIsAtListener
      <4> QED BY <2>1, <3>2, <4>1 DEF FollowInv
    <3>4. ~crossed => \A h \in Hands : errand'[h].at \notin {"act", "kick"}
      <4>1. \A h \in Hands : errand'[h].at \in {"act", "kick"} => h \in AtListener'
        <5>1. \A h \in Hands : errand'[h].at \in {"act", "kick"} =>
                 \/ h = "start" /\ errand'[h].at # "rest"
                 \/ h \in Threads /\ errand'[h].does = "set"
          BY <1>5, <1>6 DEF ErrandsInv
        <5> QED BY <1>6, <5>1, ListenerAfter
      <4> QED BY <3>3, <4>1
    <3>5. ~crossed => \A u \in Threads : errand'[u].does # "set"
      BY <1>6, <3>3, ListenerAfter
    <3>6. ~crossed /\ ~adrift' /\ ~shut => (listening' = allowPhones') \/ (allowPhones' /\ bindError')
      <4>1. ~crossed /\ ~adrift' /\ ~shut => Follows(errand[t].was)
        BY <1>1, <2>1, <2>2, <3>1 DEF FollowInv
      <4>2. listening' = listening /\ bindError' = bindError
        BY <1>3
      <4> QED BY <3>1, <4>1, <4>2, Zenon DEF Follows
    <3>7. ~(crossed /\ ~adrift')
      BY <3>1, Zenon
    <3>8. crossed' = crossed /\ shut' = shut
      BY <1>3
    <3> QED BY <3>3, <3>4, <3>5, <3>6, <3>7, <3>8 DEF FollowInv, Follows
  <2>3. CASE errand[t].does # "set"
    <3>1. UNCHANGED <<allowPhones, listening, bindError, shut, crossed>>
      BY <1>3, <2>3
    <3>2. adrift' = adrift
      BY <1>1, <1>4, <2>3 DEF ErrandsInv
    <3>3. errand'[t].does # "set"
      BY <1>2
    <3> QED BY <1>1, <1>2, <1>6, <2>1, <2>3, <3>1, <3>2, <3>3, FollowsSame
  <2> QED BY <2>2, <2>3
<1> QED BY <1>3, <1>6, <1>7, <1>8, <1>9, <1>10 DEF PhonesInv, ShutIsShut

LEMMA SavedKeeps ==
    ASSUME PhonesInv, NEW t \in Hands, Saved(t)
    PROVE  PhonesInv'
<1>1. ErrandsInv /\ t \in Threads /\ errand[t].at = "saved" /\ errand[t].does # "nothing"
  <2>1. ErrandsInv /\ errand[t].at = "saved"
    BY DEF PhonesInv, Saved
  <2> QED BY <2>1 DEF ErrandsInv, Hands
<1>2. /\ errand' \in [Hands -> ErrandRecords] /\ OnlyHand(t)
      /\ \/ /\ errand[t].does = "set" /\ errand'[t].at = "apply" /\ errand'[t].does = "set"
            /\ errand'[t].was = errand[t].was
         \/ errand[t].does # "set" /\ errand'[t].at = "rest" /\ errand'[t].does = "nothing"
  <2>1. CASE errand[t].does = "set"
    <3>1. GoesTo(t, "apply") /\ "apply" \in ErrandPlaces
      BY <2>1 DEF Saved, ErrandPlaces
    <3> QED BY <1>1, <2>1, <3>1, HandGoes DEF OnlyHand
  <2>2. CASE errand[t].does # "set"
    <3>1. errand' = [errand EXCEPT ![t] = NoErrand]
      BY <2>2 DEF Saved
    <3> QED BY <1>1, <2>2, <3>1, HandRests DEF OnlyHand
  <2> QED BY <2>1, <2>2
<1>3. /\ UNCHANGED <<allowPhones, paired, kept, saving, listening, bindError, shut>>
      /\ UNCHANGED <<gone, crossed, adrift, together, unsaved>>
      /\ holdToken' = IF errand[t].does = "pair" THEN holdToken \cup {errand[t].phone} ELSE holdToken
      /\ revoked' = IF errand[t].does = "revoke" THEN revoked \cup {errand[t].phone} ELSE revoked
  BY DEF Saved, memoryVars, listenerVars
<1>4. /\ \A u \in Threads : u # t => errand'[u] = errand[u]
      /\ \A u \in Threads : errand'[u].at = "write" => u # t
      /\ errand'["start"] = errand["start"] /\ Hands = Threads \cup {"start"}
  BY <1>1, <1>2 DEF OnlyHand, Hands
<1>5. ErrandsInv'
  BY <1>1, <1>2, <1>3, <1>4 DEF ErrandsInv
<1>6. PairInv'
  <2>1. /\ \A p \in holdToken \ gone : p \in paired /\ InFile(p)
        /\ \A u \in Threads :
              errand[u].does = "pair" /\ errand[u].phone \notin gone =>
                 /\ errand[u].phone \in paired \ holdToken
                 /\ errand[u].at = "write" => errand[u].phone \in errand[u].copy.phones
                 /\ errand[u].at = "saved" => InFile(errand[u].phone)
        /\ \A u, v \in Threads :
              errand[u].does = "pair" /\ errand[v].does = "pair" /\ errand[u].phone \notin gone
                 /\ errand[u].phone = errand[v].phone => u = v
    BY DEF PhonesInv, PairInv
  <2>2. \A p : InFile(p) =>
           p \in kept'.phones /\ \A u \in Threads : errand'[u].at = "write" => p \in errand'[u].copy.phones
    BY <1>3, <1>4 DEF InFile
  <2>3. \A p \in holdToken' \ gone : p \in paired /\ InFile(p)
    BY <1>1, <1>3, <2>1
  <2>4. \A u \in Threads : errand'[u].does = "pair" => u # t /\ errand'[u] = errand[u]
    BY <1>2, <1>4
  <2>5. ASSUME NEW u \in Threads, errand'[u].does = "pair", errand'[u].phone \notin gone
        PROVE  /\ errand'[u].phone \in paired \ holdToken'
               /\ errand'[u].at = "write" => errand'[u].phone \in errand'[u].copy.phones
               /\ errand'[u].at = "saved" =>
                     /\ errand'[u].phone \in kept'.phones
                     /\ \A v \in Threads : errand'[v].at = "write" => errand'[u].phone \in errand'[v].copy.phones
    BY <1>1, <1>3, <2>1, <2>2, <2>4, <2>5
  <2>6. \A u, v \in Threads :
           errand'[u].does = "pair" /\ errand'[v].does = "pair" /\ errand'[u].phone \notin gone
              /\ errand'[u].phone = errand'[v].phone => u = v
    BY <2>1, <2>4
  <2> QED BY <1>3, <2>2, <2>3, <2>5, <2>6 DEF PairInv, InFile
<1>7. RevokeInv'
  <2>1. /\ \A p \in revoked : p \in gone \ paired /\ OutOfFile(p)
        /\ \A u \in Threads :
              errand[u].does = "revoke" =>
                 /\ errand[u].phone \in gone \ paired
                 /\ errand[u].at = "write" => errand[u].phone \notin errand[u].copy.phones
                 /\ errand[u].at = "saved" => OutOfFile(errand[u].phone)
    BY DEF PhonesInv, RevokeInv
  <2>2. \A p : OutOfFile(p) =>
           p \notin kept'.phones /\ \A u \in Threads : errand'[u].at = "write" => p \notin errand'[u].copy.phones
    BY <1>3, <1>4 DEF OutOfFile
  <2>3. \A p \in revoked' : p \in gone \ paired /\ OutOfFile(p)
    BY <1>1, <1>3, <2>1
  <2>4. \A u \in Threads : errand'[u].does = "revoke" => u # t /\ errand'[u] = errand[u]
    BY <1>2, <1>4
  <2> QED BY <1>3, <2>1, <2>2, <2>3, <2>4 DEF RevokeInv, OutOfFile
<1>8. SavedInv'
  BY <1>1, <1>2, <1>3, SavedSame DEF PhonesInv
<1>9. FollowInv'
  <2>1. FollowInv
    BY DEF PhonesInv
  <2>2. UNCHANGED <<allowPhones, listening, bindError, shut, crossed, adrift>>
    BY <1>3
  <2> QED BY <1>1, <1>2, <1>5, <2>1, <2>2, FollowsSame
<1> QED BY <1>3, <1>5, <1>6, <1>7, <1>8, <1>9 DEF PhonesInv, ShutIsShut

\* What one at the listener does to the rest.
LEMMA AtListenerKeeps ==
    ASSUME PhonesInv, NEW h \in Hands, errand[h].at \in {"apply", "act", "kick"}, OnlyHand(h),
           errand' \in [Hands -> ErrandRecords],
           \/ errand'[h].at \in {"apply", "act", "kick"} /\ errand'[h].does = errand[h].does
           \/ errand'[h].at = "rest" /\ errand'[h].does = "nothing",
           UNCHANGED <<allowPhones, paired, kept, saving, shut>>,
           UNCHANGED <<holdToken, gone, revoked, crossed, together, unsaved>>,
           listening' \in BOOLEAN, bindError' \in BOOLEAN, adrift' \in BOOLEAN
    PROVE  /\ ErrandsInv' /\ PairInv' /\ RevokeInv' /\ SavedInv'
           /\ \A g : g \in AtListener' <=> (g \in AtListener /\ (g = h => errand'[h].at # "rest"))
           /\ h \in AtListener
           /\ \A g \in Hands : errand'[g].at \in {"act", "kick"} => g \in AtListener
           /\ errand[h].does \in {"set", "nothing"}
<1>1. ErrandsInv
  BY DEF PhonesInv
<1>2. /\ \A u \in Threads : u # h => errand'[u] = errand[u]
      /\ h # "start" => h \in Threads /\ errand'["start"] = errand["start"] /\ errand[h].does = "set"
      /\ h = "start" => errand[h].does = "nothing" /\ "start" \notin Threads
      /\ "start" \in Hands /\ Hands = Threads \cup {"start"}
  BY <1>1 DEF OnlyHand, Hands, ErrandsInv
<1>3. ErrandsInv'
  <2>1. {shut', crossed', adrift', together', unsaved'} \subseteq BOOLEAN
    BY <1>1 DEF ErrandsInv
  <2>2. paired' \subseteq Phones /\ kept' \in RemoteFile /\ allowPhones' \in BOOLEAN
    BY <1>1 DEF ErrandsInv
  <2>3. errand'["start"].does = "nothing" /\ errand'["start"].at \in {"rest", "apply", "act", "kick"}
    BY <1>1, <1>2 DEF ErrandsInv
  <2>4. ASSUME NEW u \in Threads
        PROVE  /\ errand'[u].at = "rest" <=> errand'[u].does = "nothing"
               /\ errand'[u].at \in {"apply", "act", "kick"} => errand'[u].does = "set"
               /\ errand'[u].at = "write" <=> saving' = u
    <3>1. CASE u = h
      BY <1>1, <1>2, <3>1 DEF ErrandsInv
    <3>2. CASE u # h
      BY <1>1, <1>2, <3>2 DEF ErrandsInv
    <3> QED BY <3>1, <3>2
  <2> QED BY <2>1, <2>2, <2>3, <2>4 DEF ErrandsInv
<1>4. PairInv' /\ RevokeInv'
  <2>1. errand[h].does \notin {"pair", "revoke"} /\ errand'[h].does \notin {"pair", "revoke"}
    BY <1>2
  <2>2. PairInv /\ RevokeInv /\ UNCHANGED <<kept, paired, holdToken, gone, revoked>>
    BY DEF PhonesInv
  <2> QED BY <2>1, <2>2, TokensSame
<1>5. SavedInv'
  <2>1. SavedInv /\ UNCHANGED <<kept, allowPhones, paired, together, unsaved>>
    BY DEF PhonesInv
  <2> QED BY <2>1, SavedSame
<1>6. \A g : g \in AtListener <=>
         \/ g = "start" /\ errand[g].at # "rest"
         \/ g \in Threads /\ errand[g].does = "set"
  BY <1>1, WhoIsAtListener
<1>7. \A g : g \in AtListener' <=>
         \/ g = "start" /\ errand'[g].at # "rest"
         \/ g \in Threads /\ errand'[g].does = "set"
  BY <1>3, ListenerAfter
<1>8. h \in AtListener
  BY <1>2, <1>6
<1>9. ASSUME NEW g
      PROVE  g \in AtListener' <=> (g \in AtListener /\ (g = h => errand'[h].at # "rest"))
  <2>1. CASE g = h
    BY <1>2, <1>6, <1>7, <2>1
  <2>2. CASE g # h
    BY <1>2, <1>6, <1>7, <2>2
  <2> QED BY <2>1, <2>2
<1>10. ASSUME NEW g \in Hands, errand'[g].at \in {"act", "kick"}
       PROVE  g \in AtListener
  <2>1. CASE g = h
    BY <1>8, <2>1
  <2>2. CASE g # h
    BY <1>1, <1>2, <1>6, <1>10, <2>2 DEF ErrandsInv
  <2> QED BY <2>1, <2>2
<1> QED BY <1>2, <1>3, <1>4, <1>5, <1>8, <1>9, <1>10

LEMMA LookingKeeps ==
    ASSUME PhonesInv, NEW h \in Hands, LooksAtSetting(h)
    PROVE  PhonesInv'
<1>1. ErrandsInv /\ FollowInv /\ errand[h].at = "apply"
  BY DEF PhonesInv, LooksAtSetting
<1>2. /\ errand' \in [Hands -> ErrandRecords] /\ OnlyHand(h)
      /\ errand'[h].at = "act" /\ errand'[h].does = errand[h].does /\ errand'[h].was = errand[h].was
      /\ errand'[h].on = allowPhones
  <2> DEFINE e == [errand[h] EXCEPT !.on = allowPhones, !.at = "act"]
  <2>1. allowPhones \in BOOLEAN
    BY <1>1 DEF ErrandsInv
  <2>2. /\ e \in ErrandRecords /\ e.at = "act" /\ e.does = errand[h].does /\ e.was = errand[h].was
        /\ e.on = allowPhones
    BY <1>1, <2>1, HandFields DEF ErrandRecords, ErrandPlaces
  <2>3. errand' = [errand EXCEPT ![h] = e]
    BY <1>1 DEF LooksAtSetting, ErrandsInv, ErrandRecords
  <2> HIDE DEF e
  <2> QED BY <1>1, <2>2, <2>3, HandMoves DEF OnlyHand
<1>3. /\ UNCHANGED <<allowPhones, paired, kept, saving, shut>>
      /\ UNCHANGED <<holdToken, gone, revoked, crossed, together, unsaved>>
      /\ UNCHANGED <<listening, bindError, adrift>>
  BY DEF LooksAtSetting, memoryVars, listenerVars, phonesHistory
<1>4. listening' \in BOOLEAN /\ bindError' \in BOOLEAN /\ adrift' \in BOOLEAN
  BY <1>1, <1>3 DEF ErrandsInv
<1>5. /\ ErrandsInv' /\ PairInv' /\ RevokeInv' /\ SavedInv'
      /\ \A g : g \in AtListener' <=> (g \in AtListener /\ (g = h => errand'[h].at # "rest"))
  <2>1. errand[h].at \in {"apply", "act", "kick"} /\ errand'[h].at \in {"apply", "act", "kick"}
    BY <1>1, <1>2
  <2> QED BY <1>2, <1>3, <1>4, <2>1, AtListenerKeeps
<1>6. AtListener' = AtListener
  BY <1>2, <1>5
<1>7. FollowInv'
  <2>1. \A g \in Hands : g # h => errand'[g] = errand[g]
    BY <1>2 DEF OnlyHand
  <2>2. \A t \in Threads : t \in Hands
    BY DEF Hands
  <2> QED BY <1>1, <1>2, <1>3, <1>6, <2>1, <2>2 DEF FollowInv, Follows
<1> QED BY <1>3, <1>5, <1>7 DEF PhonesInv, ShutIsShut

LEMMA KickingKeeps ==
    ASSUME PhonesInv, NEW h \in Hands, KicksAll(h)
    PROVE  PhonesInv'
<1>1. ErrandsInv /\ FollowInv /\ errand[h].at = "kick" /\ errand' = [errand EXCEPT ![h] = NoErrand]
  BY DEF PhonesInv, KicksAll
<1>2. /\ errand' \in [Hands -> ErrandRecords] /\ OnlyHand(h)
      /\ errand'[h].at = "rest" /\ errand'[h].does = "nothing"
  BY <1>1, HandRests DEF OnlyHand
<1>3. /\ UNCHANGED <<allowPhones, paired, kept, saving, shut>>
      /\ UNCHANGED <<holdToken, gone, revoked, crossed, together, unsaved>>
      /\ UNCHANGED <<listening, bindError, adrift>>
  BY DEF KicksAll, memoryVars, listenerVars, phonesHistory
<1>4. listening' \in BOOLEAN /\ bindError' \in BOOLEAN /\ adrift' \in BOOLEAN
  BY <1>1, <1>3 DEF ErrandsInv
<1>5. /\ ErrandsInv' /\ PairInv' /\ RevokeInv' /\ SavedInv'
      /\ \A g : g \in AtListener' <=> (g \in AtListener /\ (g = h => errand'[h].at # "rest"))
      /\ h \in AtListener
      /\ \A g \in Hands : errand'[g].at \in {"act", "kick"} => g \in AtListener
  <2>1. errand[h].at \in {"apply", "act", "kick"}
    BY <1>1
  <2> QED BY <1>2, <1>3, <1>4, <2>1, AtListenerKeeps
<1>6. FollowInv'
  <2>1. \A g \in Hands : g # h => errand'[g] = errand[g]
    BY <1>2 DEF OnlyHand
  <2>2. CASE crossed
    BY <1>1, <1>3, <2>1, <2>2 DEF FollowInv, Hands
  <2>3. CASE ~crossed
    <3>1. \A g \in AtListener : g = h
      BY <1>1, <1>5, <2>3 DEF FollowInv
    <3>2. \A g : g \notin AtListener'
      BY <1>2, <1>5, <3>1
    <3>3. \A g \in Hands : errand'[g].at \notin {"act", "kick"}
      BY <1>2, <1>5, <3>1
    <3>4. \A t \in Threads : errand'[t].does # "set"
      BY <1>5, <3>2, ListenerAfter
    <3>5. ~adrift /\ ~shut => Follows(allowPhones)
      BY <1>1, <2>3 DEF FollowInv
    <3> QED BY <1>3, <2>3, <3>2, <3>3, <3>4, <3>5 DEF FollowInv, Follows
  <2> QED BY <2>2, <2>3
<1> QED BY <1>3, <1>5, <1>6 DEF PhonesInv, ShutIsShut

LEMMA ListenerKeeps ==
    ASSUME PhonesInv, NEW h \in Hands, MovesListener(h)
    PROVE  PhonesInv'
<1>1. ErrandsInv /\ FollowInv /\ ShutIsShut /\ errand[h].at = "act"
  BY DEF PhonesInv, MovesListener
<1>2. errand[h].on \in BOOLEAN /\ listening \in BOOLEAN /\ bindError \in BOOLEAN /\ shut \in BOOLEAN
      /\ errand[h].at \in {"apply", "act", "kick"}
      /\ allowPhones \in BOOLEAN /\ adrift \in BOOLEAN /\ crossed \in BOOLEAN
  BY <1>1, HandFields DEF ErrandsInv
<1>3. /\ OnlyHand(h) /\ errand' \in [Hands -> ErrandRecords]
      /\ \/ errand'[h].at \in {"apply", "kick"} /\ errand'[h].does = errand[h].does
         \/ errand'[h].at = "rest" /\ errand'[h].does = "nothing"
  <2>1. GoesTo(h, "kick") \/ GoesTo(h, "apply") \/ errand' = [errand EXCEPT ![h] = NoErrand]
    BY DEF MovesListener, Applied, GoesTo
  <2>2. "kick" \in ErrandPlaces /\ "apply" \in ErrandPlaces
    BY DEF ErrandPlaces
  <2>3. CASE GoesTo(h, "kick")
    BY <1>1, <2>2, <2>3, HandGoes DEF OnlyHand
  <2>4. CASE GoesTo(h, "apply")
    BY <1>1, <2>2, <2>4, HandGoes DEF OnlyHand
  <2>5. CASE errand' = [errand EXCEPT ![h] = NoErrand]
    BY <1>1, <2>5, HandRests DEF OnlyHand
  <2> QED BY <2>1, <2>3, <2>4, <2>5
<1>4. /\ UNCHANGED <<allowPhones, paired, kept, saving, shut>>
      /\ UNCHANGED <<holdToken, gone, revoked, crossed, together, unsaved>>
  BY DEF MovesListener, memoryVars
<1>5. adrift' = (crossed \/ (adrift /\ h = "start"))
  BY DEF MovesListener
<1>6. /\ listening' \in BOOLEAN /\ bindError' \in BOOLEAN
      /\ ~shut => (listening' = errand[h].on) \/ (errand[h].on /\ bindError')
      /\ shut => listening' = listening
  <2>1. CASE /\ ~shut /\ errand[h].on /\ ~listening
             /\ \/ listening' = TRUE /\ bindError' = FALSE
                \/ bindError' = TRUE /\ listening' = listening
    BY <1>2, <2>1
  <2>2. CASE ~shut /\ ~errand[h].on /\ listening /\ listening' = FALSE /\ bindError' = FALSE
    BY <1>2, <2>2
  <2>3. CASE /\ shut \/ errand[h].on = listening
             /\ bindError' = (bindError /\ (shut \/ errand[h].on)) /\ listening' = listening
    <3>1. bindError' \in BOOLEAN
      BY <2>3, Zenon
    <3> QED BY <1>2, <2>3, <3>1
  <2>4. \/ /\ ~shut /\ errand[h].on /\ ~listening
           /\ \/ listening' = TRUE /\ bindError' = FALSE
              \/ bindError' = TRUE /\ listening' = listening
        \/ ~shut /\ ~errand[h].on /\ listening /\ listening' = FALSE /\ bindError' = FALSE
        \/ /\ shut \/ errand[h].on = listening
           /\ bindError' = (bindError /\ (shut \/ errand[h].on)) /\ listening' = listening
    BY Zenon DEF MovesListener, MayListen
  <2> QED BY <2>1, <2>2, <2>3, <2>4
<1>7. adrift' \in BOOLEAN
  BY <1>5, Zenon
<1>8. /\ ErrandsInv' /\ PairInv' /\ RevokeInv' /\ SavedInv'
      /\ \A g : g \in AtListener' <=> (g \in AtListener /\ (g = h => errand'[h].at # "rest"))
      /\ h \in AtListener
      /\ \A g \in Hands : errand'[g].at \in {"act", "kick"} => g \in AtListener
  BY <1>2, <1>3, <1>4, <1>6, <1>7, AtListenerKeeps
<1>9. FollowInv'
  <2>1. CASE crossed
    <3>1. crossed' /\ adrift'
      BY <1>4, <1>5, <2>1
    <3> QED BY <3>1 DEF FollowInv
  <2>2. CASE ~crossed
    <3>1. errand[h].on = allowPhones /\ \A g \in AtListener : g = h
      BY <1>1, <1>8, <2>2 DEF FollowInv
    <3>2. \A g \in AtListener' : g = h
      BY <1>8, <3>1
    <3>3. \A g \in Hands : errand'[g].at # "act"
      BY <1>3, <1>8, <3>1
    <3>4. ~shut => (listening' = allowPhones) \/ (allowPhones /\ bindError')
      BY <1>6, <3>1
    <3>5. \A t \in Threads : errand'[t].does = "set" => errand'[t].at \notin {"save", "write", "failed"}
      <4>1. \A t \in Threads : errand'[t].does = "set" => t = h
        BY <1>8, <3>2, ListenerAfter
      <4> QED BY <1>3, <4>1
    <3> QED BY <1>4, <2>2, <3>2, <3>3, <3>4, <3>5 DEF FollowInv, Follows
  <2> QED BY <2>1, <2>2
<1>10. ShutIsShut'
  BY <1>1, <1>4, <1>6 DEF ShutIsShut
<1> QED BY <1>8, <1>9, <1>10 DEF PhonesInv

\* Whatever is left of the state when a server starts is its file.
LEMMA StartingAgainKeeps ==
    ASSUME PhonesInv, StartsAgain
    PROVE  PhonesInv'
<1>1. /\ errand' = [h \in Hands |-> IF h = "start" THEN [NoErrand EXCEPT !.at = "apply"] ELSE NoErrand]
      /\ allowPhones' = kept.allow /\ paired' = kept.phones /\ kept' = kept
      /\ saving' = "nobody" /\ listening' = FALSE /\ bindError' = FALSE /\ shut' = FALSE
      /\ crossed' = FALSE /\ adrift' = FALSE /\ together' = FALSE /\ unsaved' = FALSE
      /\ UNCHANGED <<holdToken, gone, revoked>>
  BY DEF StartsAgain
<1>2. /\ kept \in RemoteFile /\ kept.allow \in BOOLEAN /\ kept.phones \subseteq Phones
      /\ kept = [allow |-> kept.allow, phones |-> kept.phones]
  BY DEF PhonesInv, ErrandsInv, RemoteFile
<1>3. /\ \A t \in Threads : errand'[t].at = "rest" /\ errand'[t].does = "nothing"
      /\ errand'["start"].at = "apply" /\ errand'["start"].does = "nothing"
      /\ errand' \in [Hands -> ErrandRecords] /\ Hands = Threads \cup {"start"}
  <2>1. NoErrand \in ErrandRecords /\ [NoErrand EXCEPT !.at = "apply"] \in ErrandRecords
    BY DEF NoErrand, ErrandRecords, ErrandKinds, ErrandPlaces, RemoteFile
  <2>2. /\ NoErrand.at = "rest" /\ NoErrand.does = "nothing"
        /\ [NoErrand EXCEPT !.at = "apply"].at = "apply" /\ [NoErrand EXCEPT !.at = "apply"].does = "nothing"
    BY DEF NoErrand
  <2>3. \A t \in Threads : errand'[t] = NoErrand
    BY <1>1 DEF Hands
  <2>4. errand'["start"] = [NoErrand EXCEPT !.at = "apply"] /\ errand' \in [Hands -> ErrandRecords]
    BY <1>1, <2>1 DEF Hands
  <2> QED BY <2>2, <2>3, <2>4 DEF Hands
<1>4. ErrandsInv'
  BY <1>1, <1>2, <1>3 DEF ErrandsInv
<1>5. PairInv' /\ RevokeInv'
  BY <1>1, <1>3 DEF PhonesInv, PairInv, RevokeInv, InFile, OutOfFile
<1>6. SavedInv'
  BY <1>1, <1>2, <1>3 DEF SavedInv, Memory
<1>7. FollowInv'
  <2>1. AtListener' = {"start"}
    <3>1. \A h : h \in AtListener' <=> h = "start"
      BY <1>3, <1>4, ListenerAfter
    <3> QED BY <3>1
  <2>2. \A h \in Hands : errand'[h].at \notin {"act", "kick"}
    BY <1>3
  <2> QED BY <1>1, <1>3, <2>1, <2>2 DEF FollowInv
<1> QED BY <1>1, <1>4, <1>5, <1>6, <1>7 DEF PhonesInv, ShutIsShut

LEMMA PhonesStep == PhonesInv /\ [PhonesNext]_phonesVars => PhonesInv'
<1> SUFFICES ASSUME PhonesInv, [PhonesNext]_phonesVars
             PROVE  PhonesInv'
  OBVIOUS
<1>1. ASSUME UNCHANGED <<allowPhones, paired, kept, saving, errand, bindError>>, 
             UNCHANGED <<holdToken, gone, revoked, crossed, adrift, together, unsaved>>,
             \/ UNCHANGED <<listening, shut>>
             \/ listening' = FALSE /\ shut' = TRUE
      PROVE  PhonesInv'
  <2>1. ErrandsInv'
    BY <1>1 DEF PhonesInv, ErrandsInv
  <2>2. PairInv' /\ RevokeInv'
    BY <1>1 DEF PhonesInv, PairInv, RevokeInv, InFile, OutOfFile
  <2>3. SavedInv'
    BY <1>1 DEF PhonesInv, SavedInv, Memory
  <2>4. AtListener' = AtListener
    BY <1>1 DEF AtListener, AtWork
  <2>5. FollowInv'
    BY <1>1, <2>4 DEF PhonesInv, FollowInv, Follows
  <2>6. ShutIsShut'
    BY <1>1 DEF PhonesInv, ShutIsShut
  <2> QED BY <2>1, <2>2, <2>3, <2>5, <2>6 DEF PhonesInv
<1>2. CASE UNCHANGED phonesVars
  <2>1. /\ UNCHANGED <<memoryVars, kept, saving, listenerVars, errand>> /\ UNCHANGED phonesHistory
    BY <1>2 DEF phonesVars
  <2> QED BY <1>1, <2>1 DEF memoryVars, listenerVars, phonesHistory
<1>3. CASE PhonesNext
  <2>1. CASE StopsListening
    BY <1>1, <2>1 DEF StopsListening, memoryVars, phonesHistory
  <2>2. CASE StartsAgain
    BY <2>2, StartingAgainKeeps
  <2>3. ASSUME NEW t \in Threads,
               SetAllowPhones(t) \/ \E p \in Phones : Pair(t, p) \/ Revoke(t, p) \/ LetIn(t, p)
        PROVE  PhonesInv'
    <3>1. ErrandsInv
      BY DEF PhonesInv
    <3>2. PICK does \in {"set", "pair", "revoke", "let in"}, p \in Phones \cup {"nobody"} :
             Started(t, does, p)
      BY <2>3, <3>1, Starting
    <3> QED BY <3>2, StartingKeeps
  <2>4. ASSUME NEW h \in Hands, Errand(h)
        PROVE  PhonesInv'
    BY <2>4, CopyingKeeps, WritingKeeps, FailingSaveKeeps, SavedKeeps, LookingKeeps, ListenerKeeps,
       KickingKeeps DEF Errand
  <2>5. ASSUME NEW p \in Phones, LetInUnsaved(p) \/ Session(p) \/ PhoneLeaves(p)
        PROVE  PhonesInv'
    <3>1. /\ UNCHANGED <<memoryVars, kept, saving, listenerVars, errand>> /\ UNCHANGED phonesHistory
      BY <2>5 DEF LetInUnsaved, Session, PhoneLeaves
    <3> QED BY <1>1, <3>1 DEF memoryVars, listenerVars, phonesHistory
  <2> QED BY <1>3, <2>1, <2>2, <2>3, <2>4, <2>5 DEF PhonesNext
<1> QED BY <1>2, <1>3

LEMMA PhonesInvImplies == PhonesInv => PhonesAreKept
<1> SUFFICES ASSUME PhonesInv
             PROVE  PhonesAreKept
  OBVIOUS
<1>1. PairedSurvives
  BY DEF PhonesInv, PairInv, InFile, PairedSurvives
<1>2. UnpairedStaysGone
  BY DEF PhonesInv, RevokeInv, OutOfFile, UnpairedStaysGone
<1>3. KeptIsMemory
  <2> SUFFICES ASSUME AtWork \ {"start"} = {}, ~unsaved
               PROVE  kept = Memory
    BY DEF KeptIsMemory
  <2>1. \A t \in Threads : errand[t].at = "rest"
    BY DEF AtWork, Hands
  <2> QED BY <2>1 DEF PhonesInv, SavedInv
<1>4. ListenerFollows
  <2> SUFFICES ASSUME AtListener = {}, ~shut, ~adrift
               PROVE  (listening = allowPhones) \/ (allowPhones /\ bindError)
    BY DEF ListenerFollows
  <2>1. ~crossed
    <3>1. \A t \in Threads : errand[t].does # "set"
      BY WhoIsAtListener DEF PhonesInv
    <3> QED BY <3>1 DEF PhonesInv, FollowInv
  <2> QED BY <2>1 DEF PhonesInv, FollowInv, Follows
<1> QED BY <1>1, <1>2, <1>3, <1>4 DEF PhonesInv, PhonesAreKept

\* What is said of phones is what the file says after any restart, and the
\* listener is as the setting says, however many change them at once
\* (remote/mod.rs, save and apply).
THEOREM PhonesKept == PhonesSpec => []PhonesAreKept
BY PhonesStart, PhonesStep, PhonesInvImplies, PTL DEF PhonesSpec

-----------------------------------------------------------------------------
(* Preparing a recall.                                                     *)

HIDE PhonesAssumption
USE RecallAssumption

\* R orders S, with no ties.
Orders(R, S) ==
    /\ \A x \in S : <<x, x>> \notin R
    /\ \A x, y \in S : x # y => <<x, y>> \in R \/ <<y, x>> \in R
    /\ \A x, y, z \in S : <<x, y>> \in R /\ <<y, z>> \in R => <<x, z>> \in R

\* InOrder lists every member of a set once, in the order it is given.
LEMMA ListsAll ==
    ASSUME NEW S, IsFiniteSet(S), NEW R, Orders(R, S)
    PROVE  /\ Cardinality(S) \in Nat /\ DOMAIN InOrder(S, R) = 1 .. Cardinality(S)
           /\ \A i \in 1 .. Cardinality(S) : InOrder(S, R)[i] \in S
           /\ \A x \in S : \E i \in 1 .. Cardinality(S) : InOrder(S, R)[i] = x
           /\ \A i, j \in 1 .. Cardinality(S) :
                 i < j => <<InOrder(S, R)[i], InOrder(S, R)[j]>> \in R
<1> DEFINE n == Cardinality(S)
           Lower(x) == {y \in S : <<y, x>> \in R}
           Rank == [x \in S |-> Cardinality(Lower(x)) + 1]
<1>1. n \in Nat
  BY FS_CardinalityType
<1>2. \A x \in S : Lower(x) \in SUBSET S /\ Lower(x) # S /\ IsFiniteSet(Lower(x))
  <2> TAKE x \in S
  <2>1. Lower(x) \in SUBSET S /\ x \notin Lower(x)
    BY DEF Orders
  <2> HIDE DEF Lower
  <2> QED BY <2>1, FS_Subset
<1>3. \A x \in S : Cardinality(Lower(x)) \in 0 .. n - 1 /\ Rank[x] \in 1 .. n
  <2> TAKE x \in S
  <2> HIDE DEF Lower
  <2>1. Cardinality(Lower(x)) \in Nat /\ Cardinality(Lower(x)) <= n /\ Cardinality(Lower(x)) # n
    BY <1>2, FS_Subset, FS_CardinalityType
  <2> QED BY <1>1, <2>1
<1>4. \A x, y \in S : <<x, y>> \in R => Rank[x] < Rank[y]
  <2> TAKE x, y \in S
  <2> SUFFICES ASSUME <<x, y>> \in R
               PROVE  Rank[x] < Rank[y]
    OBVIOUS
  <2>1. Lower(x) \in SUBSET Lower(y) /\ x \in Lower(y) /\ x \notin Lower(x)
    BY DEF Orders
  <2>2. Lower(x) # Lower(y)
    BY <2>1
  <2> HIDE DEF Lower
  <2>3. /\ Cardinality(Lower(x)) <= Cardinality(Lower(y))
        /\ Cardinality(Lower(x)) # Cardinality(Lower(y))
    BY <1>2, <2>1, <2>2, FS_Subset
  <2> QED BY <1>1, <1>3, <2>3
<1>5. Rank \in Injection(S, 1 .. n)
  <2>1. Rank \in [S -> 1 .. n]
    <3> HIDE DEF Lower
    <3> QED BY <1>3
  <2>2. DOMAIN Rank = S /\ \A x \in S : Rank[x] \in Int
    <3> HIDE DEF Lower
    <3> QED BY <1>1, <1>3
  <2> HIDE DEF Rank
  <2>3. ASSUME NEW x \in S, NEW y \in S, Rank[x] = Rank[y]
        PROVE  x = y
    <3>1. ~(Rank[x] < Rank[y]) /\ ~(Rank[y] < Rank[x])
      BY <2>2, <2>3
    <3>2. <<x, y>> \notin R /\ <<y, x>> \notin R
      BY <1>4, <3>1
    <3> QED BY <3>2 DEF Orders
  <2> QED BY <2>1, <2>2, <2>3 DEF Injection, IsInjective
<1>6. Rank \in Surjection(S, 1 .. n)
  <2> HIDE DEF Rank
  <2>1. IsFiniteSet(1 .. n) /\ Cardinality(1 .. n) = n
    BY <1>1, FS_Interval
  <2> QED BY <1>5, <2>1, FS_Injection
<1>7. \A i \in 1 .. n : \E x \in S : Rank[x] = i
  <2> HIDE DEF Rank
  <2> QED BY <1>6 DEF Surjection
<1>8. \A i \in 1 .. n : InOrder(S, R)[i] \in S /\ Rank[InOrder(S, R)[i]] = i
  <2> TAKE i \in 1 .. n
  <2>1. PICK x \in S : Rank[x] = i
    BY <1>7
  <2>2. Cardinality(Lower(x)) = i - 1
    <3> HIDE DEF Lower
    <3> QED BY <1>1, <1>3, <2>1
  <2>3. InOrder(S, R)[i] = CHOOSE y \in S : Cardinality(Lower(y)) = i - 1
    BY DEF InOrder
  <2>4. InOrder(S, R)[i] \in S /\ Cardinality(Lower(InOrder(S, R)[i])) = i - 1
    <3> HIDE DEF Lower
    <3> QED BY <2>2, <2>3
  <2> HIDE DEF Lower
  <2> QED BY <1>1, <2>4
<1>9. DOMAIN InOrder(S, R) = 1 .. n
  BY DEF InOrder
<1> HIDE DEF Rank, n
<1>10. \A x \in S : \E i \in 1 .. n : InOrder(S, R)[i] = x
  <2> TAKE x \in S
  <2>1. Rank[x] \in 1 .. n
    BY <1>3
  <2>2. InOrder(S, R)[Rank[x]] \in S /\ Rank[InOrder(S, R)[Rank[x]]] = Rank[x]
    BY <1>8, <2>1
  <2>3. InOrder(S, R)[Rank[x]] = x
    BY <1>5, <2>2 DEF Injection, IsInjective
  <2> QED BY <2>1, <2>3
<1>11. \A i, j \in 1 .. n : i < j => <<InOrder(S, R)[i], InOrder(S, R)[j]>> \in R
  <2> TAKE i, j \in 1 .. n
  <2> SUFFICES ASSUME i < j
               PROVE  <<InOrder(S, R)[i], InOrder(S, R)[j]>> \in R
    OBVIOUS
  <2>1. /\ InOrder(S, R)[i] \in S /\ InOrder(S, R)[j] \in S
        /\ Rank[InOrder(S, R)[i]] = i /\ Rank[InOrder(S, R)[j]] = j
    BY <1>8
  <2>2. InOrder(S, R)[i] # InOrder(S, R)[j] /\ ~(j < i)
    BY <1>1, <2>1
  <2>3. <<InOrder(S, R)[j], InOrder(S, R)[i]>> \notin R
    BY <1>4, <2>1, <2>2
  <2> QED BY <2>1, <2>2, <2>3 DEF Orders
<1> QED BY <1>1, <1>8, <1>9, <1>10, <1>11 DEF n

\* What is taken out of a sequence are its members at the places, in order.
LEMMA TakesInOrder ==
    ASSUME NEW s, NEW is, IsFiniteSet(is), NEW R, Orders(R, is)
    PROVE  /\ Taken(s, is, R) = [i \in 1 .. Cardinality(is) |-> s[InOrder(is, R)[i]]]
           /\ Cardinality(is) \in Nat
<1>1. Cardinality(is) \in Nat /\ DOMAIN InOrder(is, R) = 1 .. Cardinality(is)
  BY ListsAll
<1> QED BY <1>1 DEF Taken

\* Of numbers up to some number there is a last one.
LEMMA LastOne ==
    ASSUME NEW n \in Nat, NEW T \in SUBSET (1 .. n), T # {}
    PROVE  \E i \in T : \A j \in T : j <= i
<1> DEFINE R == {p \in T \X T : p[1] < p[2]}
<1>1. IsFiniteSet(T)
  <2>1. IsFiniteSet(1 .. n)
    BY FS_Interval
  <2> QED BY <2>1, FS_Subset
<1>2. Orders(R, T)
  BY DEF Orders
<1> HIDE DEF R
<1>3. /\ Cardinality(T) \in Nat /\ Cardinality(T) # 0
  BY <1>1, FS_CardinalityType, FS_EmptySet
<1>4. /\ \A i \in 1 .. Cardinality(T) : InOrder(T, R)[i] \in T
      /\ \A x \in T : \E i \in 1 .. Cardinality(T) : InOrder(T, R)[i] = x
      /\ \A i, j \in 1 .. Cardinality(T) : i < j => <<InOrder(T, R)[i], InOrder(T, R)[j]>> \in R
  BY <1>1, <1>2, ListsAll
<1>5. Cardinality(T) \in 1 .. Cardinality(T)
  BY <1>3
<1>6. ASSUME NEW j \in T
      PROVE  j <= InOrder(T, R)[Cardinality(T)]
  <2>1. PICK i \in 1 .. Cardinality(T) : InOrder(T, R)[i] = j
    BY <1>4
  <2>2. CASE i = Cardinality(T)
    BY <2>1, <2>2
  <2>3. CASE i < Cardinality(T)
    <3>1. <<j, InOrder(T, R)[Cardinality(T)]>> \in R
      BY <1>4, <1>5, <2>1, <2>3
    <3>2. PICK p \in T \X T : p = <<j, InOrder(T, R)[Cardinality(T)]>> /\ p[1] < p[2]
      BY <3>1 DEF R
    <3>3. j < InOrder(T, R)[Cardinality(T)]
      BY <3>2
    <3>4. j \in Int /\ InOrder(T, R)[Cardinality(T)] \in Int
      <4>1. InOrder(T, R)[Cardinality(T)] \in T
        BY <1>4, <1>5
      <4>2. \A x \in T : x \in Int
        OBVIOUS
      <4> QED BY <4>1, <4>2
    <3> QED BY <3>3, <3>4
  <2> QED BY <1>3, <2>2, <2>3
<1> QED BY <1>4, <1>5, <1>6

\* The order of an interface's commands: by stage, then quieter first, then
\* by the place in the stage, then by the number.
Louds(d, t) == IF Louder(d, t) THEN 1 ELSE 0

TargetKinds == {"strip", "mute", "clock", "type", "phantom", "routing", "volume", "hard", "dim"}

LEMMA TargetFacts ==
    ASSUME NEW d, NEW t \in Targets(d)
    PROVE  /\ t.kind \in TargetKinds /\ t.id \in {0, 1} /\ t = Of(t.kind, t.id)
           /\ t.kind \notin {"strip", "mute"} => t.id = 0
           /\ t.kind \in {"hard", "dim"} => d \in Quadros
           /\ t.kind = "mute" => t \in Mutes
           /\ t.kind = "hard" => t = Hard
  BY DEF Targets, Strips, Mutes, Plain, Hard, Of, TargetKinds

LEMMA PlaceFacts ==
    ASSUME NEW d, NEW t \in Targets(d)
    PROVE  /\ StageOf(PartOf(t)) \in Nat /\ Within(t) \in Nat /\ t.id \in Nat
           /\ Louds(d, t) \in {0, 1}
           /\ t.kind # "strip" => Louds(d, t) = 0
           /\ PartOf(t) \in ToSet(PARTS) \ {"silence"}
           /\ PartOf(t) = "restore" <=> t.kind \in {"mute", "dim", "hard"}
           /\ PartOf(t) = "mixer" <=> t.kind = "strip"
<1>1. t.kind \in TargetKinds /\ t.id \in {0, 1}
  BY TargetFacts
<1>2. PartOf(t) \in {"clock", "inputs", "phantom", "routing", "mixer", "outputs", "restore"}
  BY <1>1 DEF PartOf, TargetKinds
<1>3. StageOf(PartOf(t)) \in Nat /\ Within(t) \in Nat /\ t.id \in Nat
  BY <1>1, <1>2 DEF StageOf, Within
<1>4. Louds(d, t) \in {0, 1} /\ (t.kind # "strip" => Louds(d, t) = 0)
  BY DEF Louds, Louder
<1>5. PartOf(t) = "restore" <=> t.kind \in {"mute", "dim", "hard"}
  BY <1>1 DEF PartOf, TargetKinds
<1>6. PartOf(t) = "mixer" <=> t.kind = "strip"
  BY <1>1 DEF PartOf, TargetKinds
<1>7. PartOf(t) \in ToSet(PARTS) \ {"silence"}
  BY <1>2 DEF PARTS, ToSet
<1> QED BY <1>3, <1>4, <1>5, <1>6, <1>7

LEMMA BeforeIs ==
    ASSUME NEW d, NEW t \in Targets(d), NEW u \in Targets(d)
    PROVE  Before(d, t, u) <=>
             \/ StageOf(PartOf(t)) < StageOf(PartOf(u))
             \/ /\ StageOf(PartOf(t)) = StageOf(PartOf(u))
                /\ \/ Louds(d, t) < Louds(d, u)
                   \/ /\ Louds(d, t) = Louds(d, u)
                      /\ \/ Within(t) < Within(u)
                         \/ Within(t) = Within(u) /\ t.id < u.id
<1> DEFINE a == Key(d, t)
           b == Key(d, u)
<1>1. /\ a[1] = StageOf(PartOf(t)) /\ a[2] = Louds(d, t) /\ a[3] = Within(t) /\ a[4] = t.id
      /\ b[1] = StageOf(PartOf(u)) /\ b[2] = Louds(d, u) /\ b[3] = Within(u) /\ b[4] = u.id
  BY DEF Key, Louds
<1>2. Before(d, t, u) <=> \E i \in 1 .. 4 : a[i] < b[i] /\ \A j \in 1 .. i - 1 : a[j] = b[j]
  BY DEF Before
<1> HIDE DEF a, b
<1>3. Before(d, t, u) <=>
        \/ a[1] < b[1]
        \/ a[1] = b[1] /\ a[2] < b[2]
        \/ a[1] = b[1] /\ a[2] = b[2] /\ a[3] < b[3]
        \/ a[1] = b[1] /\ a[2] = b[2] /\ a[3] = b[3] /\ a[4] < b[4]
  <2>1. ASSUME a[1] < b[1] PROVE Before(d, t, u)
    BY <1>2, <2>1
  <2>2. ASSUME a[1] = b[1], a[2] < b[2] PROVE Before(d, t, u)
    <3>1. \A j \in 1 .. 2 - 1 : a[j] = b[j]
      BY <2>2
    <3> QED BY <1>2, <2>2, <3>1
  <2>3. ASSUME a[1] = b[1], a[2] = b[2], a[3] < b[3] PROVE Before(d, t, u)
    <3>1. \A j \in 1 .. 3 - 1 : a[j] = b[j]
      BY <2>3
    <3> QED BY <1>2, <2>3, <3>1
  <2>4. ASSUME a[1] = b[1], a[2] = b[2], a[3] = b[3], a[4] < b[4] PROVE Before(d, t, u)
    <3>1. \A j \in 1 .. 4 - 1 : a[j] = b[j]
      BY <2>4
    <3> QED BY <1>2, <2>4, <3>1
  <2>5. ASSUME NEW i \in 1 .. 4, a[i] < b[i], \A j \in 1 .. i - 1 : a[j] = b[j]
        PROVE  \/ a[1] < b[1]
               \/ a[1] = b[1] /\ a[2] < b[2]
               \/ a[1] = b[1] /\ a[2] = b[2] /\ a[3] < b[3]
               \/ a[1] = b[1] /\ a[2] = b[2] /\ a[3] = b[3] /\ a[4] < b[4]
    <3>1. CASE i = 1
      BY <2>5, <3>1
    <3>2. CASE i = 2
      BY <2>5, <3>2
    <3>3. CASE i = 3
      BY <2>5, <3>3
    <3>4. CASE i = 4
      BY <2>5, <3>4
    <3> QED BY <3>1, <3>2, <3>3, <3>4
  <2> QED BY <1>2, <2>1, <2>2, <2>3, <2>4, <2>5
<1> QED BY <1>1, <1>3

\* No two commands of an interface have the same place.
LEMMA PlacesDiffer ==
    ASSUME NEW d, NEW t \in Targets(d), NEW u \in Targets(d), t # u
    PROVE  \/ StageOf(PartOf(t)) # StageOf(PartOf(u)) \/ Within(t) # Within(u) \/ t.id # u.id
<1>1. /\ t.kind \in TargetKinds /\ t = Of(t.kind, t.id)
      /\ u.kind \in TargetKinds /\ u = Of(u.kind, u.id)
  BY TargetFacts
<1>2. CASE t.kind = u.kind
  BY <1>1, <1>2
<1>3. CASE t.kind # u.kind
  BY <1>1, <1>3 DEF PartOf, StageOf, Within, TargetKinds
<1> QED BY <1>2, <1>3

Sooner(d, U) == {p \in U \X U : Before(d, p[1], p[2])}

LEMMA BeforeOrders ==
    ASSUME NEW d, NEW T \in SUBSET Targets(d), NEW U, T \in SUBSET U
    PROVE  Orders(Sooner(d, U), T)
<1> DEFINE R == Sooner(d, U)
<1>1. \A x, y \in T : <<x, y>> \in R <=> Before(d, x, y)
  BY DEF Sooner
<1>2. \A x \in T : /\ StageOf(PartOf(x)) \in Nat /\ Louds(d, x) \in {0, 1}
                   /\ Within(x) \in Nat /\ x.id \in Nat
  <2> TAKE x \in T
  <2>1. x \in Targets(d)
    OBVIOUS
  <2>2. StageOf(PartOf(x)) \in Nat /\ Within(x) \in Nat /\ x.id \in Nat
    BY <2>1, PlaceFacts
  <2>3. Louds(d, x) \in {0, 1}
    BY <2>1, PlaceFacts
  <2> QED BY <2>2, <2>3
<1>3. \A x \in T : ~Before(d, x, x)
  BY <1>2, BeforeIs
<1>4. \A x, y \in T : x # y => Before(d, x, y) \/ Before(d, y, x)
  <2> TAKE x, y \in T
  <2> SUFFICES ASSUME x # y
               PROVE  Before(d, x, y) \/ Before(d, y, x)
    OBVIOUS
  <2>1. StageOf(PartOf(x)) # StageOf(PartOf(y)) \/ Within(x) # Within(y) \/ x.id # y.id
    BY PlacesDiffer
  <2> QED BY <1>2, <2>1, BeforeIs
<1>5. \A x, y, z \in T : Before(d, x, y) /\ Before(d, y, z) => Before(d, x, z)
  <2> TAKE x, y, z \in T
  <2>1. x \in Targets(d) /\ y \in Targets(d) /\ z \in Targets(d)
    OBVIOUS
  <2> QED BY <1>2, <2>1, BeforeIs
<1> HIDE DEF R
<1>6. Orders(R, T)
  BY <1>1, <1>3, <1>4, <1>5 DEF Orders
<1> QED BY <1>6 DEF R

LEMMA TargetsFinite == ASSUME NEW d PROVE IsFiniteSet(Targets(d))
<1>1. \A x, y : IsFiniteSet({x, y})
  <2> TAKE x, y
  <2>1. IsFiniteSet({x})
    BY FS_Singleton
  <2>2. {x, y} = {x} \cup {y}
    OBVIOUS
  <2> QED BY <2>1, <2>2, FS_AddElement
<1>2. IsFiniteSet(Strips) /\ IsFiniteSet(Mutes) /\ IsFiniteSet({Hard, Of("dim", 0)})
  BY <1>1 DEF Strips, Mutes
<1>3. IsFiniteSet(Plain)
  <2>1. /\ IsFiniteSet({Of("clock", 0), Of("type", 0)})
        /\ IsFiniteSet({Of("phantom", 0), Of("routing", 0)}) /\ IsFiniteSet({Of("volume", 0)})
    BY <1>1, FS_Singleton
  <2>2. Plain = {Of("clock", 0), Of("type", 0)} \cup {Of("phantom", 0), Of("routing", 0)}
                \cup {Of("volume", 0)}
    BY DEF Plain
  <2> QED BY <2>1, <2>2, FS_Union
<1>4. IsFiniteSet(IF d \in Quadros THEN {Hard, Of("dim", 0)} ELSE {})
  BY <1>2, FS_EmptySet
<1> QED BY <1>2, <1>3, <1>4, FS_Union DEF Targets

\* What is built is a target, and the outputs are among what is restored.
LEMMA BuiltTargets ==
    ASSUME NEW d
    PROVE  /\ ToBuild(d) \in SUBSET Targets(d) /\ SilencingTargets(d) \in SUBSET RestoreTargets(d)
           /\ RestoreTargets(d) \in SUBSET Targets(d)
           /\ \A t \in RestoreTargets(d) : t.kind \in {"mute", "hard"}
           /\ ToBuild(d) # {} => RestoreTargets(d) \in SUBSET ToBuild(d)
<1>1. Wanted(d) \in SUBSET Targets(d)
  BY DEF Wanted, Values
<1>2. RestoreTargets(d) \in SUBSET Targets(d)
  BY DEF RestoreTargets, Targets
<1>3. SilencingTargets(d) \in SUBSET RestoreTargets(d)
  BY DEF SilencingTargets, RestoreTargets
<1>4. \A t \in RestoreTargets(d) : t.kind \in {"mute", "hard"}
  BY DEF RestoreTargets, Mutes, Hard, Of
<1> QED BY <1>1, <1>2, <1>3, <1>4 DEF ToBuild

\* A command that silences an output, and one that sets what the snapshot has.
Silences(s) ==
    /\ s.of \in Interfaces /\ ToBuild(s.of) # {} /\ s.target \in SilencingTargets(s.of)
    /\ s.part = "silence" /\ s.value = 1 /\ (s.blocked <=> RestoreIncomplete(s.of))

Puts(s) ==
    /\ s.of \in Interfaces /\ s.target \in ToBuild(s.of) /\ Buildable(s.of, s.target)
    /\ s.part = PartOf(s.target) /\ s.value = recorded[s.of][Telling(s.of, s.target)]
    /\ s.blocked <=> HeldBack(s.of, s.target) \/ RestoreIncomplete(s.of)

\* A sequence of commands, each one or the other; within a part of an
\* interface they are in order.
Listed(q) == q \in Seq({q[i] : i \in DOMAIN q})
Proper(q) == \A i \in DOMAIN q : Silences(q[i]) \/ Puts(q[i])
InTheirOrder(q) ==
    \A i, j \in DOMAIN q :
        i < j /\ q[i].of = q[j].of /\ q[i].part = q[j].part /\ q[i].part # "silence"
          => Before(q[i].of, q[i].target, q[j].target)

\* All of an interface's commands are there.
AllOf(q, d) ==
    /\ ToBuild(d) # {} =>
          \A t \in SilencingTargets(d) :
              \E i \in DOMAIN q : q[i].of = d /\ q[i].target = t /\ Silences(q[i])
    /\ \A t \in ToBuild(d) : Buildable(d, t) =>
          \E i \in DOMAIN q : q[i].of = d /\ q[i].target = t /\ Puts(q[i])

LEMMA PutsFacts ==
    ASSUME NEW s, Puts(s)
    PROVE  s.part # "silence" /\ s.target \in Targets(s.of)
  BY BuiltTargets, PlaceFacts DEF Puts

LEMMA ListedFacts ==
    ASSUME NEW S, NEW q \in Seq(S)
    PROVE  Listed(q) /\ Len(q) \in Nat /\ DOMAIN q = 1 .. Len(q)
<1>1. Len(q) \in Nat /\ DOMAIN q = 1 .. Len(q) /\ q = [i \in 1 .. Len(q) |-> q[i]]
  BY LenProperties
<1> QED BY <1>1 DEF Listed

LEMMA ListOf ==
    ASSUME NEW n \in Nat, NEW q, q = [i \in 1 .. n |-> q[i]]
    PROVE  Listed(q) /\ Len(q) = n /\ DOMAIN q = 1 .. n
  BY DEF Listed

LEMMA OneAfterOther ==
    ASSUME NEW p, NEW q, Listed(p), Listed(q)
    PROVE  /\ Listed(p \o q) /\ DOMAIN (p \o q) = 1 .. Len(p) + Len(q)
           /\ Len(p) \in Nat /\ Len(q) \in Nat
           /\ DOMAIN p = 1 .. Len(p) /\ DOMAIN q = 1 .. Len(q)
           /\ \A i \in 1 .. Len(p) + Len(q) :
                 (p \o q)[i] = IF i <= Len(p) THEN p[i] ELSE q[i - Len(p)]
<1> DEFINE S == {p[i] : i \in DOMAIN p} \cup {q[i] : i \in DOMAIN q}
           r == p \o q
<1>1. p \in Seq(S) /\ q \in Seq(S)
  BY SeqMonotonic DEF Listed
<1> HIDE DEF S
<1>2. /\ r \in Seq(S) /\ Len(r) = Len(p) + Len(q)
      /\ \A i \in 1 .. Len(p) + Len(q) : r[i] = IF i <= Len(p) THEN p[i] ELSE q[i - Len(p)]
  BY <1>1, ConcatProperties
<1> HIDE DEF r
<1>3. Len(p) \in Nat /\ Len(q) \in Nat /\ DOMAIN p = 1 .. Len(p) /\ DOMAIN q = 1 .. Len(q)
  BY <1>1, ListedFacts
<1>4. Listed(r) /\ DOMAIN r = 1 .. Len(p) + Len(q)
  BY <1>2, ListedFacts
<1> QED BY <1>2, <1>3, <1>4 DEF r

\* Silencing an interface is one command for every output there is to silence.
LEMMA SilencingOne ==
    ASSUME NEW d \in Interfaces, ToBuild(d) # {}
    PROVE  /\ Listed(SilenceSteps(d))
           /\ \A i \in DOMAIN SilenceSteps(d) : SilenceSteps(d)[i].of = d /\ Silences(SilenceSteps(d)[i])
           /\ \A t \in SilencingTargets(d) : \E i \in DOMAIN SilenceSteps(d) : SilenceSteps(d)[i].target = t
<1> DEFINE T == SilencingTargets(d)
           R == {p \in Mutes \X Mutes : p[1].id < p[2].id}
           q == SilenceSteps(d)
<1>1. IsFiniteSet(T)
  BY BuiltTargets, TargetsFinite, FS_Subset
<1>2. Orders(R, T)
  <2>1. \A x, y : <<x, y>> \in R <=> x \in Mutes /\ y \in Mutes /\ x.id < y.id
    OBVIOUS
  <2>2. Hard \notin Mutes
    BY DEF Mutes, Hard, Of
  <2>3. \A x, y \in Mutes : x.id \in {0, 1} /\ (x # y => x.id # y.id)
    BY DEF Mutes, Of
  <2> HIDE DEF R
  <2>4. CASE d \in Quadros
    BY <2>1, <2>2, <2>4 DEF SilencingTargets, Orders
  <2>5. CASE d \notin Quadros
    BY <2>1, <2>3, <2>5 DEF SilencingTargets, Orders
  <2> QED BY <2>4, <2>5
<1>3. /\ Cardinality(T) \in Nat /\ DOMAIN InOrder(T, R) = 1 .. Cardinality(T)
      /\ \A i \in 1 .. Cardinality(T) : InOrder(T, R)[i] \in T
      /\ \A x \in T : \E i \in 1 .. Cardinality(T) : InOrder(T, R)[i] = x
  <2> HIDE DEF R, T
  <2> QED BY <1>1, <1>2, ListsAll
<1>4. q = [i \in 1 .. Cardinality(T) |-> Step(d, InOrder(T, R)[i], "silence", 1, RestoreIncomplete(d))]
  BY <1>3 DEF SilenceSteps
<1> HIDE DEF R, q
<1>5. Listed(q) /\ DOMAIN q = 1 .. Cardinality(T)
  BY <1>3, <1>4 DEF Listed
<1>6. ASSUME NEW i \in 1 .. Cardinality(T)
      PROVE  q[i].of = d /\ q[i].target = InOrder(T, R)[i] /\ Silences(q[i])
  <2>1. q[i] = Step(d, InOrder(T, R)[i], "silence", 1, RestoreIncomplete(d))
    BY <1>4
  <2>2. /\ q[i].of = d /\ q[i].target = InOrder(T, R)[i] /\ q[i].part = "silence" /\ q[i].value = 1
    BY <2>1 DEF Step
  <2>3. q[i].blocked <=> RestoreIncomplete(d)
    BY <2>1 DEF Step
  <2> HIDE DEF T
  <2> QED BY <1>3, <2>2, <2>3 DEF Silences, T
<1> HIDE DEF T
<1> QED BY <1>3, <1>5, <1>6 DEF q, T

\* The rest of an interface's commands: one for every target, in their order.
PuttingSteps(d) ==
    [i \in DOMAIN Ordered(d) |->
        LET t == Ordered(d)[i]
        IN  Step(d, t, PartOf(t), recorded[d][Telling(d, t)], HeldBack(d, t) \/ RestoreIncomplete(d))]

LEMMA PuttingOne ==
    ASSUME NEW d \in Interfaces
    PROVE  /\ Listed(PuttingSteps(d))
           /\ \A i \in DOMAIN PuttingSteps(d) : PuttingSteps(d)[i].of = d /\ Puts(PuttingSteps(d)[i])
           /\ \A t \in ToBuild(d) : Buildable(d, t) =>
                 \E i \in DOMAIN PuttingSteps(d) : PuttingSteps(d)[i].target = t
           /\ \A i, j \in DOMAIN PuttingSteps(d) :
                 i < j => Before(d, PuttingSteps(d)[i].target, PuttingSteps(d)[j].target)
<1> DEFINE T == {t \in ToBuild(d) : Buildable(d, t)}
           R == Sooner(d, ToBuild(d))
           q == PuttingSteps(d)
           o == InOrder(T, R)
<1>1. T \in SUBSET Targets(d) /\ T \in SUBSET ToBuild(d)
  BY BuiltTargets
<1>2. IsFiniteSet(T)
  <2> HIDE DEF T
  <2> QED BY <1>1, TargetsFinite, FS_Subset
<1>3. Orders(R, T)
  <2> HIDE DEF T
  <2> QED BY <1>1, BeforeOrders
<1>4. /\ Cardinality(T) \in Nat /\ DOMAIN o = 1 .. Cardinality(T)
      /\ \A i \in 1 .. Cardinality(T) : o[i] \in T
      /\ \A x \in T : \E i \in 1 .. Cardinality(T) : o[i] = x
      /\ \A i, j \in 1 .. Cardinality(T) : i < j => <<o[i], o[j]>> \in R
  <2> HIDE DEF R, T
  <2> QED BY <1>2, <1>3, ListsAll
<1>5. \A x, y : <<x, y>> \in R => Before(d, x, y)
  BY DEF Sooner
<1>6. Ordered(d) = o
  BY DEF Ordered, Sooner
<1> HIDE DEF R, o
<1>7. q = [i \in 1 .. Cardinality(T) |->
             Step(d, o[i], PartOf(o[i]), recorded[d][Telling(d, o[i])],
                  HeldBack(d, o[i]) \/ RestoreIncomplete(d))]
  <2> HIDE DEF T
  <2> QED BY <1>4, <1>6 DEF PuttingSteps
<1> HIDE DEF q
<1>8. Listed(q) /\ DOMAIN q = 1 .. Cardinality(T)
  <2> HIDE DEF T
  <2> QED BY <1>4, <1>7 DEF Listed
<1>9. ASSUME NEW i \in 1 .. Cardinality(T)
      PROVE  q[i].of = d /\ q[i].target = o[i] /\ Puts(q[i])
  <2>1. q[i] = Step(d, o[i], PartOf(o[i]), recorded[d][Telling(d, o[i])],
                    HeldBack(d, o[i]) \/ RestoreIncomplete(d))
    <3> HIDE DEF T
    <3> QED BY <1>7
  <2>2. /\ q[i].of = d /\ q[i].target = o[i] /\ q[i].part = PartOf(o[i])
        /\ q[i].value = recorded[d][Telling(d, o[i])]
    BY <2>1 DEF Step
  <2>3. q[i].blocked <=> HeldBack(d, o[i]) \/ RestoreIncomplete(d)
    <3>1. q[i].blocked = (HeldBack(d, o[i]) \/ RestoreIncomplete(d))
      BY <2>1 DEF Step
    <3> QED BY <3>1
  <2>4. o[i] \in ToBuild(d) /\ Buildable(d, o[i])
    BY <1>4
  <2> QED BY <2>2, <2>3, <2>4 DEF Puts
<1>10. \A t \in ToBuild(d) : Buildable(d, t) => \E i \in DOMAIN q : q[i].target = t
  <2> TAKE t \in ToBuild(d)
  <2> SUFFICES ASSUME Buildable(d, t)
               PROVE  \E i \in DOMAIN q : q[i].target = t
    OBVIOUS
  <2>1. PICK i \in 1 .. Cardinality(T) : o[i] = t
    BY <1>4
  <2> QED BY <1>8, <1>9, <2>1
<1>11. \A i, j \in DOMAIN q : i < j => Before(d, q[i].target, q[j].target)
  <2> HIDE DEF T
  <2> TAKE i, j \in DOMAIN q
  <2>1. i \in 1 .. Cardinality(T) /\ j \in 1 .. Cardinality(T)
    BY <1>8
  <2>2. i < j => Before(d, o[i], o[j])
    BY <1>4, <1>5, <2>1
  <2> QED BY <1>9, <2>1, <2>2
<1> HIDE DEF T
<1>12. \A i \in DOMAIN q : q[i].of = d /\ Puts(q[i])
  BY <1>8, <1>9
<1> QED BY <1>8, <1>10, <1>11, <1>12 DEF q

\* The commands of an interface, as they are planned.
LEMMA PlannedOne ==
    ASSUME NEW d \in Interfaces
    PROVE  /\ Listed(StepsOf(d)) /\ Proper(StepsOf(d)) /\ InTheirOrder(StepsOf(d))
           /\ AllOf(StepsOf(d), d)
           /\ \A i \in DOMAIN StepsOf(d) : StepsOf(d)[i].of = d
<1>1. CASE ToBuild(d) = {}
  <2>1. StepsOf(d) = <<>> /\ DOMAIN StepsOf(d) = {} /\ Listed(StepsOf(d))
    BY <1>1, EmptySeq DEF StepsOf, Listed
  <2> QED BY <1>1, <2>1 DEF Proper, InTheirOrder, AllOf
<1>2. CASE ToBuild(d) # {}
  <2> DEFINE p == SilenceSteps(d)
             q == PuttingSteps(d)
             r == StepsOf(d)
  <2>1. r = p \o q
    BY <1>2 DEF StepsOf, PuttingSteps
  <2>2. /\ Listed(p) /\ \A i \in DOMAIN p : p[i].of = d /\ Silences(p[i])
        /\ \A t \in SilencingTargets(d) : \E i \in DOMAIN p : p[i].target = t
    BY <1>2, SilencingOne
  <2>3. /\ Listed(q) /\ \A i \in DOMAIN q : q[i].of = d /\ Puts(q[i])
        /\ \A t \in ToBuild(d) : Buildable(d, t) => \E i \in DOMAIN q : q[i].target = t
        /\ \A i, j \in DOMAIN q : i < j => Before(d, q[i].target, q[j].target)
    BY PuttingOne
  <2> HIDE DEF p, q, r
  <2>4. /\ Listed(r) /\ DOMAIN r = 1 .. Len(p) + Len(q)
        /\ Len(p) \in Nat /\ Len(q) \in Nat
        /\ DOMAIN p = 1 .. Len(p) /\ DOMAIN q = 1 .. Len(q)
        /\ \A i \in 1 .. Len(p) + Len(q) : r[i] = IF i <= Len(p) THEN p[i] ELSE q[i - Len(p)]
    <3>1. Listed(p) /\ Listed(q)
      BY <2>2, <2>3
    <3> QED BY <2>1, <3>1, OneAfterOther
  <2>5. ASSUME NEW i \in DOMAIN r
        PROVE  \/ i \in DOMAIN p /\ r[i] = p[i] /\ Silences(r[i]) /\ r[i].of = d
               \/ /\ i > Len(p) /\ i - Len(p) \in DOMAIN q /\ r[i] = q[i - Len(p)]
                  /\ Puts(r[i]) /\ r[i].of = d
    <3>1. CASE i <= Len(p)
      BY <2>2, <2>4, <3>1
    <3>2. CASE i > Len(p)
      <4>1. i - Len(p) \in DOMAIN q /\ r[i] = q[i - Len(p)]
        BY <2>4, <3>2
      <4> QED BY <2>3, <3>2, <4>1
    <3> QED BY <2>4, <3>1, <3>2
  <2>6. \A i \in DOMAIN p : i \in DOMAIN r /\ r[i] = p[i]
    BY <2>4
  <2>7. \A i \in DOMAIN q : i + Len(p) \in DOMAIN r /\ r[i + Len(p)] = q[i]
    BY <2>4
  <2>8. Proper(r) /\ \A i \in DOMAIN r : r[i].of = d
    BY <2>5 DEF Proper
  <2>9. InTheirOrder(r)
    <3> SUFFICES ASSUME NEW i \in DOMAIN r, NEW j \in DOMAIN r, i < j,
                        r[i].part = r[j].part, r[i].part # "silence"
                 PROVE  Before(r[i].of, r[i].target, r[j].target)
      BY DEF InTheirOrder
    <3>1. /\ i - Len(p) \in DOMAIN q /\ r[i] = q[i - Len(p)] /\ r[i].of = d
          /\ j - Len(p) \in DOMAIN q /\ r[j] = q[j - Len(p)]
      BY <2>5 DEF Silences
    <3>2. i - Len(p) < j - Len(p)
      BY <2>4
    <3> QED BY <2>3, <3>1, <3>2
  <2>10. AllOf(r, d)
    <3>1. \A t \in SilencingTargets(d) : \E i \in DOMAIN r : r[i].of = d /\ r[i].target = t /\ Silences(r[i])
      BY <2>2, <2>6
    <3>2. \A t \in ToBuild(d) : Buildable(d, t) =>
             \E i \in DOMAIN r : r[i].of = d /\ r[i].target = t /\ Puts(r[i])
      BY <2>3, <2>7
    <3> QED BY <3>1, <3>2 DEF AllOf
  <2> QED BY <2>4, <2>8, <2>9, <2>10 DEF r
<1> QED BY <1>1, <1>2

\* What is asked for and what is known is not touched while a plan is made, and
\* so means what it meant.
LEMMA SamePlans ==
    ASSUME UNCHANGED <<asking, recorded, current>>
    PROVE  /\ \A s : Silences(s)' <=> Silences(s)
           /\ \A s : Puts(s)' <=> Puts(s)
           /\ \A d, t, u : Before(d, t, u)' <=> Before(d, t, u)
           /\ \A d : ToBuild(d)' = ToBuild(d)
           /\ \A d, t : Buildable(d, t)' <=> Buildable(d, t)
<1>1. \A d, v : Recallable(d, v)' <=> Recallable(d, v)
  BY DEF Recallable, Differs
<1>2. \A d : ToBuild(d)' = ToBuild(d)
  BY <1>1 DEF ToBuild, Wanted
<1>3. \A d, t : Buildable(d, t)' <=> Buildable(d, t)
  BY DEF Buildable
<1>4. \A d : RestoreIncomplete(d)' <=> RestoreIncomplete(d)
  BY <1>2, <1>3 DEF RestoreIncomplete
<1>5. \A d, t : Telling(d, t)' = Telling(d, t)
  BY <1>1 DEF Telling
<1>6. \A d, t : HeldBack(d, t)' <=> HeldBack(d, t)
  BY <1>1 DEF HeldBack, Raises
<1>7. \A d, t : Louder(d, t)' <=> Louder(d, t)
  BY <1>5 DEF Louder
<1>8. \A d, t : Key(d, t)' = Key(d, t)
  BY <1>7 DEF Key
<1>9. \A d, t, u : Before(d, t, u)' <=> Before(d, t, u)
  BY <1>8 DEF Before
<1>10. \A s : Silences(s)' <=> Silences(s)
  BY <1>2, <1>4 DEF Silences
<1>11. \A s : Puts(s)' <=> Puts(s)
  BY <1>2, <1>3, <1>4, <1>5, <1>6 DEF Puts
<1> QED BY <1>2, <1>3, <1>9, <1>10, <1>11

\* Once the commands are in stages: the parts follow each other, and whatever
\* an interface is told, there is what silences it.
InStages(q) == \A i, j \in DOMAIN q : i < j => Position(q[i].part) <= Position(q[j].part)
Covered(q) ==
    \A i \in DOMAIN q : q[i].part # "silence" =>
        \A t \in SilencingTargets(q[i].of) :
            \E m \in DOMAIN q : q[m].of = q[i].of /\ q[m].target = t /\ Silences(q[m])

ValuesKnown ==
    \A d \in Interfaces : \A v \in Values(d) : recorded[d][v] \in Int /\ current[d][v] \in Int

RecallInv ==
    /\ planning \in 1 .. Done
    /\ Listed(steps) /\ Proper(steps) /\ InTheirOrder(steps)
    /\ planning <= Rendering => ValuesKnown /\ \A d \in Interfaces : d < planning => AllOf(steps, d)
    /\ planning <= Staging => \A i \in DOMAIN steps : steps[i].of < planning
    /\ planning >= Rendering => InStages(steps)
    /\ planning = Rendering => Covered(steps)

LEMMA PlanningNumbers ==
    /\ InterfaceCount \in Nat \ {0} /\ Interfaces = 1 .. InterfaceCount
    /\ Staging = InterfaceCount + 1 /\ Rendering = InterfaceCount + 2 /\ Done = InterfaceCount + 3
  BY DEF Interfaces, Staging, Rendering, Done

LEMMA Positions ==
    /\ Position("silence") = 1 /\ Position("restore") = 8
    /\ \A a \in ToSet(PARTS) : Position(a) \in 1 .. 8
    /\ \A a, b \in ToSet(PARTS) : Position(a) = Position(b) => a = b
<1>1. DOMAIN PARTS = 1 .. 8 /\ PARTS[1] = "silence" /\ PARTS[8] = "restore"
  BY DEF PARTS
<1>2. \A i \in 1 .. 8 : PARTS[i] = "silence" => i = 1
  BY DEF PARTS
<1>3. \A i \in 1 .. 8 : PARTS[i] = "restore" => i = 8
  BY DEF PARTS
<1>4. \A a \in ToSet(PARTS) : \E i \in DOMAIN PARTS : PARTS[i] = a
  BY DEF ToSet
<1>5. \A a \in ToSet(PARTS) : Position(a) \in DOMAIN PARTS /\ PARTS[Position(a)] = a
  BY <1>4 DEF Position
<1>6. "silence" \in ToSet(PARTS) /\ "restore" \in ToSet(PARTS)
  <2>1. 1 \in DOMAIN PARTS /\ 8 \in DOMAIN PARTS
    BY <1>1
  <2> QED BY <1>1, <2>1 DEF ToSet
<1>7. \A a, b \in ToSet(PARTS) : Position(a) = Position(b) => a = b
  BY <1>5
<1> QED BY <1>1, <1>2, <1>3, <1>5, <1>6, <1>7

LEMMA ProperParts ==
    ASSUME NEW q, Proper(q), NEW i \in DOMAIN q
    PROVE  q[i].part \in ToSet(PARTS) /\ Position(q[i].part) \in 1 .. 8
<1>1. q[i].part \in ToSet(PARTS)
  <2>1. CASE Silences(q[i])
    BY <2>1 DEF Silences, ToSet, PARTS
  <2>2. CASE Puts(q[i])
    BY <2>2, PutsFacts, PlaceFacts DEF Puts
  <2> QED BY <2>1, <2>2 DEF Proper
<1> QED BY <1>1, Positions

\* What is so of a list with what is known is so of it afterwards.
LEMMA Carried ==
    ASSUME UNCHANGED <<asking, recorded, current>>, NEW q, steps' = q
    PROVE  /\ Listed(q) => Listed(steps)'
           /\ Proper(q) => Proper(steps)'
           /\ InTheirOrder(q) => InTheirOrder(steps)'
           /\ InStages(q) => InStages(steps)'
           /\ Covered(q) => Covered(steps)'
           /\ ValuesKnown => ValuesKnown'
           /\ \A d : AllOf(q, d) => AllOf(steps, d)'
<1>1. Listed(q) => Listed(steps)'
  BY DEF Listed
<1>2. Proper(q) => Proper(steps)'
  BY SamePlans DEF Proper
<1>3. InTheirOrder(q) => InTheirOrder(steps)'
  BY SamePlans DEF InTheirOrder
<1>4. InStages(q) => InStages(steps)'
  BY DEF InStages
<1>5. Covered(q) => Covered(steps)'
  BY SamePlans DEF Covered
<1>6. ValuesKnown => ValuesKnown'
  BY DEF ValuesKnown
<1>7. \A d : AllOf(q, d) => AllOf(steps, d)'
  BY SamePlans DEF AllOf
<1> QED BY <1>1, <1>2, <1>3, <1>4, <1>5, <1>6, <1>7

LEMMA NothingPlanned ==
    /\ Listed(<<>>) /\ Proper(<<>>) /\ InTheirOrder(<<>>) /\ InStages(<<>>) /\ Covered(<<>>)
    /\ DOMAIN <<>> = {}
<1>1. DOMAIN <<>> = {} /\ Listed(<<>>)
  BY EmptySeq DEF Listed
<1> QED BY <1>1 DEF Proper, InTheirOrder, InStages, Covered

LEMMA CapturedPairs ==
    ASSUME NEW cs \in Captures, NEW d \in Interfaces, NEW v \in Values(d)
    PROVE  cs[d][v][1] \in Int /\ cs[d][v][2] \in Int
<1>1. PICK D, f :
         /\ \A x \in D : f[x] \in Unlike(x[2])
         /\ cs = [e \in Interfaces |->
                    [w \in Values(e) |-> IF <<e, w>> \in DOMAIN f THEN f[<<e, w>>] ELSE AsItWas(w)]]
         /\ DOMAIN f = D
  BY DEF Captures
<1>2. cs[d][v] = IF <<d, v>> \in D THEN f[<<d, v>>] ELSE AsItWas(v)
  BY <1>1
<1>3. cs[d][v] \in Unlike(v) \cup {AsItWas(v)}
  <2>1. <<d, v>>[2] = v
    OBVIOUS
  <2> QED BY <1>1, <1>2, <2>1
<1>4. \A p \in Pairs(v) : p[1] \in Int /\ p[2] \in Int
  BY DEF Pairs, None
<1>5. AsItWas(v)[1] \in Int /\ AsItWas(v)[2] \in Int
  BY DEF AsItWas
<1> QED BY <1>3, <1>4, <1>5 DEF Unlike

LEMMA RecallStart == RecallInit => RecallInv
<1> SUFFICES ASSUME RecallInit
             PROVE  RecallInv
  OBVIOUS
<1>1. planning = 1 /\ steps = <<>>
  BY DEF RecallInit
<1>2. ValuesKnown
  <2>1. PICK cs \in Captures :
           /\ recorded = [d \in Interfaces |-> [v \in Values(d) |-> cs[d][v][1]]]
           /\ current = [d \in Interfaces |-> [v \in Values(d) |-> cs[d][v][2]]]
    BY DEF RecallInit
  <2> SUFFICES ASSUME NEW d \in Interfaces, NEW v \in Values(d)
               PROVE  recorded[d][v] \in Int /\ current[d][v] \in Int
    BY DEF ValuesKnown
  <2>2. recorded[d][v] = cs[d][v][1] /\ current[d][v] = cs[d][v][2]
    BY <2>1
  <2> QED BY <2>2, CapturedPairs
<1>3. \A d \in Interfaces : ~(d < planning)
  BY <1>1 DEF Interfaces
<1>4. planning \in 1 .. Done /\ planning < Rendering
  BY <1>1, PlanningNumbers
<1>5. \A i \in DOMAIN steps : steps[i].of < planning
  BY <1>1, NothingPlanned
<1>6. Listed(steps) /\ Proper(steps) /\ InTheirOrder(steps)
  BY <1>1, NothingPlanned
<1>7. ~(planning >= Rendering) /\ planning # Rendering
  BY <1>1, PlanningNumbers
<1> QED BY <1>2, <1>3, <1>4, <1>5, <1>6, <1>7 DEF RecallInv

LEMMA PlanInterfaceKeeps == RecallInv /\ PlanInterface => RecallInv'
<1> SUFFICES ASSUME RecallInv, PlanInterface
             PROVE  RecallInv'
  OBVIOUS
<1> DEFINE d == planning
           p == steps
           q == StepsOf(d)
           r == p \o q
<1>1. /\ planning \in 1 .. Done /\ planning < Staging /\ planning' = planning + 1
      /\ UNCHANGED <<asking, recorded, current>> /\ steps' = r
  BY DEF RecallInv, PlanInterface
<1>2. d \in Interfaces /\ d \in Nat /\ planning <= Rendering /\ planning <= Staging
  BY <1>1, PlanningNumbers
<1>3. /\ Listed(p) /\ Proper(p) /\ InTheirOrder(p) /\ ValuesKnown
      /\ (\A e \in Interfaces : e < d => AllOf(p, e)) /\ \A i \in DOMAIN p : p[i].of < d
  BY <1>2 DEF RecallInv
<1>4. /\ Listed(q) /\ Proper(q) /\ InTheirOrder(q) /\ AllOf(q, d)
      /\ \A i \in DOMAIN q : q[i].of = d
  BY <1>2, PlannedOne
<1>5. /\ Listed(r) /\ DOMAIN r = 1 .. Len(p) + Len(q)
      /\ Len(p) \in Nat /\ Len(q) \in Nat
      /\ DOMAIN p = 1 .. Len(p) /\ DOMAIN q = 1 .. Len(q)
      /\ \A i \in 1 .. Len(p) + Len(q) : r[i] = IF i <= Len(p) THEN p[i] ELSE q[i - Len(p)]
  <2>1. Listed(p) /\ Listed(q)
    BY <1>3, <1>4
  <2> HIDE DEF p, q
  <2> QED BY <2>1, OneAfterOther
<1> HIDE DEF p, q, r, d
<1>6. ASSUME NEW i \in DOMAIN r
      PROVE  \/ i \in DOMAIN p /\ r[i] = p[i] /\ r[i].of < d
             \/ i > Len(p) /\ i - Len(p) \in DOMAIN q /\ r[i] = q[i - Len(p)] /\ r[i].of = d
  <2>1. CASE i <= Len(p)
    BY <1>3, <1>5, <2>1
  <2>2. CASE i > Len(p)
    BY <1>4, <1>5, <2>2
  <2> QED BY <1>5, <2>1, <2>2
<1>7. \A i \in DOMAIN p : i \in DOMAIN r /\ r[i] = p[i]
  BY <1>5
<1>8. \A i \in DOMAIN q : i + Len(p) \in DOMAIN r /\ r[i + Len(p)] = q[i]
  BY <1>5
<1>9. Proper(r)
  BY <1>3, <1>4, <1>6 DEF Proper
<1>10. InTheirOrder(r)
  <2> SUFFICES ASSUME NEW i \in DOMAIN r, NEW j \in DOMAIN r, i < j, r[i].of = r[j].of,
                      r[i].part = r[j].part, r[i].part # "silence"
               PROVE  Before(r[i].of, r[i].target, r[j].target)
    BY DEF InTheirOrder
  <2>1. CASE r[i].of < d
    <3>1. /\ i \in DOMAIN p /\ r[i] = p[i] /\ j \in DOMAIN p /\ r[j] = p[j]
      BY <1>2, <1>6, <2>1
    <3> QED BY <1>3, <3>1 DEF InTheirOrder
  <2>2. CASE r[i].of = d
    <3>1. i - Len(p) \in DOMAIN q /\ r[i] = q[i - Len(p)]
      BY <1>2, <1>6, <2>2
    <3>3. j - Len(p) \in DOMAIN q /\ r[j] = q[j - Len(p)]
      <4>1. r[j].of = d /\ ~(d < d)
        BY <1>2, <2>2
      <4> QED BY <1>6, <4>1
    <3>2. i - Len(p) < j - Len(p)
      BY <1>5
    <3>4. q[i - Len(p)].of = q[j - Len(p)].of
      BY <3>1, <3>3
    <3> QED BY <1>4, <3>1, <3>2, <3>3 DEF InTheirOrder
  <2> QED BY <1>6, <2>1, <2>2
<1>11. ASSUME NEW e \in Interfaces, e < d \/ e = d
       PROVE  AllOf(r, e)
  <2>1. CASE e < d
    BY <1>3, <1>7, <2>1 DEF AllOf
  <2>2. CASE e = d
    BY <1>4, <1>8, <2>2 DEF AllOf
  <2> QED BY <1>11, <2>1, <2>2
<1>12. \A i \in DOMAIN r : r[i].of < d + 1
  <2> TAKE i \in DOMAIN r
  <2>1. r[i].of \in Interfaces
    BY <1>9 DEF Proper, Silences, Puts
  <2> QED BY <1>2, <1>6, <2>1, PlanningNumbers
<1>13. Listed(steps)' /\ Proper(steps)' /\ InTheirOrder(steps)' /\ ValuesKnown'
  BY <1>1, <1>3, <1>5, <1>9, <1>10, Carried
<1>14. (\A e \in Interfaces : e < planning => AllOf(steps, e))'
  <2>1. \A e \in Interfaces : e < d + 1 => e < d \/ e = d
    BY <1>2, PlanningNumbers
  <2>2. \A e : AllOf(r, e) => AllOf(steps, e)'
    BY <1>1, Carried
  <2>3. \A e \in Interfaces : e < d + 1 => AllOf(steps, e)'
    BY <1>11, <2>1, <2>2
  <2> QED BY <1>1, <2>3 DEF d
<1>15. (\A i \in DOMAIN steps : steps[i].of < planning)'
  BY <1>1, <1>12 DEF d
<1>16. (planning \in 1 .. Done)' /\ ~(planning >= Rendering)' /\ (planning # Rendering)'
  BY <1>1, PlanningNumbers
<1> QED BY <1>13, <1>14, <1>15, <1>16 DEF RecallInv

\* What is taken of a list in an order: places of it, each once.
LEMMA TakenFacts ==
    ASSUME NEW s, NEW is \in SUBSET DOMAIN s, IsFiniteSet(is), NEW R, Orders(R, is)
    PROVE  LET q == Taken(s, is, R)
               o == InOrder(is, R)
               n == Cardinality(is)
           IN  /\ Listed(q) /\ DOMAIN q = 1 .. n /\ n \in Nat
               /\ \A i \in 1 .. n : o[i] \in is /\ q[i] = s[o[i]]
               /\ \A k \in is : \E i \in 1 .. n : o[i] = k
               /\ \A i, j \in 1 .. n : i < j => <<o[i], o[j]>> \in R
<1> DEFINE q == Taken(s, is, R)
           o == InOrder(is, R)
           n == Cardinality(is)
<1>1. /\ n \in Nat /\ DOMAIN o = 1 .. n
      /\ \A i \in 1 .. n : o[i] \in is
      /\ \A k \in is : \E i \in 1 .. n : o[i] = k
      /\ \A i, j \in 1 .. n : i < j => <<o[i], o[j]>> \in R
  BY ListsAll
<1>2. q = [i \in DOMAIN o |-> s[o[i]]]
  BY DEF Taken
<1> HIDE DEF q, o, n
<1>3. q = [i \in 1 .. n |-> s[o[i]]]
  BY <1>1, <1>2
<1>4. Listed(q) /\ DOMAIN q = 1 .. n /\ \A i \in 1 .. n : q[i] = s[o[i]]
  BY <1>1, <1>3 DEF Listed
<1>5. /\ Listed(q) /\ DOMAIN q = 1 .. n /\ n \in Nat
      /\ \A i \in 1 .. n : o[i] \in is /\ q[i] = s[o[i]]
      /\ \A k \in is : \E i \in 1 .. n : o[i] = k
      /\ \A i, j \in 1 .. n : i < j => <<o[i], o[j]>> \in R
  BY <1>1, <1>4
<1> QED BY <1>5 DEF q, o, n

LEMMA StagedOrders ==
    ASSUME NEW s, Listed(s), Proper(s)
    PROVE  Orders(Staged(s), DOMAIN s)
<1> DEFINE Pos(i) == Position(s[i].part)
<1>1. DOMAIN s = 1 .. Len(s) /\ Len(s) \in Nat
  BY LenProperties DEF Listed
<1>2. \A i \in DOMAIN s : Pos(i) \in 1 .. 8 /\ i \in Int
  BY <1>1, ProperParts
<1>3. \A i, j \in DOMAIN s :
         <<i, j>> \in Staged(s) <=> Pos(i) < Pos(j) \/ (Pos(i) = Pos(j) /\ i < j)
  BY DEF Staged
<1> HIDE DEF Pos
<1>4. \A i \in DOMAIN s : <<i, i>> \notin Staged(s)
  BY <1>2, <1>3
<1>5. \A i, j \in DOMAIN s : i # j => <<i, j>> \in Staged(s) \/ <<j, i>> \in Staged(s)
  BY <1>2, <1>3
<1>6. \A i, j, k \in DOMAIN s :
         <<i, j>> \in Staged(s) /\ <<j, k>> \in Staged(s) => <<i, k>> \in Staged(s)
  BY <1>2, <1>3
<1> QED BY <1>4, <1>5, <1>6 DEF Orders

LEMMA StagesKeep == RecallInv /\ BroughtIntoStages => RecallInv'
<1> SUFFICES ASSUME RecallInv, BroughtIntoStages
             PROVE  RecallInv'
  OBVIOUS
<1> DEFINE s == steps
           is == DOMAIN s
           R == Staged(s)
           q == Taken(s, is, R)
           o == InOrder(is, R)
           n == Cardinality(is)
           Pos(i) == Position(s[i].part)
<1>1. /\ planning = Staging /\ planning' = Rendering
      /\ UNCHANGED <<asking, recorded, current>> /\ steps' = q
  BY DEF BroughtIntoStages
<1>2. /\ Listed(s) /\ Proper(s) /\ InTheirOrder(s) /\ ValuesKnown
      /\ \A e \in Interfaces : AllOf(s, e)
  <2>1. planning <= Rendering /\ \A e \in Interfaces : e < planning
    BY <1>1, PlanningNumbers
  <2> QED BY <2>1 DEF RecallInv
<1>3. IsFiniteSet(is) /\ Orders(R, is) /\ is \in SUBSET DOMAIN s /\ \A i \in is : i \in Int
  <2>1. is = 1 .. Len(s) /\ Len(s) \in Nat
    BY <1>2, LenProperties DEF Listed
  <2>2. IsFiniteSet(1 .. Len(s))
    BY <2>1, FS_Interval
  <2> QED BY <1>2, <2>1, <2>2, StagedOrders
<1>4. /\ Listed(q) /\ DOMAIN q = 1 .. n /\ n \in Nat
      /\ \A i \in 1 .. n : o[i] \in is /\ q[i] = s[o[i]]
      /\ \A k \in is : \E i \in 1 .. n : o[i] = k
      /\ \A i, j \in 1 .. n : i < j => <<o[i], o[j]>> \in R
  <2> HIDE DEF s, is, R
  <2> QED BY <1>3, TakenFacts
<1>5. \A i, j \in is : <<i, j>> \in R => Pos(i) < Pos(j) \/ (Pos(i) = Pos(j) /\ i < j)
  BY DEF Staged
<1> HIDE DEF R, q, o, n, s, is, Pos
<1>6. \A i \in is : Pos(i) \in 1 .. 8 /\ s[i].part \in ToSet(PARTS)
  BY <1>2, ProperParts DEF is, Pos
<1>7. Proper(q)
  BY <1>2, <1>4 DEF Proper, is
<1>8. InStages(q)
  <2> SUFFICES ASSUME NEW i \in DOMAIN q, NEW j \in DOMAIN q, i < j
               PROVE  Position(q[i].part) <= Position(q[j].part)
    BY DEF InStages
  <2>1. o[i] \in is /\ o[j] \in is /\ q[i] = s[o[i]] /\ q[j] = s[o[j]] /\ <<o[i], o[j]>> \in R
    BY <1>4
  <2>2. Pos(o[i]) \in 1 .. 8 /\ Pos(o[j]) \in 1 .. 8 /\ Pos(o[i]) <= Pos(o[j])
    BY <1>5, <1>6, <2>1
  <2> QED BY <2>1, <2>2 DEF Pos
<1>9. InTheirOrder(q)
  <2> SUFFICES ASSUME NEW i \in DOMAIN q, NEW j \in DOMAIN q, i < j, q[i].of = q[j].of,
                      q[i].part = q[j].part, q[i].part # "silence"
               PROVE  Before(q[i].of, q[i].target, q[j].target)
    BY DEF InTheirOrder
  <2>1. o[i] \in is /\ o[j] \in is /\ q[i] = s[o[i]] /\ q[j] = s[o[j]] /\ <<o[i], o[j]>> \in R
    BY <1>4
  <2>2. Pos(o[i]) = Pos(o[j])
    BY <2>1 DEF Pos
  <2>3. o[i] < o[j]
    BY <1>5, <1>6, <2>1, <2>2
  <2>4. /\ o[i] \in DOMAIN s /\ o[j] \in DOMAIN s /\ s[o[i]].of = s[o[j]].of
        /\ s[o[i]].part = s[o[j]].part /\ s[o[i]].part # "silence"
    BY <2>1 DEF is
  <2>5. Before(s[o[i]].of, s[o[i]].target, s[o[j]].target)
    BY <1>2, <2>3, <2>4 DEF InTheirOrder
  <2> QED BY <2>1, <2>5
<1>10. \A e \in Interfaces : AllOf(q, e)
  <2> TAKE e \in Interfaces
  <2>1. ASSUME NEW k \in DOMAIN s
        PROVE  \E i \in DOMAIN q : q[i] = s[k]
    <3>1. PICK i \in 1 .. n : o[i] = k
      BY <1>4 DEF is
    <3> QED BY <1>4, <3>1
  <2>2. AllOf(s, e)
    BY <1>2
  <2> QED BY <2>1, <2>2 DEF AllOf
<1>11. Covered(q)
  <2> SUFFICES ASSUME NEW i \in DOMAIN q, q[i].part # "silence", NEW t \in SilencingTargets(q[i].of)
               PROVE  \E m \in DOMAIN q : q[m].of = q[i].of /\ q[m].target = t /\ Silences(q[m])
    BY DEF Covered
  <2>1. Puts(q[i])
    BY <1>7 DEF Proper, Silences
  <2>2. q[i].of \in Interfaces /\ ToBuild(q[i].of) # {}
    BY <2>1 DEF Puts
  <2> QED BY <1>10, <2>2 DEF AllOf
<1>12. /\ Listed(steps)' /\ Proper(steps)' /\ InTheirOrder(steps)' /\ ValuesKnown'
       /\ InStages(steps)' /\ Covered(steps)'
  BY <1>1, <1>2, <1>4, <1>7, <1>8, <1>9, <1>11, Carried
<1>13. (\A e \in Interfaces : AllOf(steps, e))'
  <2>1. \A e : AllOf(q, e) => AllOf(steps, e)'
    BY <1>1, Carried
  <2> QED BY <1>10, <2>1
<1>14. (planning \in 1 .. Done)' /\ ~(planning <= Staging)'
  BY <1>1, PlanningNumbers
<1> QED BY <1>12, <1>13, <1>14 DEF RecallInv

LEMMA RenderKeeps == RecallInv /\ Render => RecallInv'
<1> SUFFICES ASSUME RecallInv, Render
             PROVE  RecallInv'
  OBVIOUS
<1>1. PICK lost \in Unrendered : steps' = Without(steps, lost)
  BY DEF Render
<1> DEFINE s == steps
           is == (DOMAIN s) \ lost
           R == {p \in (DOMAIN s) \X (DOMAIN s) : p[1] < p[2]}
           q == Taken(s, is, R)
           o == InOrder(is, R)
           n == Cardinality(is)
<1>2. /\ planning = Rendering /\ planning' = Done
      /\ UNCHANGED <<asking, recorded, current>> /\ steps' = q
  BY <1>1 DEF Render, Without
<1>3. /\ Listed(s) /\ Proper(s) /\ InTheirOrder(s) /\ InStages(s) /\ Covered(s)
  BY <1>2, PlanningNumbers DEF RecallInv
<1>4. DOMAIN s = 1 .. Len(s) /\ Len(s) \in Nat
  BY <1>3, LenProperties DEF Listed
<1>5. \A i, j \in DOMAIN s : <<i, j>> \in R <=> i < j
  OBVIOUS
<1>6. IsFiniteSet(is) /\ Orders(R, is) /\ is \in SUBSET DOMAIN s
  <2>1. IsFiniteSet(1 .. Len(s))
    BY <1>4, FS_Interval
  <2>2. is \in SUBSET (1 .. Len(s)) /\ is \in SUBSET DOMAIN s
    BY <1>4
  <2> HIDE DEF R, is
  <2>3. IsFiniteSet(is)
    BY <2>1, <2>2, FS_Subset
  <2>4. \A i \in is : i \in DOMAIN s /\ i \in Int
    BY <2>2
  <2>5. Orders(R, is)
    BY <1>5, <2>4 DEF Orders
  <2> QED BY <2>2, <2>3, <2>5
<1>7. /\ Listed(q) /\ DOMAIN q = 1 .. n /\ n \in Nat
      /\ \A i \in 1 .. n : o[i] \in is /\ q[i] = s[o[i]]
      /\ \A k \in is : \E i \in 1 .. n : o[i] = k
      /\ \A i, j \in 1 .. n : i < j => <<o[i], o[j]>> \in R
  <2> HIDE DEF s, is, R
  <2> QED BY <1>6, TakenFacts
<1> HIDE DEF R, q, o, n
<1>8. /\ \A i \in 1 .. n : o[i] \in DOMAIN s /\ o[i] \notin lost
      /\ \A i, j \in 1 .. n : i < j => o[i] < o[j]
  BY <1>5, <1>7
<1> HIDE DEF s
<1>10. Proper(q)
  BY <1>3, <1>7, <1>8 DEF Proper
<1>11. InStages(q)
  BY <1>3, <1>7, <1>8 DEF InStages
<1>12. InTheirOrder(q)
  <2> SUFFICES ASSUME NEW i \in DOMAIN q, NEW j \in DOMAIN q, i < j, q[i].of = q[j].of,
                      q[i].part = q[j].part, q[i].part # "silence"
               PROVE  Before(q[i].of, q[i].target, q[j].target)
    BY DEF InTheirOrder
  <2>1. q[i] = s[o[i]] /\ q[j] = s[o[j]] /\ o[i] \in DOMAIN s /\ o[j] \in DOMAIN s /\ o[i] < o[j]
    BY <1>7, <1>8
  <2> QED BY <1>3, <2>1 DEF InTheirOrder
<1>13. Listed(steps)' /\ Proper(steps)' /\ InTheirOrder(steps)' /\ InStages(steps)'
  BY <1>2, <1>3, <1>7, <1>10, <1>11, <1>12, Carried
<1>14. /\ (planning \in 1 .. Done)' /\ (planning # Rendering)'
       /\ ~(planning <= Rendering)' /\ ~(planning <= Staging)'
  BY <1>2, PlanningNumbers
<1> QED BY <1>13, <1>14 DEF RecallInv

LEMMA RecallStep == RecallInv /\ [RecallNext]_recallVars => RecallInv'
<1> SUFFICES ASSUME RecallInv, [RecallNext]_recallVars
             PROVE  RecallInv'
  OBVIOUS
<1>1. CASE UNCHANGED recallVars
  <2>1. UNCHANGED <<asking, recorded, current>> /\ steps' = steps /\ planning' = planning
    BY <1>1 DEF recallVars
  <2>2. /\ Listed(steps)' /\ Proper(steps)' /\ InTheirOrder(steps)'
        /\ InStages(steps) => InStages(steps)'
        /\ Covered(steps) => Covered(steps)'
        /\ ValuesKnown => ValuesKnown'
        /\ \A d : AllOf(steps, d) => AllOf(steps, d)'
    BY <2>1, Carried DEF RecallInv
  <2> QED BY <2>1, <2>2 DEF RecallInv
<1>2. CASE PlanInterface
  BY <1>2, PlanInterfaceKeeps
<1>3. CASE BroughtIntoStages
  BY <1>3, StagesKeep
<1>4. CASE Render
  BY <1>4, RenderKeeps
<1> QED BY <1>1, <1>2, <1>3, <1>4 DEF RecallNext, RecallDone

\* What was written last to a target says whether it is muted.
LEMMA LastWrite ==
    ASSUME RecallInv, NEW d, NEW t, NEW k, NEW m \in Writes(d, t, k)
    PROVE  \E c \in Writes(d, t, k) : /\ \A j \in Writes(d, t, k) : j <= c
                                      /\ Muted(d, t, k) <=> steps[c].value = 1
<1> DEFINE ws == Writes(d, t, k)
<1>1. DOMAIN steps = 1 .. Len(steps) /\ Len(steps) \in Nat
  BY LenProperties DEF RecallInv, Listed
<1>2. ws \in SUBSET (1 .. Len(steps)) /\ ws # {}
  BY <1>1 DEF Writes, Ready
<1>3. Muted(d, t, k) <=> steps[CHOOSE i \in ws : \A j \in ws : j <= i].value = 1
  BY <1>2 DEF Muted
<1> HIDE DEF ws
<1>4. \E i \in ws : \A j \in ws : j <= i
  BY <1>1, <1>2, LastOne
<1> DEFINE c == CHOOSE i \in ws : \A j \in ws : j <= i
<1>5. c \in ws /\ \A j \in ws : j <= c
  BY <1>4
<1>6. Muted(d, t, k) <=> steps[c].value = 1
  BY <1>3
<1> HIDE DEF c
<1> QED BY <1>5, <1>6 DEF ws

LEMMA ReadyFacts ==
    ASSUME RecallInv, NEW i \in Ready
    PROVE  /\ i \in DOMAIN steps /\ ~steps[i].blocked /\ ~RestoreIncomplete(steps[i].of)
           /\ steps[i].of \in Interfaces /\ ToBuild(steps[i].of) # {}
           /\ Silences(steps[i]) \/ Puts(steps[i])
<1>1. i \in DOMAIN steps /\ ~steps[i].blocked
  BY DEF Ready
<1>2. Silences(steps[i]) \/ Puts(steps[i])
  BY <1>1 DEF RecallInv, Proper
<1> QED BY <1>1, <1>2 DEF Silences, Puts

\* As it is built, a plan has what silences each interface it changes.
LEMMA BuiltSilenced ==
    ASSUME RecallInv, planning = Rendering, NEW i \in Ready, steps[i].part # "silence"
    PROVE  StillSilenced(steps[i].of)
<1> DEFINE d == steps[i].of
<1>1. i \in DOMAIN steps /\ ~RestoreIncomplete(d)
  BY ReadyFacts
<1>2. Covered(steps)
  BY DEF RecallInv
<1> SUFFICES ASSUME NEW t \in SilencingTargets(d)
             PROVE  \E m \in Ready : /\ steps[m].part = "silence" /\ steps[m].of = d
                                    /\ steps[m].target = t
  BY DEF StillSilenced
<1>3. PICK m \in DOMAIN steps : steps[m].of = d /\ steps[m].target = t /\ Silences(steps[m])
  BY <1>1, <1>2 DEF Covered
<1>4. ~steps[m].blocked /\ steps[m].part = "silence"
  BY <1>1, <1>3 DEF Silences
<1> QED BY <1>3, <1>4 DEF Ready

\* An interface is silent up to a command if what is written up to there to what
\* silences it only silences it.
LEMMA SilentUpTo ==
    ASSUME RecallInv, planning \in {Rendering, Done}, NEW d, StillSilenced(d),
           NEW k \in DOMAIN steps, steps[k].part # "silence",
           \A j \in DOMAIN steps :
              j <= k /\ steps[j].of = d /\ steps[j].target \in SilencingTargets(d)
                => steps[j].part = "silence"
    PROVE  Silent(d, k)
<1>1. /\ InStages(steps) /\ Proper(steps)
      /\ DOMAIN steps = 1 .. Len(steps) /\ Len(steps) \in Nat
  <2>1. planning >= Rendering
    BY PlanningNumbers
  <2> QED BY <2>1, LenProperties DEF RecallInv, Listed
<1>3. ASSUME NEW t \in SilencingTargets(d)
      PROVE  Muted(d, t, k)
  <2>1. PICK m \in Ready : steps[m].part = "silence" /\ steps[m].of = d /\ steps[m].target = t
    BY DEF StillSilenced
  <2>2. m \in DOMAIN steps /\ ~steps[m].blocked
    BY DEF Ready
  <2>3. m <= k
    <3>1. Position(steps[m].part) = 1
      BY <2>1, Positions
    <3>2. steps[k].part \in ToSet(PARTS) /\ steps[m].part \in ToSet(PARTS)
      BY <1>1, <2>2, ProperParts
    <3>3. Position(steps[k].part) \in 1 .. 8 /\ Position(steps[k].part) # 1
      BY <2>1, <3>1, <3>2, Positions
    <3>4. ~(k < m)
      BY <1>1, <2>2, <3>1, <3>3 DEF InStages
    <3> QED BY <1>1, <2>2, <3>4
  <2>4. m \in Writes(d, t, k)
    BY <2>1, <2>2, <2>3 DEF Writes, Ready
  <2>5. PICK c \in Writes(d, t, k) : Muted(d, t, k) <=> steps[c].value = 1
    BY <2>4, LastWrite
  <2>6. c \in DOMAIN steps /\ c <= k /\ steps[c].of = d /\ steps[c].target = t
    BY <2>5 DEF Writes, Ready
  <2>7. steps[c].part = "silence"
    BY <1>3, <2>6
  <2>8. Silences(steps[c])
    <3>1. ~Puts(steps[c])
      BY <2>7, PutsFacts
    <3> QED BY <1>1, <2>6, <3>1 DEF Proper
  <2> QED BY <2>5, <2>8 DEF Silences
<1>4. CASE d \in Quadros
  <2>1. Muted(d, Hard, k)
    BY <1>3, <1>4 DEF SilencingTargets
  <2> QED BY <1>4, <2>1 DEF Silent
<1>5. CASE d \notin Quadros
  <2>1. \A t \in Mutes : Muted(d, t, k)
    BY <1>3, <1>5 DEF SilencingTargets
  <2> QED BY <2>1 DEF Silent
<1> QED BY <1>4, <1>5

\* A command for what silences an interface, other than silencing it, restores.
LEMMA RestoringSteps ==
    ASSUME RecallInv, NEW j \in DOMAIN steps, steps[j].target \in RestoreTargets(steps[j].of),
           steps[j].part # "silence"
    PROVE  /\ Puts(steps[j]) /\ steps[j].part = "restore" /\ Position(steps[j].part) = 8
<1>1. Puts(steps[j])
  BY DEF RecallInv, Proper, Silences
<1>2. steps[j].target \in Targets(steps[j].of) /\ steps[j].target.kind \in {"mute", "hard"}
  BY BuiltTargets
<1>3. steps[j].part = "restore"
  BY <1>1, <1>2, PlaceFacts DEF Puts
<1> QED BY <1>1, <1>3, Positions

LEMMA QuietHolds == RecallInv => QuietThroughout
<1> SUFFICES ASSUME RecallInv, planning \in {Rendering, Done}
             PROVE  /\ \A k, i \in Changes :
                          planning = Rendering \/ StillSilenced(steps[i].of)
                            => Silent(steps[i].of, k)
                    /\ \A k \in Ready :
                          /\ steps[k].target.kind = "dim"
                          /\ planning = Rendering \/ StillSilenced(steps[k].of)
                          => Silent(steps[k].of, k)
  BY DEF QuietThroughout
<1>1. /\ InStages(steps) /\ InTheirOrder(steps) /\ Proper(steps)
      /\ DOMAIN steps = 1 .. Len(steps) /\ Len(steps) \in Nat
  <2>1. planning >= Rendering
    BY PlanningNumbers
  <2> QED BY <2>1, LenProperties DEF RecallInv, Listed
<1>2. ASSUME NEW k \in Changes, NEW i \in Changes,
             planning = Rendering \/ StillSilenced(steps[i].of)
      PROVE  Silent(steps[i].of, k)
  <2>1. /\ k \in DOMAIN steps /\ steps[k].part # "silence" /\ steps[k].part # "restore"
        /\ i \in Ready /\ steps[i].part # "silence"
    BY DEF Changes, Ready
  <2>2. ASSUME NEW j \in DOMAIN steps, j <= k, steps[j].of = steps[i].of,
               steps[j].target \in SilencingTargets(steps[i].of), steps[j].part # "silence"
        PROVE  FALSE
    <3>1. steps[j].part = "restore" /\ Position(steps[j].part) = 8
      BY <2>2, BuiltTargets, RestoringSteps
    <3>2. j < k
      BY <1>1, <2>1, <2>2, <3>1
    <3>3. steps[k].part \in ToSet(PARTS) /\ steps[j].part \in ToSet(PARTS)
      BY <1>1, <2>1, ProperParts
    <3>4. Position(steps[k].part) \in 1 .. 8 /\ Position(steps[k].part) # 8
      BY <2>1, <3>1, <3>3, Positions
    <3>5. Position(steps[j].part) <= Position(steps[k].part)
      BY <1>1, <2>1, <3>2 DEF InStages
    <3> QED BY <3>1, <3>4, <3>5
  <2>3. StillSilenced(steps[i].of)
    BY <1>2, <2>1, BuiltSilenced
  <2> QED BY <2>1, <2>2, <2>3, SilentUpTo
<1>3. ASSUME NEW k \in Ready, steps[k].target.kind = "dim",
             planning = Rendering \/ StillSilenced(steps[k].of)
      PROVE  Silent(steps[k].of, k)
  <2> DEFINE d == steps[k].of
             t == steps[k].target
  <2>1. k \in DOMAIN steps /\ (Silences(steps[k]) \/ Puts(steps[k]))
    BY ReadyFacts
  <2>2. Puts(steps[k])
    <3>1. ~Silences(steps[k])
      BY <1>3, BuiltTargets DEF Silences
    <3> QED BY <2>1, <3>1
  <2>3. t \in Targets(d) /\ steps[k].part = PartOf(t) /\ steps[k].part # "silence"
    BY <2>2, PutsFacts DEF Puts
  <2>4. d \in Quadros /\ PartOf(t) = "restore"
    BY <1>3, <2>3, TargetFacts, PlaceFacts
  <2>5. ASSUME NEW j \in DOMAIN steps, j <= k, steps[j].of = d,
               steps[j].target \in SilencingTargets(d), steps[j].part # "silence"
        PROVE  FALSE
    <3>1. steps[j].part = "restore"
      BY <2>5, BuiltTargets, RestoringSteps
    <3>2. steps[j].target = Hard
      BY <2>4, <2>5 DEF SilencingTargets
    <3>3. j < k
      <4>1. j # k
        BY <1>3, <3>2 DEF Hard, Of
      <4> QED BY <1>1, <2>1, <2>5, <4>1
    <3>4. Before(d, Hard, t)
      BY <1>1, <2>1, <2>3, <2>4, <2>5, <3>1, <3>2, <3>3 DEF InTheirOrder
    <3>5. Hard \in Targets(d) /\ PartOf(Hard) = "restore"
      BY <2>4 DEF Targets, PartOf, Hard, Of
    <3>6. Within(Hard) = 9 /\ Within(t) = 3 /\ StageOf(PartOf(Hard)) = StageOf(PartOf(t))
      BY <1>3, <2>4, <3>5 DEF Within, Hard, Of
    <3>7. Louds(d, Hard) = 0 /\ Louds(d, t) = 0 /\ StageOf(PartOf(t)) \in Nat
      <4>1. Hard.kind # "strip" /\ t.kind # "strip"
        BY <1>3 DEF Hard, Of
      <4> QED BY <2>3, <3>5, <4>1, PlaceFacts
    <3> HIDE DEF t, d
    <3> QED BY <2>3, <3>4, <3>5, <3>6, <3>7, BeforeIs
  <2>6. StillSilenced(d)
    BY <1>3, <2>3, BuiltSilenced
  <2> QED BY <2>1, <2>3, <2>5, <2>6, SilentUpTo
<1> QED BY <1>2, <1>3

LEMMA ComesBackHolds == RecallInv => SilencedComesBack
<1> SUFFICES ASSUME RecallInv, planning = Rendering, "restore" \in asking.parts,
                    NEW i \in Ready, NEW t \in RestoreTargets(steps[i].of)
             PROVE  Muted(steps[i].of, t, Len(steps))
                      <=> recorded[steps[i].of][[of |-> t, field |-> "value"]] = 1
  BY DEF SilencedComesBack
<1> DEFINE d == steps[i].of
<1>1. /\ InStages(steps) /\ Proper(steps) /\ \A e \in Interfaces : AllOf(steps, e)
      /\ DOMAIN steps = 1 .. Len(steps) /\ Len(steps) \in Nat
  <2>1. planning >= Rendering /\ planning <= Rendering /\ \A e \in Interfaces : e < planning
    BY PlanningNumbers
  <2> QED BY <2>1, LenProperties DEF RecallInv, Listed
<1>2. /\ ~RestoreIncomplete(d) /\ d \in Interfaces /\ ToBuild(d) # {}
  BY ReadyFacts
<1> HIDE DEF d
<1>3. t \in RestoreTargets(d)
  BY DEF d
<1>4. t \in ToBuild(d) /\ t \in Targets(d) /\ t.kind \in {"mute", "hard"}
  BY <1>2, <1>3, BuiltTargets
<1>5. Buildable(d, t)
  BY <1>2, <1>3, <1>4 DEF RestoreIncomplete
<1>6. PICK m \in DOMAIN steps : steps[m].of = d /\ steps[m].target = t /\ Puts(steps[m])
  BY <1>1, <1>2, <1>4, <1>5 DEF AllOf
<1>7. PartOf(t) = "restore" /\ Position("restore") = 8
  BY <1>4, PlaceFacts, Positions
<1>8. ~HeldBack(d, t)
  BY <1>4, <1>7 DEF HeldBack, Raises, NeedsConfirming
<1>9. ~steps[m].blocked /\ steps[m].part = "restore"
  BY <1>2, <1>6, <1>7, <1>8 DEF Puts
<1>10. m \in Writes(d, t, Len(steps))
  BY <1>1, <1>6, <1>9 DEF Writes, Ready
<1>11. PICK c \in Writes(d, t, Len(steps)) :
          /\ \A j \in Writes(d, t, Len(steps)) : j <= c
          /\ Muted(d, t, Len(steps)) <=> steps[c].value = 1
  BY <1>10, LastWrite
<1>12. c \in DOMAIN steps /\ steps[c].of = d /\ steps[c].target = t /\ m <= c
  BY <1>10, <1>11 DEF Writes, Ready
<1>13. Puts(steps[c])
  <2> SUFFICES ASSUME Silences(steps[c])
               PROVE  FALSE
    BY <1>1, <1>12 DEF Proper
  <2>1. steps[c].part = "silence" /\ Position(steps[c].part) = 1
    BY Positions DEF Silences
  <2>2. m < c
    BY <1>1, <1>9, <1>12, <2>1
  <2>3. Position(steps[m].part) <= Position(steps[c].part)
    BY <1>1, <1>12, <2>2 DEF InStages
  <2> QED BY <1>7, <1>9, <2>1, <2>3
<1>14. steps[c].value = recorded[d][Telling(d, t)]
  BY <1>12, <1>13 DEF Puts
<1>15. Telling(d, t) = [of |-> t, field |-> "value"]
  BY <1>4 DEF Telling
<1> QED BY <1>11, <1>14, <1>15 DEF d

LEMMA QuieterHolds == RecallInv => QuieterFirst
<1> SUFFICES ASSUME RecallInv, planning = Rendering, NEW i \in Ready, NEW j \in Ready,
                    steps[i].of = steps[j].of, LevelMoves(i, "up"), LevelMoves(j, "down")
             PROVE  j < i
  BY DEF QuieterFirst
<1> DEFINE d == steps[i].of
           t == steps[i].target
           u == steps[j].target
           a == [of |-> t, field |-> "level"]
           b == [of |-> u, field |-> "level"]
<1>1. /\ InTheirOrder(steps) /\ ValuesKnown
      /\ DOMAIN steps = 1 .. Len(steps) /\ Len(steps) \in Nat
  <2>1. planning <= Rendering
    BY PlanningNumbers
  <2> QED BY <2>1, LenProperties DEF RecallInv, Listed
<1>2. /\ steps[i].part = "mixer" /\ current[d][a] # None /\ recorded[d][a] < current[d][a]
      /\ steps[j].part = "mixer" /\ current[d][b] # None /\ recorded[d][b] > current[d][b]
  BY DEF LevelMoves
<1>3. /\ i \in DOMAIN steps /\ j \in DOMAIN steps /\ d \in Interfaces
      /\ Puts(steps[i]) /\ Puts(steps[j])
  BY <1>2, ReadyFacts DEF Silences
<1>4. /\ t \in Targets(d) /\ u \in Targets(d) /\ Buildable(d, t) /\ Buildable(d, u)
      /\ PartOf(t) = "mixer" /\ PartOf(u) = "mixer"
  BY <1>2, <1>3, PutsFacts DEF Puts
<1>5. t.kind = "strip" /\ u.kind = "strip"
  BY <1>4, PlaceFacts
<1>6. recorded[d][a] # None /\ recorded[d][b] # None
  BY <1>4, <1>5 DEF Buildable, Fields
<1>7. /\ recorded[d][a] \in Int /\ current[d][a] \in Int
      /\ recorded[d][b] \in Int /\ current[d][b] \in Int
  <2>1. a \in Values(d) /\ b \in Values(d)
    BY <1>4, <1>5 DEF Values, Fields
  <2> QED BY <1>1, <1>3, <2>1 DEF ValuesKnown
<1>8. Telling(d, t) = a /\ Telling(d, u) = b
  <2>1. Recallable(d, a) /\ Recallable(d, b)
    BY <1>2, <1>6, <1>7 DEF Recallable, Differs
  <2> QED BY <1>5, <2>1 DEF Telling
<1>9. Louds(d, t) = 1 /\ Louds(d, u) = 0
  BY <1>2, <1>5, <1>7, <1>8 DEF Louds, Louder
<1>10. i # j
  BY <1>2, <1>7
<1>11. ~Before(d, t, u)
  <2> HIDE DEF d, t, u
  <2> QED BY <1>4, <1>9, BeforeIs, PlaceFacts
<1>12. ~(i < j)
  BY <1>1, <1>2, <1>3, <1>11 DEF InTheirOrder
<1> QED BY <1>1, <1>3, <1>10, <1>12

\* A recall that has not begun, in a server where another part moves.
LEMMA NoRecall == planning = Done /\ steps = <<>> => RecallInv
<1> SUFFICES ASSUME planning = Done, steps = <<>>
             PROVE  RecallInv
  OBVIOUS
<1>1. /\ planning \in 1 .. Done /\ planning # Rendering
      /\ ~(planning <= Rendering) /\ ~(planning <= Staging)
  BY PlanningNumbers
<1> QED BY <1>1, NothingPlanned DEF RecallInv

LEMMA RecallInvImplies == RecallInv => RecallIsSafe
BY QuietHolds, ComesBackHolds, QuieterHolds DEF RecallIsSafe

-----------------------------------------------------------------------------
(* What else the parts keep in its range.                                  *)

HIDE RecallAssumption

USE ManagerAssumption

\* What the scanner, the bus and quitting keep.
ScanTypes ==
    /\ plugged \subseteq Devices /\ attached \subseteq Devices /\ present \subseteq Devices
    /\ told \subseteq Devices /\ troubles \in 0 .. Troubles /\ connected \in Seq(BOOLEAN)
    /\ scanner \in {"idle", "listed", "opening", "stopped"}
    /\ main \in {"running", "stopping", "closing", "off"}

LEMMA ScanTypesStart == ManagerInit => ScanTypes
  BY DEF ManagerInit, ScanTypes

LEMMA ScanTypesKept ==
    ASSUME TableTypes, ScanTypes, [ManagerNext]_managerVars
    PROVE  ScanTypes'
<1> USE DEF ScanTypes, busVars, tableVars, eventVars, workerVars, scanVars, clientVars
<1>1. ASSUME NEW d \in Devices, Plug(d) PROVE ScanTypes'
  BY <1>1 DEF Plug
<1>2. ASSUME NEW d \in Devices, NEW out \in BOOLEAN, Disturb(d, out) PROVE ScanTypes'
  <2>1. connected' \in Seq(BOOLEAN)
    <3>1. Workers = 1 .. Len(thread) /\ Len(thread) \in Nat
      BY WorkerTypes
    <3>2. \A w \in 1 .. Len(thread) : (connected[w] /\ deviceOf[w] # d) \in BOOLEAN
      OBVIOUS
    <3>3. connected' = [w \in 1 .. Len(thread) |-> connected[w] /\ deviceOf[w] # d]
      BY <1>2, <3>1 DEF Disturb
    <3> QED BY <3>1, <3>2, <3>3, IsASeq
  <2>2. plugged' \subseteq Devices /\ troubles' \in 0 .. Troubles
    BY <1>2 DEF Disturb
  <2> QED BY <1>2, <2>1, <2>2 DEF Disturb
<1>3. CASE Scan
  <2>1. CASE List
    BY <2>1 DEF List, StillThere
  <2>2. ASSUME NEW d \in Devices, DetachUnlisted(d) PROVE ScanTypes'
    BY <2>2 DEF DetachUnlisted
  <2>3. ASSUME NEW d \in Devices, Open(d) PROVE ScanTypes'
    <3>1. connected' = Append(connected, TRUE) /\ told' = told \cup {d} /\ attached' = attached \cup {d}
      BY <2>3 DEF Open, Attach
    <3>2. connected' \in Seq(BOOLEAN)
      BY <3>1
    <3> QED BY <2>3, <3>1, <3>2 DEF Open
  <2>4. ASSUME NEW d \in Devices, OpenFails(d) PROVE ScanTypes'
    BY <2>4 DEF OpenFails
  <2>5. CASE DetachesDone \/ ScanEnds
    BY <2>5 DEF DetachesDone, ScanEnds
  <2> QED BY <1>3, <2>1, <2>2, <2>3, <2>4, <2>5 DEF Scan
<1>4. CASE ListFails \/ DetachEnds \/ Quit \/ Off
  BY <1>4 DEF ListFails, DetachEnds, Quit, Off, managerVars
<1>5. ASSUME NEW w \in Workers, Work(w) \/ Report(w) PROVE ScanTypes'
  BY <1>5 DEF Work, Report, Serve, Shutdown, DeviceGone, RemoveGone, ForgetGone, TellGone
<1>6. ASSUME NEW r \in Requests, SendRequest(r) \/ \E d \in Devices : LookUp(r, d) PROVE ScanTypes'
  BY <1>6 DEF SendRequest, LookUp
<1>7. CASE Quitting
  <2>1. CASE ScannerStopped
    BY <2>1 DEF ScannerStopped, InTable
  <2>2. ASSUME NEW d \in Devices, DetachOne(d) PROVE ScanTypes'
    BY <2>2 DEF DetachOne
  <2>3. CASE ShutDown
    BY <2>3 DEF ShutDown
  <2> QED BY <1>7, <2>1, <2>2, <2>3 DEF Quitting
<1>8. CASE UNCHANGED managerVars
  BY <1>8 DEF managerVars
<1> QED BY <1>1, <1>2, <1>3, <1>4, <1>5, <1>6, <1>7, <1>8 DEF ManagerNext

LEMMA ManagerTyped == TableTypes /\ ScanTypes => ManagerTypeOK
  BY DEF TableTypes, ScanTypes, ManagerTypeOK, WorkerPlaces, RequestPlaces

HIDE ManagerAssumption

\* A row of things that are each one of T.
LEMMA RowOf ==
    ASSUME NEW S, NEW T, NEW s \in Seq(S), \A i \in 1 .. Len(s) : s[i] \in T
    PROVE  s \in Seq(T)
  BY LenProperties, SeqDef

USE RequestsAssumption

\* How many there may be, and what was given to what.
WireTypes ==
    /\ alive \in BOOLEAN /\ Len(arrived) <= MaxReports /\ Len(asked) <= MaxRequests
    /\ \A m \in 1 .. Len(asked) : asked[m].seen <= MaxReports
    /\ pending \in 0 .. Len(asked)

LEMMA WireTypesStart == RequestsInit => WireTypes
  BY DEF RequestsInit, WireTypes

LEMMA WireTypesKept ==
    ASSUME RequestInv, WireTypes, [RequestsNext]_requestVars
    PROVE  WireTypes'
<1>1. /\ Len(arrived) \in Nat /\ Len(asked) \in Nat /\ arrived \in Seq(ReportsSeen)
      /\ asked \in Seq(AsksSeen)
  BY DEF RequestInv, RequestTypes
<1> USE DEF WireTypes, wireVars, replyVars
<1>2. ASSUME NEW r, Arrives(r), UNCHANGED alive PROVE WireTypes'
  <2>1. arrived' = Append(arrived, r) /\ Len(arrived) < MaxReports /\ UNCHANGED <<asked, pending>>
    BY <1>2 DEF Arrives
  <2>2. Len(arrived') = Len(arrived) + 1
    BY <1>1, <2>1
  <2> QED BY <1>1, <1>2, <2>1, <2>2
<1>3. CASE \E kind \in {"reply", "ack", "refusal"} : Replies(kind)
  <2>1. UNCHANGED alive /\ \E r : Arrives(r)
    BY <1>3 DEF Replies, Arrives
  <2> QED BY <2>1, <1>2
<1>4. CASE \E x \in Selectors : SendsCyclic(x)
  <2>1. UNCHANGED alive /\ \E r : Arrives(r)
    BY <1>4 DEF SendsCyclic, Arrives
  <2> QED BY <2>1, <1>2
<1>5. CASE NeverReplies \/ Unplugged
  BY <1>5 DEF NeverReplies, Unplugged
<1>6. CASE DrainEvents
  BY <1>6 DEF DrainEvents
<1>7. CASE TakeRequest
  <2>1. PICK c \in Cmds, x \in Selectors, rs \in BOOLEAN :
           asked' = Append(asked, [cmd |-> c, ext2 |-> x, returns |-> rs, seen |-> Len(arrived)])
    BY <1>7 DEF TakeRequest
  <2> DEFINE q == [cmd |-> c, ext2 |-> x, returns |-> rs, seen |-> Len(arrived)]
  <2>2. q.seen = Len(arrived) /\ asked' = Append(asked, q)
    BY <2>1
  <2> HIDE DEF q
  <2>3. /\ Len(asked') = Len(asked) + 1 /\ asked'[Len(asked) + 1] = q
        /\ \A m \in 1 .. Len(asked) : asked'[m] = asked[m]
    BY <1>1, <2>2
  <2>4. Len(asked) < MaxRequests /\ UNCHANGED <<alive, arrived, pending>>
    BY <1>7 DEF TakeRequest
  <2>5. \A m \in 1 .. Len(asked') : m \in 1 .. Len(asked) \/ m = Len(asked) + 1
    BY <1>1, <2>3
  <2>6. \A m \in 1 .. Len(asked') : asked'[m].seen <= MaxReports
    BY <2>2, <2>3, <2>5
  <2> QED BY <1>1, <2>3, <2>4, <2>6
<1>8. CASE SendReport
  BY <1>1, <1>8 DEF SendReport
<1>9. CASE Pump \/ Timeout \/ FoundGone
  BY <1>1, <1>9 DEF Pump, Timeout, FoundGone
<1>10. CASE UNCHANGED requestVars
  BY <1>10 DEF requestVars
<1> QED BY <1>3, <1>4, <1>5, <1>6, <1>7, <1>8, <1>9, <1>10 DEF RequestsNext, ServeRequest, RequestsEnd

LEMMA RequestsTyped == RequestInv /\ WireTypes => RequestsTypeOK
<1> SUFFICES ASSUME RequestInv, WireTypes
             PROVE  RequestsTypeOK
  OBVIOUS
<1> USE DEF WireTypes
<1>1. /\ Len(arrived) \in Nat /\ Len(asked) \in Nat /\ Len(owed) \in Nat
      /\ \A i \in 1 .. Len(arrived) : arrived[i] \in ReportsSeen
      /\ \A m \in 1 .. Len(asked) : asked[m] \in AsksSeen /\ answer[m] \in Nat
                                      /\ (answer[m] # 0 => answer[m] \in 1 .. Len(arrived))
      /\ published \subseteq 1 .. read
  BY RequestFacts
<1>2. /\ arrived \in Seq(ReportsSeen) /\ owed \in Seq(Nat) /\ asked \in Seq(AsksSeen)
      /\ outcome \in Seq(Outcomes) /\ answer \in Seq(Nat) /\ Len(answer) = Len(asked)
      /\ Len(outcome) = Len(asked) /\ read \in 0 .. Len(arrived)
      /\ worker \in {"idle", "drained", "waiting", "ended"}
  BY DEF RequestInv, RequestTypes
<1>3. owed \in Seq(1 .. MaxRequests)
  <2>1. \A k \in 1 .. Len(owed) : owed[k] \in 1 .. MaxRequests
    BY <1>1 DEF RequestInv, WireInv, HasGone
  <2> QED BY <1>1, <1>2, <2>1, RowOf
<1>4. arrived \in Seq(Reports)
  <2>1. \A i \in 1 .. Len(arrived) : arrived[i].of \in 0 .. MaxRequests
    BY <1>1 DEF RequestInv, WireInv, HasGone
  <2>2. \A r \in ReportsSeen : r.of \in 0 .. MaxRequests => r \in Reports
    BY DEF ReportsSeen, Reports
  <2>3. \A i \in 1 .. Len(arrived) : arrived[i] \in Reports
    BY <1>1, <2>1, <2>2
  <2> QED BY <1>1, <1>2, <2>3, RowOf
<1>5. asked \in Seq(Asks)
  <2>1. \A q \in AsksSeen : q.seen <= MaxReports => q \in Asks
    BY DEF AsksSeen, Asks
  <2>2. \A m \in 1 .. Len(asked) : asked[m] \in Asks
    BY <1>1, <2>1
  <2> QED BY <1>1, <1>2, <2>2, RowOf
<1>6. answer \in Seq(0 .. Len(arrived))
  <2>1. \A m \in 1 .. Len(answer) : answer[m] \in 0 .. Len(arrived)
    BY <1>1, <1>2
  <2> QED BY <1>1, <1>2, <2>1, RowOf
<1> QED BY <1>1, <1>2, <1>3, <1>4, <1>5, <1>6 DEF RequestsTypeOK, Outcomes

HIDE RequestsAssumption
USE ReassemblyAssumption

SegmentTypes ==
    /\ Len(sent) <= Messages /\ inProgress \in BOOLEAN /\ total \in Lengths \cup {0}
    /\ inProgress => Len(buf) < total

LEMMA SegmentTypesStart == SegmentsInit => SegmentTypes
<1> SUFFICES ASSUME SegmentsInit
             PROVE  SegmentTypes
  OBVIOUS
<1>1. sent = <<>> /\ inProgress = FALSE /\ total = 0
  BY DEF SegmentsInit
<1>2. Len(sent) = 0 /\ inProgress \in BOOLEAN
  BY <1>1
<1> QED BY <1>1, <1>2 DEF SegmentTypes

LEMMA SegmentTypesKept ==
    ASSUME PacketInv, SegmentTypes, [SegmentsNext]_segmentVars
    PROVE  SegmentTypes'
<1>1. /\ Len(sent) \in Nat /\ Len(buf) \in Nat /\ sent \in Seq(Lengths) /\ buf \in Seq(Pieces)
      /\ (sent # <<>> => Len(sent) \in 1 .. Len(sent) /\ sent[Len(sent)] \in Lengths)
      /\ sending \in Nat
  BY PacketFacts, ElementOfSeq
<1> USE DEF SegmentTypes, senderVars, receiverVars
<1>2. CASE BeginMessage
  <2>1. PICK n \in Lengths : sent' = Append(sent, n)
    BY <1>2 DEF BeginMessage
  <2>2. Len(sent') = Len(sent) + 1
    BY <1>1, <2>1
  <2> QED BY <1>1, <1>2, <2>2 DEF BeginMessage
<1>3. CASE Drop \/ AllSent
  BY <1>3 DEF Drop, AllSent, segmentVars
<1>4. CASE Malformed
  BY <1>4 DEF Malformed
<1>5. CASE Receive
  <2> DEFINE n == sent[Len(sent)]
  <2>1. sent # <<>> /\ Last(sent) = n /\ n \in Lengths
    BY <1>1, <1>5 DEF Receive, Last
  <2>3. Push(NextSegment, n) /\ UNCHANGED sent
    BY <1>5, <2>1 DEF Receive
  <2> HIDE DEF n
  <2>7. n \in Nat /\ n > 0
    BY <2>1
  <2>8. NextSegment \in Pieces
    BY <1>1 DEF NextSegment, Pieces
  <2>2. n \in Nat /\ n > 0 /\ NextSegment \in Pieces /\ (n > 1) \in BOOLEAN
    BY <2>7, <2>8
  <2>4. ASSUME NEW b \in Seq(Pieces), Extend(b, NextSegment, n)
        PROVE  Len(buf') < n
    <3>1. Append(b, NextSegment) \in Seq(Pieces)
      BY <2>2
    <3>2. Len(Append(b, NextSegment)) \in Nat /\ Len(<<>>) = 0
      BY <3>1, LenProperties
    <3> QED BY <2>2, <2>4, <3>2 DEF Extend
  <2>5. SoFar(n) \in Seq(Pieces) /\ <<>> \in Seq(Pieces)
    BY <1>1 DEF SoFar
  <2>6. \/ Len(buf') < n /\ total' = n /\ inProgress' \in BOOLEAN
        \/ inProgress' = FALSE /\ total' = 0
    <3>1. CASE Extend(SoFar(n), NextSegment, n) /\ total' = n /\ inProgress' = (inProgress \/ n > 1)
      BY <2>4, <2>5, <3>1
    <3>2. CASE Extend(<<>>, NextSegment, n) /\ total' = n /\ inProgress' = (n > 1)
      BY <2>2, <2>4, <2>5, <3>2, Zenon
    <3> QED BY <2>3, <3>1, <3>2 DEF Push
  <2> QED BY <2>1, <2>3, <2>6
<1> QED BY <1>1, <1>2, <1>3, <1>4, <1>5 DEF SegmentsNext, segmentVars
LEMMA SegmentsTyped == PacketInv /\ SegmentTypes => SegmentsTypeOK
<1> SUFFICES ASSUME PacketInv, SegmentTypes
             PROVE  SegmentsTypeOK
  OBVIOUS
<1>1. /\ Len(sent) \in Nat /\ sending \in Nat /\ Len(buf) \in Nat /\ Len(delivered) \in Nat
      /\ sent \in Seq(Lengths) /\ buf \in Seq(Pieces) /\ delivered \in Seq(Seq(Pieces))
      /\ \A k \in 1 .. Len(delivered) : delivered[k] \in Seq(Pieces)
      /\ sent # <<>> => sending <= sent[Len(sent)]
  BY PacketFacts
<1>2. ASSUME NEW d \in Seq(Pieces), PiecesInOrder(d, Len(sent), dropped)
      PROVE  d \in Seq(Segments)
  <2>1. \A i \in 1 .. Len(d) : d[i] \in Pieces /\ d[i].message \in 1 .. Len(sent)
    BY <1>2, ElementOfSeq DEF PiecesInOrder
  <2>2. \A p \in Pieces : p.message \in 1 .. Len(sent) => p \in Segments
    BY <1>1 DEF Pieces, Segments, SegmentTypes
  <2> QED BY <2>1, <2>2, RowOf
<1>3. buf \in Seq(Segments)
  <2>1. CASE buf = <<>>
    BY <2>1
  <2>2. CASE buf # <<>>
    BY <1>1, <1>2, <2>2 DEF PacketInv, BufInv
  <2> QED BY <2>1, <2>2
<1>4. delivered \in Seq(Seq(Segments))
  <2>1. \A k \in 1 .. Len(delivered) : delivered[k] \in Seq(Segments)
    BY <1>1, <1>2 DEF PacketInv, EndInv
  <2> QED BY <1>1, <2>1, RowOf
<1>5. sent # <<>> => Last(sent) = sent[Len(sent)]
  BY <1>1 DEF Last
<1> QED BY <1>1, <1>3, <1>4, <1>5 DEF SegmentTypes, SegmentsTypeOK

HIDE ReassemblyAssumption
USE CallsAssumption

LinkTypes ==
    /\ start \in {"waiting", "resolved", "rejected"}
    /\ retry \in BOOLEAN /\ phone \in BOOLEAN /\ unpaired \in BOOLEAN /\ strayOpen \in BOOLEAN
    /\ unanswered \subseteq 1 .. Len(framed)

LEMMA LinkTypesStart == ClientInit => LinkTypes
  BY DEF ClientInit, LinkTypes

LEMMA LinkTypesKept ==
    ASSUME CallInv, LinkTypes, [ClientNext]_connectionVars
    PROVE  LinkTypes'
<1>1. Len(framed) \in Nat /\ framed \in Seq(Nat) /\ DOMAIN framed = 1 .. Len(framed) /\ Len(keyOf) \in Nat
  BY CallFacts
<1> USE DEF LinkTypes, linkVars, callingVars
<1>2. \A c \in Nat : Len(Append(framed, c)) = Len(framed) + 1
  BY <1>1
<1>3. ASSUME UNCHANGED <<start, retry, phone, unpaired, strayOpen>>,
             \/ framed' = framed /\ unanswered' \subseteq unanswered
             \/ \E c : framed' = Append(framed, c) /\ unanswered' \subseteq unanswered \cup {Len(framed) + 1}
      PROVE  LinkTypes'
  <2>1. CASE framed' = framed /\ unanswered' \subseteq unanswered
    BY <1>3, <2>1
  <2>2. CASE \E c : framed' = Append(framed, c) /\ unanswered' \subseteq unanswered \cup {Len(framed) + 1}
    <3>1. PICK c : framed' = Append(framed, c) /\ unanswered' \subseteq unanswered \cup {Len(framed) + 1}
      BY <2>2
    <3>2. Len(framed') = Len(framed) + 1
      BY <1>1, <3>1
    <3>3. unanswered' \subseteq 1 .. Len(framed) + 1
      BY <1>1, <3>1
    <3> QED BY <1>3, <3>2, <3>3
  <2> QED BY <1>3, <2>1, <2>2
<1>4. ASSUME NEW k, InvokeRefused(k) \/ InvokeWaits(k) \/ InvokeSends(k) \/ InvokeCannotSend(k)
      PROVE  LinkTypes'
  <2>1. CASE InvokeRefused(k) \/ InvokeWaits(k)
    BY <1>3, <2>1 DEF InvokeRefused, InvokeWaits, Call
  <2>2. CASE InvokeSends(k)
    BY <1>3, <2>2 DEF InvokeSends, Call, FrameId
  <2>3. CASE InvokeCannotSend(k)
    BY <1>3, <2>3 DEF InvokeCannotSend
  <2> QED BY <1>4, <2>1, <2>2, <2>3
<1>5. ASSUME NEW i, Answer(i) \/ LateAnswer(i) \/ CallTimesOut(i) PROVE LinkTypes'
  <2>1. ASSUME NEW how, NEW left, left \subseteq unanswered, SettleCall(i, how, left) PROVE LinkTypes'
    <3>1. \/ framed' = framed /\ unanswered' = left
          \/ \E c : framed' = Append(framed, c) /\ unanswered' = left \cup {Len(framed) + 1}
      BY <2>1 DEF SettleCall, FrameId
    <3>2. UNCHANGED <<start, retry, phone, unpaired, strayOpen>>
      BY <2>1 DEF SettleCall
    <3> QED BY <1>3, <2>1, <3>1, <3>2
  <2>2. CASE Answer(i)
    BY <2>1, <2>2 DEF Answer
  <2>3. CASE LateAnswer(i)
    BY <1>3, <2>3 DEF LateAnswer
  <2>4. CASE CallTimesOut(i)
    BY <2>1, <2>4 DEF CallTimesOut
  <2> QED BY <1>5, <2>2, <2>3, <2>4
<1>6. CASE Hello \/ DialFails \/ RetryFires
  BY <1>6 DEF Hello, DialFails, RetryFires
<1>7. CASE HelloWhileClosing \/ Lost \/ StopUnpaired \/ CloseClient
  BY <1>7 DEF HelloWhileClosing, Lost, StopUnpaired, CloseClient, Ended, FailAll
<1>8. CASE UNCHANGED connectionVars
  BY <1>8 DEF connectionVars
<1> QED BY <1>4, <1>5, <1>6, <1>7, <1>8 DEF ClientNext

LEMMA ClientTyped == ClientInv /\ LinkTypes => ClientTypeOK
<1> SUFFICES ASSUME ClientInv, LinkTypes
             PROVE  ClientTypeOK
  OBVIOUS
<1>1. /\ framed \in Seq(Nat) /\ DOMAIN framed = 1 .. Len(framed)
      /\ \A i \in 1 .. Len(framed) : framed[i] \in 1 .. Len(keyOf)
  BY CallFacts DEF ClientInv
<1>2. framed \in Seq(1 .. Len(keyOf))
  BY <1>1, RowOf
<1> QED BY <1>1, <1>2 DEF ClientInv, LinkInv, LinkTypes, CallInv, CallTypes, Fates, ClientTypeOK

HIDE CallsAssumption

USE PhonesAssumption

SocketPlaces == {"closed", "upgraded", "looks", "allows", "listens", "waits"}

\* Who saves, what is left of the tries, and where the sockets are.
SocketTypes ==
    /\ saving \in Threads \cup {"nobody"} /\ retriesLeft \in 0 .. Retries
    /\ phoneSocket \in [Phones -> SocketPlaces] /\ kicked \in [Phones -> BOOLEAN]

LEMMA SocketTypesStart == PhonesInit => SocketTypes
  BY DEF PhonesInit, SocketTypes, SocketPlaces

LEMMA SocketTypesKept ==
    ASSUME ErrandsInv, SocketTypes, [PhonesNext]_phonesVars
    PROVE  SocketTypes'
<1> USE DEF SocketTypes
<1>1. ASSUME UNCHANGED <<saving, retriesLeft, phoneSocket, kicked>> PROVE SocketTypes'
  BY <1>1
<1>2. Kick => kicked' \in [Phones -> BOOLEAN]
  <2>1. ASSUME NEW p \in Phones
        PROVE  (kicked[p] \/ phoneSocket[p] \in {"looks", "allows", "listens", "waits"}) \in BOOLEAN
    OBVIOUS
  <2> QED BY <2>1 DEF Kick
<1>3. CASE StopsListening
  BY <1>2, <1>3 DEF StopsListening
<1>4. CASE StartsAgain
  BY <1>4 DEF StartsAgain, SocketPlaces
<1>5. ASSUME NEW t \in Threads,
             SetAllowPhones(t) \/ \E p \in Phones : Pair(t, p) \/ Revoke(t, p) \/ LetIn(t, p)
      PROVE  SocketTypes'
  BY <1>2, <1>5 DEF SetAllowPhones, Pair, Revoke, LetIn, BeginsErrand, socketVars
<1>6. ASSUME NEW h \in Hands, Errand(h)
      PROVE  SocketTypes'
  <2>1. CASE CopiesMemory(h)
    <3>1. h \in Threads
      BY <2>1 DEF CopiesMemory, Hands, ErrandsInv
    <3> QED BY <2>1, <3>1 DEF CopiesMemory, socketVars
  <2>2. CASE WritesFile(h)
    BY <2>2 DEF WritesFile, socketVars
  <2>3. CASE SaveFailed(h) \/ LooksAtSetting(h)
    BY <1>1, <2>3 DEF SaveFailed, LooksAtSetting, socketVars
  <2>4. CASE Saved(h)
    <3>1. phoneSocket' \in [Phones -> SocketPlaces]
      BY <2>4 DEF Saved, SocketPlaces
    <3> QED BY <2>4, <3>1 DEF Saved
  <2>5. CASE MovesListener(h)
    <3>1. UNCHANGED <<saving, phoneSocket, kicked>>
      BY <2>5 DEF MovesListener, socketVars
    <3>2. retriesLeft' = retriesLeft \/ (retriesLeft > 0 /\ retriesLeft' = retriesLeft - 1)
      BY <2>5 DEF MovesListener
    <3>3. retriesLeft' \in 0 .. Retries
      BY <3>2
    <3> QED BY <3>1, <3>3
  <2>6. CASE KicksAll(h)
    BY <1>2, <2>6 DEF KicksAll
  <2> QED BY <1>6, <2>1, <2>2, <2>3, <2>4, <2>5, <2>6 DEF Errand
<1>7. ASSUME NEW p \in Phones, LetInUnsaved(p) \/ Session(p) \/ PhoneLeaves(p)
      PROVE  SocketTypes'
  <2>1. saving' = saving /\ retriesLeft' = retriesLeft
    BY <1>7 DEF LetInUnsaved, Session, PhoneLeaves
  <2>2. \E to \in SocketPlaces : phoneSocket' = [phoneSocket EXCEPT ![p] = to]
    BY <1>7 DEF LetInUnsaved, Session, PhoneLeaves, Subscribes, LooksAtList, LooksWhetherAllowed,
                LooksAtListener, HearsKick, SocketStep, SocketPlaces
  <2>3. \E b \in BOOLEAN : kicked' = [kicked EXCEPT ![p] = b]
    <3>1. CASE Subscribes(p) \/ HearsKick(p) \/ PhoneLeaves(p)
      BY <3>1 DEF Subscribes, HearsKick, PhoneLeaves
    <3>2. CASE LooksAtList(p)
      <4>1. (kicked[p] /\ p \in paired) \in BOOLEAN
        OBVIOUS
      <4> QED BY <3>2, <4>1 DEF LooksAtList
    <3>4. CASE LooksWhetherAllowed(p)
      <4>1. (kicked[p] /\ allowPhones) \in BOOLEAN
        OBVIOUS
      <4> QED BY <3>4, <4>1 DEF LooksWhetherAllowed
    <3>5. CASE LetInUnsaved(p)
      <4>1. kicked' = [kicked EXCEPT ![p] = kicked[p]] /\ kicked[p] \in BOOLEAN
        BY <3>5 DEF LetInUnsaved
      <4> QED BY <4>1
    <3>3. CASE LooksAtListener(p)
      <4>1. (kicked[p] /\ listening) \in BOOLEAN
        OBVIOUS
      <4> QED BY <3>3, <4>1 DEF LooksAtListener
    <3> QED BY <1>7, <3>1, <3>2, <3>3, <3>4, <3>5 DEF Session
  <2> QED BY <2>1, <2>2, <2>3
<1>8. CASE UNCHANGED phonesVars
  BY <1>1, <1>8 DEF phonesVars, socketVars
<1> QED BY <1>3, <1>4, <1>5, <1>6, <1>7, <1>8 DEF PhonesNext

LEMMA PhonesTyped == ErrandsInv /\ SocketTypes => PhonesTypeOK
<1> SUFFICES ASSUME ErrandsInv, SocketTypes
             PROVE  PhonesTypeOK
  OBVIOUS
<1>1. \A h \in Hands :
          /\ errand[h].does \in {"nothing", "set", "pair", "revoke", "let in"}
          /\ errand[h].at \in {"rest", "save", "write", "failed", "saved", "apply", "act", "kick"}
          /\ errand[h].phone \in Phones \cup {"nobody"} /\ errand[h].copy \in RemoteFile
  BY HandFields DEF ErrandKinds, ErrandPlaces
<1>2. {allowPhones, listening, bindError, shut, crossed, adrift, together, unsaved} \subseteq BOOLEAN
  BY DEF ErrandsInv
<1>3. paired \subseteq Phones /\ kept \in RemoteFile
  BY DEF ErrandsInv
<1> QED BY <1>1, <1>2, <1>3 DEF SocketTypes, SocketPlaces, PhonesTypeOK

HIDE PhonesAssumption

-----------------------------------------------------------------------------
(* The server as it is checked, one of its parts moving.                   *)

\* A part rests or takes a step of its own.
LEMMA PartsMove ==
    ASSUME [ServerNext]_serverVars
    PROVE  /\ [RequestsNext]_requestVars /\ [SegmentsNext]_segmentVars
           /\ [ClientNext]_connectionVars /\ [UpdatesNext]_updateVars /\ [ManagerNext]_managerVars
           /\ [PhonesNext]_phonesVars /\ [RecallNext]_recallVars
<1>1. CASE UNCHANGED serverVars
  BY <1>1 DEF serverVars
<1>2. CASE ServerNext
  BY <1>2 DEF ServerNext, OnlyTable, OnlyRequests, OnlyPackets, OnlyUpdates, OnlyRecall, OnlyCalls,
              OnlyPhones
<1> QED BY <1>1, <1>2

\* The server behaves as each of its parts does.
LEMMA PartsAreThemselves ==
    ServerSpec => RequestsSpec /\ SegmentsSpec /\ ManagerSpec /\ UpdatesSpec
                  /\ ClientInit /\ [][ClientNext]_connectionVars
                  /\ PhonesInit /\ [][PhonesNext]_phonesVars
<1>1. ServerInit => /\ RequestsInit /\ SegmentsInit /\ ManagerInit /\ UpdatesInit
                    /\ ClientInit /\ PhonesInit
  BY DEF ServerInit
<1>2. [ServerNext]_serverVars =>
         /\ [RequestsNext]_requestVars /\ [SegmentsNext]_segmentVars /\ [ManagerNext]_managerVars
         /\ [UpdatesNext]_updateVars /\ [ClientNext]_connectionVars /\ [PhonesNext]_phonesVars
  BY PartsMove
<1> QED BY <1>1, <1>2, PTL DEF ServerSpec, RequestsSpec, SegmentsSpec, ManagerSpec, UpdatesSpec

\* What answers a request is what came for it, as whole as it was sent, in every
\* case the protocol can tell apart, and on the page each call is in one place,
\* is sent once and in order, and is never left without a way back to the
\* server (correlation.rs, framing.rs, client.ts).
THEOREM AnswersOwn == ServerSpec => []AnswersAreTheirOwn
<1>1. ClientInit /\ [][ClientNext]_connectionVars => []ClientIsConsistent
  BY ClientStarts, ClientStep, ClientInvImplies, PTL
<1>2. StaleNeverAnswers /\ StraysFollowATimeout /\ WholeMessagesArrive /\ MixedOnlyAcrossAGap
        /\ ClientIsConsistent => AnswersAreTheirOwn
  BY DEF AnswersAreTheirOwn
<1> QED BY PartsAreThemselves, StaleIgnored, StraysAfterTimeout, WholeArrive, MixedAcrossAGap,
           <1>1, <1>2, PTL

\* What clients are told of the interfaces is what became of them, each report
\* is read once, and what is said of phones outlives a restart
\* (device/manager.rs, device/worker.rs, remote/mod.rs).
THEOREM WhatIsTold == ServerSpec => []WhatIsToldIsSo
<1>1. PhonesInit /\ [][PhonesNext]_phonesVars => []PhonesAreKept
  BY PhonesStart, PhonesStep, PhonesInvImplies, PTL
<1>2. OneWorkerServes /\ ToldOnce /\ NothingOfThePast /\ EachReportOnce /\ PhonesAreKept => WhatIsToldIsSo
  BY DEF WhatIsToldIsSo
<1> QED BY PartsAreThemselves, OneServes, ToldOfEachOnce, PastForgotten, ReadOnce, <1>1, <1>2, PTL

\* A plan as it is built silences every interface before any is written to and is
\* quiet until everything is in place, leaves the outputs as the snapshot had them,
\* and moves a strip that is cut before one that is raised; and it is as quiet for
\* an interface whose silencing could be rendered, whatever else could not be:
\* for any number of interfaces and whatever differs (snapshot/plan.rs).
THEOREM RecallSafe == ServerSpec => []RecallIsSafe
<1>1. ServerInit => RecallInv
  BY RecallStart, NoRecall DEF ServerInit
<1>2. RecallInv /\ [ServerNext]_serverVars => RecallInv'
  BY PartsMove, RecallStep
<1> QED BY <1>1, <1>2, RecallInvImplies, PTL DEF ServerSpec

\* The types of all the parts of the server.
RestTypes == ScanTypes /\ WireTypes /\ SegmentTypes /\ LinkTypes /\ SocketTypes
PartsInv == TableInv /\ RequestInv /\ PacketInv /\ UpdatesInv /\ ClientInv /\ PhonesInv

LEMMA PartsStart == ServerInit => PartsInv /\ RestTypes
  BY TableStart, RequestsStart, PacketsStart, UpdatesStart, ClientStarts, PhonesStart, ScanTypesStart,
     WireTypesStart, SegmentTypesStart, LinkTypesStart, SocketTypesStart
     DEF ServerInit, PartsInv, RestTypes

\* Every table, count, queue, list and place of the server stays in its range, for every
\* number of interfaces, requests, packets, callers, calls and phones.
THEOREM ServerTyped == ServerSpec => []ServerTypeOK
<1>1. PartsInv /\ RestTypes /\ [ServerNext]_serverVars => PartsInv' /\ RestTypes'
  <2> SUFFICES ASSUME PartsInv, RestTypes, [ServerNext]_serverVars
               PROVE  PartsInv' /\ RestTypes'
    OBVIOUS
  <2>1. /\ [RequestsNext]_requestVars /\ [SegmentsNext]_segmentVars
        /\ [ClientNext]_connectionVars /\ [UpdatesNext]_updateVars /\ [ManagerNext]_managerVars
        /\ [PhonesNext]_phonesVars
    BY PartsMove
  <2>2. PartsInv'
    BY <2>1, TableStep, RequestStep, PacketStep, UpdatesStep, ClientStep, PhonesStep DEF PartsInv
  <2>3. ScanTypes' /\ WireTypes' /\ SegmentTypes'
    BY <2>1, ScanTypesKept, WireTypesKept, SegmentTypesKept DEF PartsInv, TableInv, RestTypes
  <2>4. LinkTypes' /\ SocketTypes'
    BY <2>1, LinkTypesKept, SocketTypesKept DEF PartsInv, ClientInv, PhonesInv, RestTypes
  <2> QED BY <2>2, <2>3, <2>4 DEF RestTypes
<1>2. PartsInv /\ RestTypes => ServerTypeOK
  BY ManagerTyped, RequestsTyped, SegmentsTyped, ClientTyped, PhonesTyped
     DEF PartsInv, RestTypes, TableInv, UpdatesInv, PhonesInv, ServerTypeOK
<1> QED BY <1>1, <1>2, PartsStart, PTL DEF ServerSpec

=============================================================================

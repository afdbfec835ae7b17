---------------------------- MODULE RemotePhones ----------------------------
(***************************************************************************)
(* Phones on the network (remote/mod.rs): the setting that allows them,    *)
(* the listener that follows it, the list of paired phones and the file    *)
(* both are kept in, and the socket of each phone, which ends when it no   *)
(* longer may be open (guard.rs, ws/mod.rs).                               *)
(*                                                                         *)
(* Two locks are never held together: `inner`, over the setting and the    *)
(* list, and `listener`.  `saving` is held over a copy of the first and    *)
(* its way to the disk.  Requests and the tray work in threads of their    *)
(* own, and the server may be stopped, or killed and started again.        *)
(***************************************************************************)
EXTENDS Naturals, FiniteSets

CONSTANTS
    Phones,     \* phones that may be paired
    Threads,    \* those that serve requests, and the tray
    Errands,    \* bound: what they are asked to do
    Mischances, \* bound: writes and binds that fail, and crashes
    Retries     \* bound: tries of a port that was held at the start

ASSUME PhonesAssumption ==
    /\ Errands \in Nat /\ Mischances \in Nat /\ Retries \in Nat \ {0}
    /\ "start" \notin Threads /\ "nobody" \notin Threads

VARIABLES
    allowPhones, \* Inner.allow_phones
    paired,      \* Inner.phones
    kept,        \* the file
    saving,      \* who holds `saving`, or "nobody"
    listening,   \* Listener.running
    bindError,   \* Listener.error
    shut,        \* Listener.closed
    retriesLeft, \* what is left of the tries of serve_phones
    errand,      \* per thread, what it does
    phoneSocket, \* per phone, where its socket is
    kicked,      \* per phone, its receiver of `kicks` holds something
    holdToken,   \* phones that were told they are paired, and given their token
    gone,        \* history: phones whose unpairing was asked for
    revoked,     \* history: those of them it was answered for
    crossed,     \* history: two changes, or a try, have met at the listener
    adrift,      \* history: the last change had met another
    together,    \* history: two that change what is kept have met
    unsaved,     \* history: what is kept may not be what is in memory
    errands, mischances

memoryVars == <<allowPhones, paired>>
listenerVars == <<listening, bindError, shut>>
socketVars == <<phoneSocket, kicked>>
phonesHistory == <<holdToken, gone, revoked, crossed, adrift, together, unsaved>>
phonesVars == <<memoryVars, kept, saving, listenerVars, retriesLeft, errand, socketVars,
                phonesHistory, errands, mischances>>

NoErrand == [does |-> "nothing", on |-> FALSE, was |-> FALSE, phone |-> "nobody", at |-> "rest",
             copy |-> [allow |-> FALSE, phones |-> {}]]

Hands == Threads \cup {"start"}
Memory == [allow |-> allowPhones, phones |-> paired]
RemoteFile == [allow : BOOLEAN, phones : SUBSET Phones]

PhonesTypeOK ==
    /\ paired \subseteq Phones /\ kept \in RemoteFile
    /\ {allowPhones, listening, bindError, shut, crossed, adrift, together, unsaved}
          \subseteq BOOLEAN
    /\ saving \in Threads \cup {"nobody"} /\ retriesLeft \in 0 .. Retries
    /\ \A h \in Hands :
          /\ errand[h].does \in {"nothing", "set", "pair", "revoke", "let in"}
          /\ errand[h].at \in {"rest", "save", "write", "failed", "saved", "apply", "act", "kick"}
          /\ errand[h].phone \in Phones \cup {"nobody"} /\ errand[h].copy \in RemoteFile
    /\ phoneSocket \in [Phones -> {"closed", "upgraded", "looks", "allows", "listens", "waits"}]
    /\ kicked \in [Phones -> BOOLEAN]

(* Remote::new, with what an earlier server left in the file.              *)
Begins(file) ==
    /\ allowPhones = file.allow /\ paired = file.phones

PhonesInit ==
    /\ kept \in RemoteFile /\ Begins(kept)
    /\ saving = "nobody"
    /\ listening = FALSE /\ bindError = FALSE /\ shut = FALSE
    /\ retriesLeft = Retries
    /\ errand = [h \in Hands |-> IF h = "start" THEN [NoErrand EXCEPT !.at = "apply"] ELSE NoErrand]
    /\ phoneSocket = [p \in Phones |-> "closed"] /\ kicked = [p \in Phones |-> FALSE]
    /\ holdToken = kept.phones /\ gone = {} /\ revoked = {}
    /\ crossed = FALSE /\ adrift = FALSE /\ together = FALSE /\ unsaved = FALSE
    /\ errands = 0 /\ mischances = 0

-----------------------------------------------------------------------------
Mischance == mischances < Mischances /\ mischances' = mischances + 1

AcceptsRemote == allowPhones /\ listening

AtWork == {h \in Hands : errand[h].at # "rest"}
AtListener == {h \in AtWork : errand[h].does = "set" \/ h = "start"}

GoesTo(h, at) == errand' = [errand EXCEPT ![h].at = at]

(* `kicks` reaches whoever has subscribed.                                 *)
Kick == kicked' = [p \in Phones |-> kicked[p] \/ phoneSocket[p] \in {"looks", "allows", "listens", "waits"}]

(* A thread that is asked for something, and what it begins with.          *)
BeginsErrand(t, does, on, phone) ==
    /\ errand[t].at = "rest" /\ errands < Errands
    /\ errands' = errands + 1
    /\ errand' = [errand EXCEPT ![t] =
                     [NoErrand EXCEPT !.does = does, !.on = on, !.phone = phone, !.at = "save",
                                      !.was = (does = "set" /\ allowPhones)]]
    /\ together' = (AtWork \ {"start"} # {})
    /\ UNCHANGED <<kept, saving, listenerVars, retriesLeft, holdToken, revoked, adrift, unsaved,
                   mischances>>

(* set_allow_phones, of a page or the tray: changed in memory first.       *)
SetAllowPhones(t) ==
    \E on \in BOOLEAN :
       /\ BeginsErrand(t, "set", on, "nobody")
       /\ allowPhones' = on
       /\ crossed' = (AtListener # {})
       /\ UNCHANGED <<paired, socketVars, gone>>

NewId(p) ==
    /\ p \notin holdToken \cup gone \cup paired \cup kept.phones
    /\ \A h \in Threads : errand[h].phone # p

(* With the code the computer shows.                                       *)
Pair(t, p) ==
    /\ AcceptsRemote /\ NewId(p)
    /\ BeginsErrand(t, "pair", FALSE, p)
    /\ paired' = paired \cup {p}
    /\ UNCHANGED <<allowPhones, socketVars, gone, crossed>>

(* Its socket is told at once, before the list is saved.                   *)
Revoke(t, p) ==
    /\ p \in paired
    /\ BeginsErrand(t, "revoke", FALSE, p)
    /\ paired' = paired \ {p} /\ gone' = gone \cup {p}
    /\ Kick
    /\ UNCHANGED <<allowPhones, phoneSocket, crossed>>

(* The guard lets a phone in, for one socket at a time.  When it was last  *)
(* seen is noted, and saved before its request goes on if its address has  *)
(* moved or the last save is old; else it goes on at once.                 *)
MayEnter(p) ==
    /\ AcceptsRemote /\ p \in paired \cap holdToken /\ phoneSocket[p] = "closed"
    /\ \A h \in Threads : errand[h].does = "let in" => errand[h].phone # p

LetIn(t, p) ==
    /\ MayEnter(p)
    /\ BeginsErrand(t, "let in", FALSE, p)
    /\ UNCHANGED <<memoryVars, socketVars, gone, crossed>>

LetInUnsaved(p) ==
    /\ MayEnter(p)
    /\ phoneSocket' = [phoneSocket EXCEPT ![p] = "upgraded"]
    /\ UNCHANGED <<memoryVars, kept, saving, listenerVars, retriesLeft, errand, kicked,
                   phonesHistory, errands, mischances>>

-----------------------------------------------------------------------------
(* save(): one at a time, a copy of what is in memory, and the disk.       *)

NobodySaves == saving = "nobody"

CopiesMemory(t) ==
    /\ errand[t].at = "save" /\ NobodySaves
    /\ saving' = t
    /\ errand' = [errand EXCEPT ![t].at = "write", ![t].copy = Memory]
    /\ UNCHANGED <<memoryVars, kept, listenerVars, retriesLeft, socketVars, phonesHistory,
                   errands, mischances>>

WriteEnds(t, at) == errand' = [errand EXCEPT ![t].at = at, ![t].copy = NoErrand.copy]

WritesFile(t) ==
    /\ errand[t].at = "write"
    /\ saving' = "nobody"
    /\ \/ /\ kept' = errand[t].copy /\ WriteEnds(t, "saved")
          /\ unsaved' = (unsaved /\ together)
          /\ UNCHANGED mischances
       \/ /\ Mischance /\ WriteEnds(t, "failed")
          /\ unsaved' = (unsaved \/ errand[t].does \in {"revoke", "let in"})
          /\ UNCHANGED kept
    /\ UNCHANGED <<memoryVars, listenerVars, retriesLeft, socketVars, holdToken, gone, revoked,
                   crossed, adrift, together, errands>>

(* What a failed save leaves: the setting as it was, a phone that was not  *)
(* paired after all, and a phone unpaired until the next start.            *)
SaveFailed(t) ==
    /\ errand[t].at = "failed"
    /\ allowPhones' = (IF errand[t].does = "set" THEN errand[t].was ELSE allowPhones)
    /\ paired' = (IF errand[t].does = "pair" THEN paired \ {errand[t].phone} ELSE paired)
    /\ adrift' = (adrift \/ (errand[t].does = "set" /\ crossed))
    /\ unsaved' = (unsaved \/ together)
    /\ IF errand[t].does = "let in"
       THEN GoesTo(t, "saved")
       ELSE errand' = [errand EXCEPT ![t] = NoErrand]
    /\ UNCHANGED <<kept, saving, listenerVars, retriesLeft, socketVars, holdToken, gone,
                   revoked, crossed, together, errands, mischances>>

Saved(t) ==
    /\ errand[t].at = "saved"
    /\ IF errand[t].does = "set" THEN GoesTo(t, "apply")
       ELSE errand' = [errand EXCEPT ![t] = NoErrand]
    /\ holdToken' = (IF errand[t].does = "pair" THEN holdToken \cup {errand[t].phone} ELSE holdToken)
    /\ revoked' = (IF errand[t].does = "revoke" THEN revoked \cup {errand[t].phone} ELSE revoked)
    /\ phoneSocket' = (IF errand[t].does = "let in"
                  THEN [phoneSocket EXCEPT ![errand[t].phone] = "upgraded"] ELSE phoneSocket)
    /\ UNCHANGED <<memoryVars, kept, saving, listenerVars, retriesLeft, kicked, gone, crossed,
                   adrift, together, unsaved, errands, mischances>>

-----------------------------------------------------------------------------
(* apply(): the setting is read, and then the listener made to match.      *)

LooksAtSetting(h) ==
    /\ errand[h].at = "apply"
    /\ errand' = [errand EXCEPT ![h].on = allowPhones, ![h].at = "act"]
    /\ UNCHANGED <<memoryVars, kept, saving, listenerVars, retriesLeft, socketVars,
                   phonesHistory, errands, mischances>>

(* A try of the start that failed leaves an error, and is made again.      *)
Applied(h, on) ==
    IF h = "start" /\ on /\ retriesLeft > 0 /\ ~shut
    THEN errand' = [errand EXCEPT ![h].at = "apply"]
    ELSE errand' = [errand EXCEPT ![h] = NoErrand]

MayListen == ~shut

MovesListener(h) ==
    LET want == errand[h].on
    IN  /\ errand[h].at = "act"
        /\ \/ /\ MayListen /\ want /\ ~listening
              /\ \/ /\ listening' = TRUE /\ bindError' = FALSE
                    /\ Applied(h, FALSE) /\ UNCHANGED <<retriesLeft, mischances>>
                 \/ /\ Mischance
                    /\ bindError' = TRUE
                    /\ retriesLeft' = (IF h = "start" /\ retriesLeft > 0 THEN retriesLeft - 1
                                       ELSE retriesLeft)
                    /\ Applied(h, TRUE) /\ UNCHANGED listening
           \/ /\ MayListen /\ ~want /\ listening
              /\ listening' = FALSE /\ bindError' = FALSE
              /\ GoesTo(h, "kick") /\ UNCHANGED <<retriesLeft, mischances>>
           \/ /\ ~MayListen \/ want = listening
              /\ bindError' = (bindError /\ (~MayListen \/ want))
              /\ Applied(h, FALSE) /\ UNCHANGED <<listening, retriesLeft, mischances>>
        /\ adrift' = (crossed \/ (adrift /\ h = "start"))
        /\ UNCHANGED <<memoryVars, kept, saving, shut, socketVars, holdToken, gone, revoked,
                       crossed, together, unsaved, errands>>

KicksAll(h) ==
    /\ errand[h].at = "kick"
    /\ Kick
    /\ errand' = [errand EXCEPT ![h] = NoErrand]
    /\ UNCHANGED <<memoryVars, kept, saving, listenerVars, retriesLeft, phoneSocket,
                   phonesHistory, errands, mischances>>

-----------------------------------------------------------------------------
(* A phone's socket.  It subscribes, and then looks: at the list first,    *)
(* then at the setting, and at the listener after them.                    *)

SocketStep(p, from, to) == phoneSocket[p] = from /\ phoneSocket' = [phoneSocket EXCEPT ![p] = to]

Subscribes(p) ==
    /\ SocketStep(p, "upgraded", "looks")
    /\ kicked' = [kicked EXCEPT ![p] = FALSE]

LooksAtList(p) ==
    /\ SocketStep(p, "looks", IF p \in paired THEN "allows" ELSE "closed")
    /\ kicked' = [kicked EXCEPT ![p] = @ /\ p \in paired]

LooksWhetherAllowed(p) ==
    /\ SocketStep(p, "allows", IF allowPhones THEN "listens" ELSE "closed")
    /\ kicked' = [kicked EXCEPT ![p] = @ /\ allowPhones]

LooksAtListener(p) ==
    /\ SocketStep(p, "listens", IF listening THEN "waits" ELSE "closed")
    /\ kicked' = [kicked EXCEPT ![p] = @ /\ listening]

HearsKick(p) ==
    /\ kicked[p] /\ SocketStep(p, "waits", "looks")
    /\ kicked' = [kicked EXCEPT ![p] = FALSE]

Session(p) ==
    /\ \/ Subscribes(p) \/ LooksAtList(p) \/ LooksWhetherAllowed(p) \/ LooksAtListener(p)
       \/ HearsKick(p)
    /\ UNCHANGED <<memoryVars, kept, saving, listenerVars, retriesLeft, errand, phonesHistory,
                   errands, mischances>>

PhoneLeaves(p) ==
    /\ phoneSocket[p] # "closed"
    /\ phoneSocket' = [phoneSocket EXCEPT ![p] = "closed"] /\ kicked' = [kicked EXCEPT ![p] = FALSE]
    /\ UNCHANGED <<memoryVars, kept, saving, listenerVars, retriesLeft, errand, phonesHistory,
                   errands, mischances>>

-----------------------------------------------------------------------------
(* The server stops: the listener is let go of for good, and the phones    *)
(* are told.                                                               *)
StopsListening ==
    /\ ~shut
    /\ shut' = TRUE /\ listening' = FALSE
    /\ Kick
    /\ UNCHANGED <<memoryVars, kept, saving, bindError, retriesLeft, errand, phoneSocket,
                   phonesHistory, errands, mischances>>

(* It ends there, or anywhere else by a crash, and starts again.           *)
StartsAgain ==
    /\ shut \/ mischances < Mischances
    /\ mischances' = (IF shut THEN mischances ELSE mischances + 1)
    /\ allowPhones' = kept.allow /\ paired' = kept.phones
    /\ saving' = "nobody" /\ retriesLeft' = Retries
    /\ listening' = FALSE /\ bindError' = FALSE /\ shut' = FALSE
    /\ errand' = [h \in Hands |-> IF h = "start" THEN [NoErrand EXCEPT !.at = "apply"] ELSE NoErrand]
    /\ phoneSocket' = [p \in Phones |-> "closed"] /\ kicked' = [p \in Phones |-> FALSE]
    /\ crossed' = FALSE /\ adrift' = FALSE /\ together' = FALSE /\ unsaved' = FALSE
    /\ UNCHANGED <<kept, holdToken, gone, revoked, errands>>

Errand(h) ==
    \/ CopiesMemory(h) \/ WritesFile(h) \/ SaveFailed(h) \/ Saved(h)
    \/ LooksAtSetting(h) \/ MovesListener(h) \/ KicksAll(h)

PhonesNext ==
    \/ StopsListening \/ StartsAgain
    \/ \E t \in Threads : SetAllowPhones(t) \/ \E p \in Phones : Pair(t, p) \/ Revoke(t, p) \/ LetIn(t, p)
    \/ \E h \in Hands : Errand(h)
    \/ \E p \in Phones : LetInUnsaved(p) \/ Session(p) \/ PhoneLeaves(p)

(* Whoever has something to do goes on, and so do the sockets.             *)
Works == \E h \in Hands : Errand(h)
SocketsMove == \E p \in Phones : Session(p)

PhonesSpec ==
    /\ PhonesInit /\ [][PhonesNext]_phonesVars
    /\ WF_phonesVars(Works) /\ WF_phonesVars(SocketsMove)

-----------------------------------------------------------------------------
(* A phone that was told it is paired is on the disk until its unpairing   *)
(* is asked for: a restart never looks like one nobody made.               *)
PairedSurvives == holdToken \ gone \subseteq kept.phones \cap paired

(* One whose unpairing was answered is nowhere, and no save in flight puts *)
(* it back.                                                                *)
UnpairedStaysGone == revoked \cap (kept.phones \cup paired) = {}

(* With nobody at work, what is kept is what is in memory; unless the disk *)
(* failed an unpairing, or failed one of two that met.                     *)
KeptIsMemory == AtWork \ {"start"} = {} /\ ~unsaved => kept = Memory

(* With no change under way the listener is as the setting says, or the    *)
(* page is told why it is not; unless two changes have met at it.          *)
ListenerFollows ==
    AtListener = {} /\ ~shut /\ ~adrift => listening = allowPhones \/ (allowPhones /\ bindError)

(* Nothing starts the listener again once the server is stopping.          *)
ShutIsShut == shut => ~listening

PhonesAreKept ==
    PairedSurvives /\ UnpairedStaysGone /\ KeptIsMemory /\ ListenerFollows /\ ShutIsShut

(* The socket of a phone that may no longer be connected ends, wherever    *)
(* its look at the list was when it was unpaired or phones were turned     *)
(* off; unless two changes have met.                                       *)
MayStay(p) == p \in paired /\ AcceptsRemote
SessionsEnd ==
    \A p \in Phones : [](~MayStay(p) => <>(phoneSocket[p] = "closed" \/ MayStay(p) \/ adrift))

=============================================================================

---------------------------- MODULE TapHandover ----------------------------
(***************************************************************************)
(* Handing the audio callback something to use, and taking it back without *)
(* a lock: the recorder's tap (record's host.rs, Shared) and the aggregate *)
(* driver's watch (stream.rs) are the same protocol.  The session may end  *)
(* with a tap still on it, from a thread of its own (Session::close).      *)
(*                                                                         *)
(* The steps are the atomic operations, which are all SeqCst but the last  *)
(* of a block.  Stopping the stream waits for a callback that is running:  *)
(* that is the driver's.                                                   *)
(***************************************************************************)
EXTENDS Naturals, FiniteSets

CONSTANTS
    Takers,     \* threads that detach: the recorder's and the session's
    Closer,     \* the taker that closes the session
    Taps        \* bound: taps attached

ASSUME TapAssumption == Closer \in Takers /\ Taps \in Nat

VARIABLES
    published,  \* SHARED is set: callbacks find the session
    streaming,  \* the stream has not been stopped
    hung,       \* the tap that is on, or NoTap
    inTap,      \* the callback says it is looking at the tap
    switch,     \* where the callback is
    using,      \* the tap the callback got, or NoTap
    taker,      \* per taker, where it is in detach or close
    got,        \* per taker, the tap it took off, or NoTap
    answered,   \* the taps a detach has answered for
    attached    \* taps attached so far

tapVars == <<published, streaming, hung, inTap, switch, using, taker, got, answered, attached>>

NoTap == 0

TapTypeOK ==
    /\ published \in BOOLEAN /\ streaming \in BOOLEAN /\ inTap \in BOOLEAN
    /\ attached \in 0 .. Taps /\ hung \in 0 .. Taps /\ using \in 0 .. Taps
    /\ answered \subseteq 1 .. Taps
    /\ switch \in {"out", "entered", "looking", "using", "done"}
    /\ taker \in [Takers -> {"idle", "stopped", "ending", "detach", "waiting", "over"}]
    /\ got \in [Takers -> 0 .. Taps]

TapInit ==
    /\ published = TRUE /\ streaming = TRUE
    /\ hung = NoTap /\ inTap = FALSE /\ switch = "out" /\ using = NoTap
    /\ taker = [t \in Takers |-> "idle"] /\ got = [t \in Takers |-> NoTap]
    /\ answered = {} /\ attached = 0

-----------------------------------------------------------------------------
(* The callback, once a block (buffer_switch and block_happened).          *)

SwitchBegins ==
    /\ streaming /\ switch = "out" /\ published
    /\ switch' = "entered"
    /\ UNCHANGED <<published, streaming, hung, inTap, using, taker, got, answered, attached>>

SaysLooking ==
    /\ switch = "entered"
    /\ switch' = "looking" /\ inTap' = TRUE
    /\ UNCHANGED <<published, streaming, hung, using, taker, got, answered, attached>>

GetsTap ==
    /\ switch = "looking"
    /\ switch' = "using" /\ using' = hung
    /\ UNCHANGED <<published, streaming, hung, inTap, taker, got, answered, attached>>

IsDone ==
    /\ switch = "using"
    /\ switch' = "done" /\ using' = NoTap
    /\ UNCHANGED <<published, streaming, hung, inTap, taker, got, answered, attached>>

SaysDone ==
    /\ switch = "done"
    /\ switch' = "out" /\ inTap' = FALSE
    /\ UNCHANGED <<published, streaming, hung, using, taker, got, answered, attached>>

Switch == SwitchBegins \/ SaysLooking \/ GetsTap \/ IsDone \/ SaysDone

-----------------------------------------------------------------------------
AttachTap ==
    /\ attached < Taps /\ hung = NoTap
    /\ attached' = attached + 1 /\ hung' = attached + 1
    /\ UNCHANGED <<published, streaming, inTap, switch, using, taker, got, answered>>

DetachBegins(t) ==
    /\ taker[t] = "idle" /\ t # Closer
    /\ taker' = [taker EXCEPT ![t] = "detach"]
    /\ UNCHANGED <<published, streaming, hung, inTap, switch, using, got, answered, attached>>

(* With nothing on, detach answers at once.                                *)
TakesOff(t) ==
    /\ taker[t] = "detach"
    /\ hung' = NoTap /\ got' = [got EXCEPT ![t] = hung]
    /\ taker' = [taker EXCEPT ![t] = IF hung # NoTap THEN "waiting"
                                     ELSE IF t = Closer THEN "over" ELSE "idle"]
    /\ UNCHANGED <<published, streaming, inTap, switch, using, answered, attached>>

NobodyLooks_NotWaited == TRUE
NobodyLooks == ~inTap

Waited(t) ==
    /\ taker[t] = "waiting" /\ NobodyLooks
    /\ answered' = answered \cup {got[t]}
    /\ taker' = [taker EXCEPT ![t] = IF t = Closer THEN "over" ELSE "idle"]
    /\ UNCHANGED <<published, streaming, hung, inTap, switch, using, got, attached>>

(* Session::close: the stream stops, callbacks no longer find the session, *)
(* and the take of a tap still on is ended where the audio ended.          *)
CloseBegins ==
    /\ taker[Closer] = "idle" /\ switch = "out"
    /\ streaming' = FALSE
    /\ taker' = [taker EXCEPT ![Closer] = "stopped"]
    /\ UNCHANGED <<published, hung, inTap, switch, using, got, answered, attached>>

Unpublish ==
    /\ taker[Closer] = "stopped"
    /\ published' = FALSE
    /\ taker' = [taker EXCEPT ![Closer] = "ending"]
    /\ UNCHANGED <<streaming, hung, inTap, switch, using, got, answered, attached>>

LooksForTap ==
    /\ taker[Closer] = "ending"
    /\ got' = [got EXCEPT ![Closer] = hung]
    /\ taker' = [taker EXCEPT ![Closer] = "detach"]
    /\ UNCHANGED <<published, streaming, hung, inTap, switch, using, answered, attached>>

CloseSession == CloseBegins \/ Unpublish \/ LooksForTap

Yields(t) == taker[t] = "waiting" /\ ~NobodyLooks /\ UNCHANGED tapVars

TakeBack(t) == TakesOff(t) \/ Waited(t)

SessionGone == taker[Closer] = "over" /\ UNCHANGED tapVars

TapNext ==
    \/ Switch \/ AttachTap \/ CloseSession \/ SessionGone
    \/ \E t \in Takers : DetachBegins(t) \/ TakeBack(t) \/ Yields(t)

TapSpec == TapInit /\ [][TapNext]_tapVars

(* The callback ends its blocks, and between two of them is out for long   *)
(* enough that a thread which keeps looking sees it.                       *)
TapFairSpec ==
    /\ TapSpec
    /\ WF_tapVars(Switch)
    /\ \A t \in Takers : SF_tapVars(TakeBack(t))

-----------------------------------------------------------------------------
(* What a detach has answered for, no callback uses, now or later, whoever *)
(* took it off and whatever was attached since: from then on its capture   *)
(* is the caller's alone (host.rs, detach: "answer once no callback can be *)
(* using it any more").  Once the stream has stopped nothing is used.      *)
TakenIsAlone ==
    /\ using \notin answered
    /\ taker[Closer] \in {"ending", "detach", "waiting", "over"} => using = NoTap

(* Whoever takes a tap off is answered, though blocks keep coming.         *)
DetachAnswers == \A t \in Takers : taker[t] = "detach" ~> taker[t] \in {"idle", "over"}

=============================================================================

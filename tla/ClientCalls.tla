----------------------------- MODULE ClientCalls -----------------------------
(***************************************************************************)
(* A page's connection to the server and the calls made over it            *)
(* (client.ts, class Connection): dialling, the hello, reconnecting,       *)
(* stopping for good, and calls that are answered, time out, are           *)
(* superseded by a newer one with the same coalesce key, or are lost with  *)
(* the connection.                                                         *)
(*                                                                         *)
(* Everything runs on one thread, so a handler is one step; only what the  *)
(* listeners do from inside a handler comes between.  Frames and replies   *)
(* of one connection keep their order, and go with it.  How long a retry   *)
(* waits is left out.                                                      *)
(***************************************************************************)
EXTENDS Naturals, Sequences, FiniteSets, Functions

CONSTANTS
    Keys,       \* coalesce keys
    Calls       \* bound: calls made

NoKey == "no key"

ASSUME CallsAssumption == Calls \in Nat /\ NoKey \notin Keys

VARIABLES
    link,       \* #status
    socket,     \* #socket, and whether it has been greeted
    retry,      \* #reconnectTimer is set
    start,      \* the promise of start()
    phone,      \* the server calls this connection a phone's
    unpaired,   \* #unpaired
    strayOpen,  \* history: a listener closed the client from inside a hello
    keyOf,      \* the calls made, by number: the key of each, or NoKey
    fate,       \* what became of each
    framed,       \* the frames sent, by id: the call of each
    inFlight,   \* #pending, by id
    slots,      \* #slots: per key in use the call waiting behind, or none
    unanswered  \* ids the server has and has not answered on this connection

linkVars == <<link, socket, retry, start, phone, unpaired, strayOpen>>
callingVars == <<keyOf, fate, framed, inFlight, slots, unanswered>>
connectionVars == <<linkVars, callingVars>>

Nobody == 0

ClientTypeOK ==
    /\ link \in {"closed", "open", "reconnecting"} /\ socket \in {"none", "dialing", "greeted"}
    /\ start \in {"waiting", "resolved", "rejected"}
    /\ {retry, phone, unpaired, strayOpen} \subseteq BOOLEAN
    /\ keyOf \in Seq(Keys \cup {NoKey})
    /\ fate \in Seq({"waiting", "answered", "timeout", "closed", "superseded", "refused", "unauthorized"})
    /\ framed \in Seq(1 .. Len(keyOf))
    /\ inFlight \cup unanswered \subseteq DOMAIN framed
    /\ DOMAIN slots \subseteq Keys /\ \A k \in DOMAIN slots : slots[k] \in 0 .. Len(keyOf)

ClientInit ==
    /\ link = "closed" /\ socket = "dialing" /\ retry = FALSE /\ start = "waiting"
    /\ phone \in BOOLEAN /\ unpaired = FALSE /\ strayOpen = FALSE
    /\ keyOf = <<>> /\ fate = <<>> /\ framed = <<>> /\ inFlight = {} /\ slots = <<>> /\ unanswered = {}

-----------------------------------------------------------------------------
(* Calls.                                                                  *)

Held(k, c) == [j \in DOMAIN slots \cup {k} |-> IF j = k THEN c ELSE slots[j]]
Freed(k) == Restrict(slots, DOMAIN slots \ {k})

(* What #failAll rejects.                                                  *)
InHand == {framed[i] : i \in inFlight} \cup {slots[k] : k \in DOMAIN slots}

FailAll(why) ==
    /\ fate' = [c \in DOMAIN fate |-> IF c \in InHand THEN why ELSE fate[c]]
    /\ inFlight' = {} /\ slots' = <<>> /\ unanswered' = {}
    /\ UNCHANGED <<keyOf, framed>>

Call(k, f) ==
    /\ start = "resolved" /\ Len(keyOf) < Calls
    /\ keyOf' = Append(keyOf, k) /\ fate' = Append(f, "waiting")
    /\ UNCHANGED linkVars

This == Len(keyOf) + 1
FrameId == Len(framed) + 1

InvokeRefused(k) ==
    /\ start = "resolved" /\ Len(keyOf) < Calls /\ link # "open"
    /\ keyOf' = Append(keyOf, k) /\ fate' = Append(fate, "refused")
    /\ UNCHANGED <<linkVars, framed, inFlight, slots, unanswered>>

(* A call with the key is under way: this one waits behind it, and takes   *)
(* the place of one that waited.                                           *)
InvokeWaits(k) ==
    /\ link = "open" /\ k \in DOMAIN slots
    /\ Call(k, [c \in DOMAIN fate |-> IF c = slots[k] THEN "superseded" ELSE fate[c]])
    /\ slots' = Held(k, This)
    /\ UNCHANGED <<framed, inFlight, unanswered>>

InvokeSends(k) ==
    /\ link = "open" /\ socket = "greeted" /\ k \notin DOMAIN slots
    /\ Call(k, fate)
    /\ slots' = IF k = NoKey THEN slots ELSE Held(k, Nobody)
    /\ framed' = Append(framed, This)
    /\ inFlight' = inFlight \cup {FrameId} /\ unanswered' = unanswered \cup {FrameId}

(* There is no socket to send on: #send settles the call at once.          *)
InvokeCannotSend(k) ==
    /\ link = "open" /\ socket = "none" /\ start = "resolved" /\ Len(keyOf) < Calls
    /\ keyOf' = Append(keyOf, k) /\ fate' = Append(fate, "closed") /\ framed' = Append(framed, This)
    /\ UNCHANGED <<linkVars, inFlight, slots, unanswered>>

(* A call is only in flight while the link is open, so what waits behind   *)
(* it can be sent.                                                         *)
SettleCall(i, how, left) ==
    LET k == keyOf[framed[i]]
        next == IF k \in DOMAIN slots THEN slots[k] ELSE Nobody
    IN  /\ fate' = [fate EXCEPT ![framed[i]] = how]
        /\ IF next = Nobody
           THEN /\ inFlight' = inFlight \ {i} /\ unanswered' = left
                /\ slots' = Freed(k)
                /\ UNCHANGED framed
           ELSE /\ framed' = Append(framed, next)
                /\ inFlight' = (inFlight \ {i}) \cup {FrameId} /\ unanswered' = left \cup {FrameId}
                /\ slots' = Held(k, Nobody)
        /\ UNCHANGED <<linkVars, keyOf>>

Answer(i) ==
    /\ socket = "greeted" /\ i \in unanswered
    /\ i \in inFlight
    /\ SettleCall(i, "answered", unanswered \ {i})

(* Settled by its timer before: the answer finds nothing to settle.        *)
LateAnswer(i) ==
    /\ socket = "greeted" /\ i \in unanswered \ inFlight
    /\ unanswered' = unanswered \ {i}
    /\ UNCHANGED <<linkVars, keyOf, fate, framed, inFlight, slots>>

(* As if a call under a key had no timer of its own.                       *)
CallTimesOut_Keyless(i) ==
    i \in inFlight /\ keyOf[framed[i]] = NoKey /\ SettleCall(i, "timeout", unanswered)

CallTimesOut(i) == i \in inFlight /\ SettleCall(i, "timeout", unanswered)

-----------------------------------------------------------------------------
(* The connection.                                                         *)

Hello ==
    /\ socket = "dialing"
    /\ socket' = "greeted" /\ link' = "open" /\ start' = "resolved"
    /\ UNCHANGED <<retry, phone, unpaired, strayOpen, callingVars>>

(* A listener that is told of a device in a reconnect's hello closes the   *)
(* client; the handler goes on and says it is open.                        *)
HelloWhileClosing ==
    /\ socket = "dialing" /\ start = "resolved"
    /\ socket' = "none" /\ link' = "open" /\ strayOpen' = TRUE
    /\ FailAll("closed")
    /\ UNCHANGED <<retry, start, phone, unpaired>>

(* Closed before the hello, or no hello in time.                           *)
DialFails ==
    /\ socket = "dialing" /\ socket' = "none"
    /\ IF start = "waiting" THEN start' = "rejected" /\ UNCHANGED retry
       ELSE retry' = (link # "closed") /\ UNCHANGED start
    /\ UNCHANGED <<link, phone, unpaired, strayOpen, callingVars>>

RetryFires ==
    /\ retry
    /\ retry' = FALSE /\ socket' = "dialing"
    /\ UNCHANGED <<link, start, phone, unpaired, strayOpen, callingVars>>

Lost ==
    /\ socket = "greeted" /\ socket' = "none"
    /\ FailAll("closed")
    /\ IF link = "closed" THEN UNCHANGED <<link, retry>> ELSE link' = "reconnecting" /\ retry' = TRUE
    /\ UNCHANGED <<start, phone, unpaired, strayOpen>>

Ended(why) == link' = "closed" /\ retry' = FALSE /\ socket' = "none" /\ FailAll(why)

(* The server said so by closing the socket, or in answer to any request   *)
(* made meanwhile: the one a phone makes when it cannot get back in too.   *)
StopUnpaired ==
    /\ phone /\ ~unpaired
    /\ start = "resolved" \/ socket # "none"
    /\ unpaired' = TRUE /\ Ended("unauthorized")
    /\ start' = IF start = "waiting" THEN "rejected" ELSE start
    /\ UNCHANGED <<phone, strayOpen>>

CloseClient ==
    /\ start = "resolved" /\ (link # "closed" \/ socket # "none" \/ retry)
    /\ Ended("closed")
    /\ UNCHANGED <<start, phone, unpaired, strayOpen>>

ClientNext ==
    \/ \E k \in Keys \cup {NoKey} :
          InvokeRefused(k) \/ InvokeWaits(k) \/ InvokeSends(k) \/ InvokeCannotSend(k)
    \/ \E i \in DOMAIN framed : Answer(i) \/ LateAnswer(i) \/ CallTimesOut(i)
    \/ Hello \/ HelloWhileClosing \/ DialFails \/ RetryFires \/ Lost \/ StopUnpaired \/ CloseClient

(* Timers that are due are run: those of the calls, of the hello and of    *)
(* the next dial.  Nothing else is promised: the server may be away.       *)
ClientFairSpec ==
    /\ ClientInit /\ [][ClientNext]_connectionVars
    /\ \A i \in 1 .. Calls : WF_connectionVars(i \in DOMAIN framed /\ CallTimesOut(i))
    /\ WF_connectionVars(Hello \/ DialFails)
    /\ WF_connectionVars(RetryFires)

-----------------------------------------------------------------------------
(* A call that is not settled is in exactly one place: in flight, or       *)
(* behind another; a settled one is in none (#settle, #release, #failAll). *)
CallsAreSomewhere ==
    \A c \in DOMAIN fate :
       Cardinality({i \in inFlight : framed[i] = c}) + Cardinality({k \in DOMAIN slots : slots[k] = c})
          = IF fate[c] = "waiting" THEN 1 ELSE 0

(* A key is held exactly while a call with it is in flight, and there is   *)
(* never a second: no key is left held by a call that is gone (#invoke).   *)
OneInFlightPerKey ==
    \A k \in Keys :
       Cardinality({i \in inFlight : keyOf[framed[i]] = k}) = IF k \in DOMAIN slots THEN 1 ELSE 0

(* Nothing is replayed, not across a reconnect and not when a call times   *)
(* out, and what is sent for one key goes in the order it was asked for.     *)
NothingIsReplayed ==
    \A i, j \in DOMAIN framed :
       i < j => framed[i] # framed[j] /\ (keyOf[framed[i]] = keyOf[framed[j]] /\ keyOf[framed[i]] # NoKey => framed[i] < framed[j])

(* Only a call that was never sent is superseded, and by a newer one.        *)
SupersededByNewer ==
    \A c \in DOMAIN fate :
       fate[c] = "superseded" =>
          /\ \A i \in DOMAIN framed : framed[i] # c
          /\ \E d \in c + 1 .. Len(keyOf) : keyOf[d] = keyOf[c]

(* The client is never stuck between states: open with a greeted socket,   *)
(* reconnecting with exactly one dial under way or to come, closed with    *)
(* nothing to come; calls are in flight only while it is open.             *)
AlwaysAWayBack ==
    /\ link = "open" /\ ~strayOpen => socket = "greeted"
    /\ link = "reconnecting" => ~(retry <=> socket = "dialing")
    /\ link = "closed" /\ start # "waiting" => socket = "none" /\ ~retry
    /\ inFlight # {} => link = "open" /\ socket = "greeted"
    /\ unpaired => link = "closed"

ClientIsConsistent ==
    CallsAreSomewhere /\ OneInFlightPerKey /\ NothingIsReplayed /\ SupersededByNewer /\ AlwaysAWayBack

(* Every call's promise settles, whatever becomes of the connection: again *)
(* and again none is waiting, calls being bounded here.                    *)
CallsSettle == []<>(\A c \in DOMAIN fate : fate[c] # "waiting")

(* A client that is not closed and not connected goes on dialling.         *)
KeepsDialling == []<>(link # "reconnecting" \/ socket = "dialing")

=============================================================================

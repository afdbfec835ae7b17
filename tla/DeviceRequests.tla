--------------------------- MODULE DeviceRequests ---------------------------
(***************************************************************************)
(* One worker and its interface: requests go out one at a time, and the    *)
(* reports that come back are the reply, a refusal, replies to requests    *)
(* given up before, or what the interface sends of its own accord          *)
(* (worker.rs, handle_request and run; correlation.rs).                    *)
(*                                                                         *)
(* Requests are numbered in the order the worker takes them, reports in    *)
(* the order they arrive.  Nothing in a report says which request it       *)
(* answers: the correlator goes by two words of its header.                *)
(***************************************************************************)
EXTENDS Naturals, Sequences, FiniteSets, SequencesExt

CONSTANTS
    Cmds,           \* command ids; a reply carries the id plus one
    Selectors,      \* values of ext2
    MaxRequests,    \* bound: requests taken
    MaxReports      \* bound: reports the interface sends

ASSUME RequestsAssumption ==
    /\ {"ack", "cyclic"} \cap Cmds = {} /\ MaxRequests \in Nat /\ MaxReports \in Nat

VARIABLES
    alive,      \* whether the interface is there
    owed,       \* the requests the interface has taken and not answered
    arrived,    \* every report that has arrived
    read,       \* how many of them the worker has read
    worker,     \* where the worker is
    asked,      \* the requests taken, with where the reports stood when each was sent
    pending,    \* the request the correlator has outstanding, or 0
    outcome,    \* per request taken, what came of it
    answer,     \* per request taken, the report it was answered by, or 0
    published   \* the reports told to clients as the interface's own

wireVars == <<alive, owed, arrived>>
replyVars == <<outcome, answer>>
requestVars == <<wireVars, read, worker, asked, pending, replyVars, published>>

Ack == "ack"
(* A refusal is a reply with the top bit set in both words.                *)
Reports == [cmd : Cmds \cup {Ack, "cyclic"}, ext2 : Selectors, flagged : BOOLEAN, of : 0 .. MaxRequests]
Asks == [cmd : Cmds, ext2 : Selectors, returns : BOOLEAN, seen : 0 .. MaxReports]

RequestsTypeOK ==
    /\ alive \in BOOLEAN
    /\ owed \in Seq(1 .. MaxRequests)
    /\ arrived \in Seq(Reports) /\ read \in 0 .. Len(arrived)
    /\ worker \in {"idle", "drained", "waiting", "ended"}
    /\ asked \in Seq(Asks)
    /\ pending \in 0 .. Len(asked)
    /\ outcome \in Seq({"under way", "matched", "refused", "sent", "timeout", "gone"})
    /\ answer \in Seq(0 .. Len(arrived)) /\ Len(answer) = Len(outcome)
    /\ published \subseteq 1 .. read

RequestsInit ==
    /\ alive = TRUE /\ owed = <<>> /\ arrived = <<>> /\ read = 0
    /\ worker = "idle" /\ asked = <<>> /\ pending = 0
    /\ outcome = <<>> /\ answer = <<>> /\ published = {}

-----------------------------------------------------------------------------
(* The interface, as the worker meets it.                                  *)

Arrives(r) ==
    /\ Len(arrived) < MaxReports
    /\ arrived' = Append(arrived, r)
    /\ UNCHANGED <<alive, read, worker, asked, pending, replyVars, published>>

(* It answers what it was asked first; late, or by a refusal, or never.    *)
Replies(kind) ==
    /\ alive /\ owed # <<>>
    /\ owed' = Tail(owed)
    /\ LET n == Head(owed)
       IN  Arrives([cmd |-> IF kind = "ack" THEN Ack ELSE asked[n].cmd,
                    ext2 |-> asked[n].ext2, flagged |-> kind = "refusal", of |-> n])

NeverReplies ==
    /\ owed # <<>>
    /\ owed' = Tail(owed)
    /\ UNCHANGED <<alive, arrived, read, worker, asked, pending, replyVars, published>>

SendsCyclic(x) ==
    /\ alive
    /\ Arrives([cmd |-> "cyclic", ext2 |-> x, flagged |-> FALSE, of |-> 0])
    /\ UNCHANGED owed

Unplugged ==
    /\ alive
    /\ alive' = FALSE /\ owed' = <<>>
    /\ UNCHANGED <<arrived, read, worker, asked, pending, replyVars, published>>

-----------------------------------------------------------------------------
(* The correlator.                                                         *)

(* As if the selector were not looked at.                                  *)
IsValidResponse_AnySelector(r, q) == ~r.flagged /\ r.cmd \in {Ack, q.cmd}

(* is_valid_response: never flagged; the reply's id or the general         *)
(* acknowledgement; the selector of the request.                           *)
IsValidResponse(r, q) == ~r.flagged /\ r.cmd \in {Ack, q.cmd} /\ r.ext2 = q.ext2

(* is_refusal: the reply's own id and selector, both flagged.              *)
IsRefusal(r, q) == r.flagged /\ r.cmd = q.cmd /\ r.ext2 = q.ext2

(* correlate, over the reports waiting: the first that answers the         *)
(* outstanding request settles it, and all others are the interface's own. *)
Answers(i) == pending # 0 /\ (IsValidResponse(arrived[i], asked[pending])
                                \/ IsRefusal(arrived[i], asked[pending]))
Waiting == read + 1 .. Len(arrived)
Answering == {i \in Waiting : Answers(i) /\ \A j \in Waiting : Answers(j) => i <= j}

-----------------------------------------------------------------------------
(* The worker.                                                             *)

(* Idle: everything that waits is published, a reply as much as the rest.  *)
DrainEvents ==
    /\ worker = "idle" /\ Waiting # {}
    /\ published' = published \cup Waiting
    /\ read' = Len(arrived)
    /\ pending' = IF Answering # {} THEN 0 ELSE pending
    /\ UNCHANGED <<wireVars, worker, asked, replyVars>>

(* Take a request and publish what waited, uncorrelated, before it is sent *)
TakeRequest ==
    /\ worker = "idle" /\ Len(asked) < MaxRequests
    /\ \E c \in Cmds, x \in Selectors, rs \in BOOLEAN :
          asked' = Append(asked, [cmd |-> c, ext2 |-> x, returns |-> rs, seen |-> Len(arrived)])
    /\ outcome' = Append(outcome, "under way") /\ answer' = Append(answer, 0)
    /\ published' = published \cup Waiting
    /\ read' = Len(arrived)
    /\ worker' = "drained"
    /\ UNCHANGED <<wireVars, pending>>

Settle(what, by) ==
    /\ outcome' = [outcome EXCEPT ![Len(asked)] = what]
    /\ answer' = [answer EXCEPT ![Len(asked)] = by]

(* Record it and write it out.  A command that returns nothing is done     *)
(* when it is written, and stays outstanding.                              *)
SendReport ==
    LET n == Len(asked)
    IN  /\ worker = "drained"
        /\ pending' = n
        /\ IF ~alive
           THEN worker' = "ended" /\ Settle("gone", 0) /\ UNCHANGED owed
           ELSE IF asked[n].returns
           THEN worker' = "waiting" /\ owed' = Append(owed, n) /\ UNCHANGED replyVars
           ELSE worker' = "idle" /\ Settle("sent", 0) /\ UNCHANGED owed
        /\ UNCHANGED <<alive, arrived, read, asked, published>>

(* pump: read all that waits, once; what does not answer is published.     *)
Pump ==
    /\ worker = "waiting" /\ Waiting # {}
    /\ read' = Len(arrived)
    /\ published' = published \cup (Waiting \ Answering)
    /\ IF Answering = {}
       THEN UNCHANGED <<worker, pending, replyVars>>
       ELSE \E i \in Answering :
              /\ Settle(IF arrived[i].flagged THEN "refused" ELSE "matched", i)
              /\ pending' = 0
              /\ worker' = "idle"
    /\ UNCHANGED <<wireVars, asked>>

(* The time is up, whatever has arrived since the last look.               *)
Timeout ==
    /\ worker = "waiting"
    /\ Settle("timeout", 0)
    /\ worker' = "idle"
    /\ UNCHANGED <<wireVars, read, asked, pending, published>>

(* A read shows the interface gone: with nothing that answers, no reply is *)
(* coming.                                                                 *)
FoundGone ==
    /\ ~alive /\ Waiting = {}
    /\ \/ worker = "waiting" /\ Settle("gone", 0)
       \/ worker = "idle" /\ UNCHANGED replyVars
    /\ worker' = "ended"
    /\ UNCHANGED <<wireVars, read, asked, pending, published>>

ServeRequest == SendReport \/ Pump \/ Timeout \/ FoundGone

RequestsEnd ==
    /\ worker = "ended" \/ (worker = "idle" /\ Len(asked) = MaxRequests)
    /\ UNCHANGED requestVars

RequestsNext ==
    \/ \E kind \in {"reply", "ack", "refusal"} : Replies(kind)
    \/ NeverReplies \/ (\E x \in Selectors : SendsCyclic(x)) \/ Unplugged
    \/ DrainEvents \/ TakeRequest \/ ServeRequest \/ RequestsEnd

RequestsSpec == RequestsInit /\ [][RequestsNext]_requestVars

(* The worker's thread runs, and its time-out elapses.                     *)
RequestsFairSpec ==
    RequestsSpec /\ WF_requestVars(ServeRequest) /\ WF_requestVars(DrainEvents)

-----------------------------------------------------------------------------
(* Nothing read from an interface is dropped or told twice: each report    *)
(* has answered one request or been published (worker.rs, pump: "published *)
(* as device-initiated events rather than discarded").                     *)
EachReportOnce ==
    LET used == {answer[n] : n \in DOMAIN answer} \ {0}
    IN  /\ published \cap used = {}
        /\ published \cup used = 1 .. read
        /\ \A m, n \in DOMAIN answer : answer[m] = answer[n] /\ answer[m] # 0 => m = n

(* What had arrived before a request was taken never answers it (worker.rs *)
(* handle_request: "Discard stale inbound traffic before sending").        *)
StaleNeverAnswers == \A n \in DOMAIN answer : answer[n] # 0 => answer[n] > asked[n].seen

(* A request is given the reply to another only after one was given up at  *)
(* its time-out: that reply may be taken for the next one's, the next      *)
(* one's for the one after it, and so on, within one selector; a reply     *)
(* never answers a request sent before its own (correlation.rs).           *)
StraysFollowATimeout ==
    \A n \in DOMAIN answer :
        answer[n] # 0 =>
            LET m == arrived[answer[n]].of
            IN  m = n \/ /\ m < n /\ \E k \in 1 .. m : outcome[k] = "timeout"
                         /\ asked[m].ext2 = asked[n].ext2

(* The reply to a request that was given up is not taken for the next      *)
(* one's (correlation.rs, module documentation).                           *)
RepliesAreOwn == \A n \in DOMAIN answer : answer[n] # 0 => arrived[answer[n]].of = n

(* A request that is taken comes to an end: with a reply, a refusal, its   *)
(* time-out, or the loss of the interface (worker.rs, handle_request).     *)
RequestsSettle ==
    \A n \in 1 .. MaxRequests :
        (n <= Len(asked)) ~> (n <= Len(asked) /\ outcome[n] # "under way")

=============================================================================

------------------------------ MODULE MCServer ------------------------------
(***************************************************************************)
(* The server for TLC: the table of interfaces and its workers, one        *)
(* worker's requests, the packets of one interface, updating, the plan of  *)
(* a recall, a page's connection and the phones.                           *)
(* They share no state here, so a behaviour moves one of them while the    *)
(* others rest.                                                            *)
(***************************************************************************)
EXTENDS DeviceManager, DeviceRequests, Reassembly, Updates, RecallPlan, ClientCalls, RemotePhones

CONSTANT Parts      \* the parts that move

VARIABLE part

serverVars ==
    <<managerVars, requestVars, segmentVars, updateVars, recallVars, connectionVars,
      phonesVars, part>>

ServerTypeOK ==
    ManagerTypeOK /\ RequestsTypeOK /\ SegmentsTypeOK /\ UpdatesTypeOK
    /\ ClientTypeOK /\ PhonesTypeOK

ServerInit ==
    /\ part \in Parts
    /\ ManagerInit /\ (part # "table" => plugged = {})
    /\ RequestsInit /\ SegmentsInit
    /\ ClientInit /\ (part # "calls" => ~phone)
    /\ PhonesInit /\ kept.allow /\ (part # "phones" => kept.phones = {})
    /\ UpdatesInit /\ (part # "updates" => held = FALSE)
    /\ IF part = "recall" THEN RecallInit
       ELSE asking = <<>> /\ recorded = <<>> /\ current = <<>> /\ planning = Done /\ steps = <<>>

(* One part moves, and the others rest.                                    *)
OnlyTable == UNCHANGED <<requestVars, segmentVars, updateVars, recallVars, connectionVars,
                         phonesVars, part>>
OnlyRequests == UNCHANGED <<managerVars, segmentVars, updateVars, recallVars,
                            connectionVars, phonesVars, part>>
OnlyPackets == UNCHANGED <<managerVars, requestVars, updateVars, recallVars, connectionVars,
                           phonesVars, part>>
OnlyUpdates == UNCHANGED <<managerVars, requestVars, segmentVars, recallVars,
                           connectionVars, phonesVars, part>>
OnlyRecall == UNCHANGED <<managerVars, requestVars, segmentVars, updateVars, connectionVars,
                          phonesVars, part>>
OnlyCalls == UNCHANGED <<managerVars, requestVars, segmentVars, updateVars, recallVars,
                         phonesVars, part>>
OnlyPhones == UNCHANGED <<managerVars, requestVars, segmentVars, updateVars, recallVars,
                          connectionVars, part>>

ServerNext ==
    \/ part = "table" /\ ManagerNext /\ OnlyTable
    \/ part = "requests" /\ RequestsNext /\ OnlyRequests
    \/ part = "packets" /\ SegmentsNext /\ OnlyPackets
    \/ part = "updates" /\ UpdatesNext /\ OnlyUpdates
    \/ part = "recall" /\ RecallNext /\ OnlyRecall
    \/ part = "calls" /\ ClientNext /\ OnlyCalls
    \/ part = "phones" /\ PhonesNext /\ OnlyPhones

(* The fairness of ManagerFairSpec, RequestsFairSpec, ClientFairSpec  *)
(* and PhonesSpec, for the part that moves.                                *)
Busy(w) == part = "table" /\ w \in Workers /\ Work(w)
Due(i) == part = "calls" /\ i \in DOMAIN framed /\ CallTimesOut(i)

ServerSpec ==
    /\ ServerInit /\ [][ServerNext]_serverVars
    /\ WF_managerVars(part = "table" /\ Scan)
    /\ WF_managerVars(part = "table" /\ DetachEnds)
    /\ WF_managerVars(part = "table" /\ Quitting)
    /\ \A w \in 1 .. MaxWorkers : WF_managerVars(Busy(w))
    /\ \A r \in Requests : WF_managerVars(part = "table" /\ SendRequest(r))
    /\ WF_requestVars(part = "requests" /\ ServeRequest)
    /\ WF_requestVars(part = "requests" /\ DrainEvents)
    /\ \A i \in 1 .. Calls : WF_connectionVars(Due(i))
    /\ WF_connectionVars(part = "calls" /\ (Hello \/ DialFails))
    /\ WF_connectionVars(part = "calls" /\ RetryFires)
    /\ WF_phonesVars(part = "phones" /\ Works)
    /\ WF_phonesVars(part = "phones" /\ SocketsMove)

-----------------------------------------------------------------------------
(* What clients are told of the interfaces is what became of them: one     *)
(* worker serves each, each is told to have come and gone once, nothing of *)
(* one that went is remembered, and each report is told or taken once      *)
(* (device/manager.rs, device/worker.rs).  A phone that was told it is     *)
(* paired, or unpaired, is so after any restart, and the listener is as    *)
(* the setting says (remote/mod.rs).                                       *)
WhatIsToldIsSo ==
    /\ OneWorkerServes /\ ToldOnce /\ NothingOfThePast /\ EachReportOnce
    /\ PhonesAreKept

(* What answers a request is what came for it, as whole as it was sent, in *)
(* every case the protocol can tell apart (correlation.rs, framing.rs); on *)
(* the page each call is in one place, is sent once and in order, and is   *)
(* never left without a way back to the server (client.ts).                *)
AnswersAreTheirOwn ==
    /\ StaleNeverAnswers /\ StraysFollowATimeout /\ WholeMessagesArrive /\ MixedOnlyAcrossAGap
    /\ ClientIsConsistent

(* What a recall would send is quiet until everything is in place, and     *)
(* leaves the outputs as the snapshot had them (snapshot/plan.rs).         *)
RecallIsSafe == QuietThroughout /\ SilencedComesBack /\ QuieterFirst

(* What the server's threads begin they end: a request that is taken with  *)
(* a reply, a refusal, its time-out or the loss of the interface, one that *)
(* is handed to a worker whatever becomes of it, a change of the bus in    *)
(* the table, quitting, a page's call, whose connection is dialled for as  *)
(* long as it is wanted, and the socket of a phone that may no longer be   *)
(* connected.                                                              *)
ServerSettles ==
    /\ RequestsSettle /\ RequestsAreAnswered /\ TableFollowsBus /\ QuitEnds
    /\ CallsSettle /\ KeepsDialling /\ SessionsEnd

=============================================================================

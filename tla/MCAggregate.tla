---------------------------- MODULE MCAggregate ----------------------------
(***************************************************************************)
(* The aggregate driver for TLC: its status record, a ring between two     *)
(* callbacks, the callbacks themselves, the lining up of its interfaces,   *)
(* its configuration and its sample rate; and what the server does for it: *)
(* the setup it keeps and the alignment suite.  They share no state here,  *)
(* so a behaviour moves one of them while the others rest.                 *)
(***************************************************************************)
EXTENDS StatusRecord, AggregateRing, AggregateStream, AggregatePhase, AggregateReload, AggregateRate,
        StoredSetup, AlignmentSuite

CONSTANT Parts      \* the parts that move

VARIABLE part

aggregateVars ==
    <<part, recordVars, ringVars, streamVars, phaseVars, reloadVars, rateVars, setupVars, suiteVars>>

SomePaths == [f \in Followers |-> IF f = "quadro" THEN 3 ELSE 5]

AggregateInit ==
    /\ part \in Parts
    /\ RecordInit /\ RingInit /\ StreamInit /\ PhaseInit /\ ReloadInit /\ RateInit
    /\ StoredInit /\ SuiteInit
    /\ part # "phase" => how = [f \in Followers |-> "line up"]
    /\ part # "rate" => at = [i \in Devices |-> 48]

AggregateNext ==
    \/ part = "record" /\ RecordNext
       /\ UNCHANGED <<part, ringVars, streamVars, phaseVars, reloadVars, rateVars, setupVars, suiteVars>>
    \/ part = "ring" /\ RingNext
       /\ UNCHANGED <<part, recordVars, streamVars, phaseVars, reloadVars, rateVars, setupVars, suiteVars>>
    \/ part = "stream" /\ StreamNext
       /\ UNCHANGED <<part, recordVars, ringVars, phaseVars, reloadVars, rateVars, setupVars, suiteVars>>
    \/ part = "phase" /\ PhaseNext
       /\ UNCHANGED <<part, recordVars, ringVars, streamVars, reloadVars, rateVars, setupVars, suiteVars>>
    \/ part = "reload" /\ ReloadNext
       /\ UNCHANGED <<part, recordVars, ringVars, streamVars, phaseVars, rateVars, setupVars, suiteVars>>
    \/ part = "rate" /\ RateNext
       /\ UNCHANGED <<part, recordVars, ringVars, streamVars, phaseVars, reloadVars, setupVars, suiteVars>>
    \/ part = "store" /\ StoredNext
       /\ UNCHANGED <<part, recordVars, ringVars, streamVars, phaseVars, reloadVars, rateVars, suiteVars>>
    \/ part = "suite" /\ SuiteNext
       /\ UNCHANGED <<part, recordVars, ringVars, streamVars, phaseVars, reloadVars, rateVars, setupVars>>

AggregateSpec == AggregateInit /\ [][AggregateNext]_aggregateVars

(* The fairness of FairReloadSpec and StoredFairSpec, for the part that    *)
(* moves.                                                                  *)
AggregateFairSpec ==
    /\ AggregateSpec
    /\ WF_reloadVars(part = "reload" /\ Watcher)
    /\ WF_reloadVars(part = "reload" /\ Signal)
    /\ WF_reloadVars(part = "reload" /\ (InitBegins \/ InitOpens))
    /\ WF_reloadVars(part = "reload" /\ WatchBegins)
    /\ WF_reloadVars(part = "reload" /\ Drop)
    /\ WF_setupVars(part = "store" /\ HolderWorks)
    /\ WF_setupVars(part = "store" /\ FollowerLoops)
    /\ WF_suiteVars(part = "suite" /\ Suite)

-----------------------------------------------------------------------------
(* A reload changes nothing under a DAW that has the buffers, and the      *)
(* watcher has ended before what it reaches is dropped (watch.rs, com.rs); *)
(* the files it is made from are whole and current, and nothing that was   *)
(* edited or known is put back (export.rs).                                *)
SetupIsSafe == HeldPlanStays /\ []WatcherIsJoined /\ []StoredIsSafe

(* What Gazelle asks a watched driver for is answered, and a driver that   *)
(* is let go of goes (watch.rs, com.rs); the file it reads comes to follow *)
(* the interfaces (export.rs, follow.rs), and an alignment suite ends      *)
(* (suite.rs).                                                             *)
SetupSettles == WatchedIsAnswered /\ ReleaseEnds /\ FileFollows /\ SuiteEnds

AggregateTypeOK ==
    RecordTypeOK /\ RingTypeOK /\ StreamTypeOK /\ PhaseTypeOK /\ ReloadTypeOK /\ RateTypeOK
    /\ StoredTypeOK /\ SuiteTypeOK

=============================================================================

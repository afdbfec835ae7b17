------------------------------- MODULE MCRing -------------------------------
(***************************************************************************)
(* The strengthening the ring's proofs rest on and the timeline of takes   *)
(* it implements, checked together.                                        *)
(***************************************************************************)
EXTENDS CaptureRingInv, CaptureRingTimeline

=============================================================================

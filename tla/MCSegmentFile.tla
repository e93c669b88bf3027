---------------------------- MODULE MCSegmentFile ----------------------------
(***************************************************************************)
(* The instance of SegmentFile that TLC checks.                            *)
(***************************************************************************)
EXTENDS SegmentFile
=============================================================================

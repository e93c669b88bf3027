--------------------------- MODULE MCSegmentIndex ---------------------------
(***************************************************************************)
(* The instance of SegmentIndex that TLC checks.  The three distances are  *)
(* in the order of the code's 300, 5000 and 10000 ms.                      *)
(***************************************************************************)
EXTENDS SegmentIndex

PtsRange == {0, 2, 5, 8}
=============================================================================

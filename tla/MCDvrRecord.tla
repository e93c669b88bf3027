---------------------------- MODULE MCDvrRecord ----------------------------
(***************************************************************************)
(* DvrRecord with three segments, four blocks, and one record thread more  *)
(* than it takes to meet a joined one; the events that ask for a next      *)
(* segment come in time or after a pause or a stop.                        *)
(***************************************************************************)
EXTENDS DvrRecord
=============================================================================

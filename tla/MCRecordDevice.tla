--------------------------- MODULE MCRecordDevice ---------------------------
(***************************************************************************)
(* The instance of RecordDevice that TLC checks: the two usable contexts,  *)
(* tables of two slots, two descriptors, so that they run out.             *)
(***************************************************************************)
EXTENDS RecordDevice, TLC

\* Nothing tells the pids apart, nor the frontends.  Without Clone the demux
\* of a device decides nothing, and one is enough.
Symmetry == Permutations(Pids) \cup Permutations(Sources)
=============================================================================

----------------------------- MODULE MCDvrTrick -----------------------------
\* The commands of the player: one fast speed of the decoder, forward and
\* backward moves, two audio pids.
EXTENDS DvrTrick
=============================================================================

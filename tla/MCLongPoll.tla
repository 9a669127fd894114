----------------------------- MODULE MCLongPoll -----------------------------
(* An instance of LongPoll for TLC: two members that watch one pool.       *)
EXTENDS LongPoll

CONSTANTS c1, c2
=============================================================================

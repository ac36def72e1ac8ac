---------------------------- MODULE MCRingBuffer ----------------------------
(***************************************************************************)
(* Instance of RingBuffer for TLC.  IndexRange = 3N makes both counters    *)
(* wrap many times; two items tell a reordered or repeated element apart.  *)
(***************************************************************************)
EXTENDS RingBuffer
=============================================================================

---------------------------- MODULE MCWriterLock ----------------------------
(***************************************************************************)
(* Instances of WriterLock for TLC: a writer that dies and two processes   *)
(* that want the lock it left are the smallest that race.                  *)
(***************************************************************************)
EXTENDS WriterLock
=============================================================================

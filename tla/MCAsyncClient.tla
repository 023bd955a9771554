--------------------------- MODULE MCAsyncClient ---------------------------
(***************************************************************************)
(* AsyncClient for TLC: two compilations on two threads, each of which may *)
(* leave the other waiting in the queue.                                   *)
(***************************************************************************)
EXTENDS AsyncClient
=============================================================================

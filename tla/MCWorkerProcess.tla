--------------------------- MODULE MCWorkerProcess ---------------------------
(* Constants of the TLC run of WorkerProcess. *)
EXTENDS WorkerProcess, TLC

CONSTANTS g1, g2, scheduler, dispatcher

===============================================================================

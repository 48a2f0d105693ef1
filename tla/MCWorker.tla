------------------------------ MODULE MCWorker ------------------------------
(* The worker protocol for TLC; Worker.cfg gives the constants.             *)
EXTENDS Worker
=============================================================================

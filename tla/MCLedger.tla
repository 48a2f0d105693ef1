------------------------------ MODULE MCLedger ------------------------------
(* Instances of Ledger for TLC.  Tickets are interchangeable.              *)
EXTENDS Ledger, TLC

TicketSymmetry == Permutations(Tickets)

=============================================================================

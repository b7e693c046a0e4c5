------------------------------- MODULE MCDesk -------------------------------
(* Small instances of Desk for TLC: names are numbers, taken in order.     *)
EXTENDS Desk, TLC
=============================================================================

----------------------------- MODULE MCProcess -----------------------------
(***************************************************************************)
(* Values of Wiring's constants.                                           *)
(***************************************************************************)
EXTENDS Wiring

MCHolders == Searches \cup Attempts

=============================================================================

---------------------------- MODULE MCInstrument ----------------------------
(* A small instance of Instrument for TLC. *)
EXTENDS Instrument
=============================================================================

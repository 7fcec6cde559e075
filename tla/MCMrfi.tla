------------------------------- MODULE MCMrfi -------------------------------
(* An instance of Mrfi for TLC: one retry, two units of delay, frames of    *)
(* every kind.                                                              *)
EXTENDS Mrfi

MCKinds == {"good", "crc", "length", "near", "foreign"}
=============================================================================

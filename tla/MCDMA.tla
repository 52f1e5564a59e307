------------------------------- MODULE MCDMA -------------------------------
(* A small machine for DMA and its timing: two pages of two bytes, samples *)
(* of one or two bytes and output cycles of a few CPU cycles, so that      *)
(* several DMC fetches fall in one OAM transfer.                           *)
EXTENDS DMATiming
=============================================================================

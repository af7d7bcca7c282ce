--------------------------- MODULE MCRecordLayer ----------------------------
(***************************************************************************)
(* A window of five bits in words of two, so that it spans three words    *)
(* and the last word has an unused bit, and packet numbers that can move  *)
(* the window by less than, exactly and more than its width.              *)
(***************************************************************************)
EXTENDS RecordLayer

MCPacketNumbers == 0 .. MaxPacketNumber
=============================================================================

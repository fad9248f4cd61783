------------------------------- MODULE MCAdbLoop -------------------------------
(* Small instances of AdbLoop for TLC. *)
EXTENDS AdbLoop, TLC
=============================================================================

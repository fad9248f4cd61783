----------------------------- MODULE MCAdbSession -----------------------------
(* Small instances of AdbSession for TLC. *)
EXTENDS AdbSession, TLC

\* Transport threads and tablets are interchangeable.
Symmetry == Permutations(Callers) \cup Permutations(Devices)
=============================================================================

----------------------------- MODULE MCLeasePoll -----------------------------
(* Small instances of LeasePoll for TLC. *)
EXTENDS LeasePoll, TLC

CONSTANTS s1, s2

\* The slots are interchangeable.
SlotSymmetry == Permutations({s1, s2})
=============================================================================

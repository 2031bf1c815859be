--------------------------- MODULE MCWorkLauncher ---------------------------
(* Instances of WorkLauncher for TLC. *)
EXTENDS WorkLauncher

CONSTANTS s1, s2

Two   == {s1, s2}
One   == {s1}
=============================================================================

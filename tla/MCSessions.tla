------------------------------ MODULE MCSessions ------------------------------
(* Small instances of Sessions for TLC. *)
EXTENDS Sessions, TLC

CONSTANTS ada, bob, s1, s2, s3, q1, q2

(* Neither two roles nor two tabs differ in anything but their names. *)
Symmetry == Permutations(Roles) \cup Permutations(Sockets)
=============================================================================

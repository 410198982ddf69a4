---------------------------- MODULE MCChatServer ----------------------------
(* Instances of ChatServer for TLC.                                        *)
EXTENDS ChatServer, TLC

CONSTANTS c1, c2, c3, p1, p2, p3

\* The addresses malloc returns are interchangeable.
PtrSymmetry == Permutations(Ptrs)

TwoCIDs  == {3, 7}
=============================================================================

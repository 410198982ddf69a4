----------------------------- MODULE MCJavaChat -----------------------------
(* An instance of JavaChat for TLC.                                         *)
EXTENDS JavaChat, TLC

CONSTANTS c1, c2, c3

\* The last two clients come from two hosts and have the same port.
SharedPort == (c1 :> 1) @@ (c2 :> 2) @@ (c3 :> 2)

\* Three lines of one client, of which one could be missed; one of another.
ThreeAndOne == (c1 :> 3) @@ (c2 :> 1) @@ (c3 :> 0)
=============================================================================

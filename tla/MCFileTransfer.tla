--------------------------- MODULE MCFileTransfer ---------------------------
(* Instances of FileTransfer for TLC.                                       *)
EXTENDS FileTransfer

CONSTANTS c1, c2, c3

MCChars == {"a", "b", "d", "n", "p", "u"}

Up == <<"u", "p">>
Dn == <<"d", "n">>
AB == <<"a", "b">>
A  == <<"a">>

\* Two uploads of one name, more than a block and less than one; a download.
UsualOp    == (c1 :> Up) @@ (c2 :> Up) @@ (c3 :> Dn)
UsualName  == (c1 :> AB) @@ (c2 :> AB) @@ (c3 :> AB)
UsualLocal == (c1 :> <<"a", "b", "d", "p">>) @@ (c2 :> <<"n">>) @@ (c3 :> A)
UsualFiles == (AB :> <<"d", "d">>) @@ (<<"a", "n">> :> <<"b">>)
=============================================================================

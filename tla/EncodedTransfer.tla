--------------------------- MODULE EncodedTransfer ---------------------------
(***************************************************************************)
(* The encoded file transfer A3: h2/client.c reads lines of text, writes   *)
(* every character as a number into a file, and sends the size of the file *)
(* in a block of 1024 bytes and then the file.  h1/server.c takes the size *)
(* with one recv(), the file with further ones, and decodes the numbers.   *)
(*                                                                         *)
(* A stream has no message boundaries: the first recv() may return a part  *)
(* of the block, or the block and the beginning of the file.               *)
(*                                                                         *)
(* A character is its word.  A number is a first and a second part of its  *)
(* digits; either read without the other is another number, or a sign on   *)
(* its own.  The block is the digits of the size, which arrive in one      *)
(* piece, the zero that ends them, and memory that was never written: what *)
(* the server finds in it, if the first recv() leaves some of it in the    *)
(* stream, is chosen when it is scanned.                                   *)
(***************************************************************************)
EXTENDS Rotate, Sequences, FiniteSets, FiniteSetsExt, SequencesExt

CONSTANTS
  SENTENCE,    \* lines the client reads, 10
  Sources,     \* what sen.txt may hold: sequences of lines
  Unread,      \* what a line that was not read may hold
  BLOCK,       \* bytes of the block, the digits counted as one: below 1024
  BUFSIZ,      \* bytes one recv() or sendfile() moves, 8192
  SPACE, SIZE, NUL, UNWRITTEN, CUT

Lines == Seq(Chars)
Digits == [of : Word, part : {1, 2}]
Bytes == Digits \cup {SPACE, SIZE, NUL, UNWRITTEN}

ASSUME TransferAssumption ==
  /\ SENTENCE \in Nat /\ BUFSIZ \in Nat
  /\ BLOCK \in 2..BUFSIZ
  /\ Sources \subseteq Seq(Lines) /\ Unread \subseteq Lines

\* The kinds of bytes differ.
ASSUME ByteAssumption ==
  /\ \A token \in {SPACE, SIZE, NUL, UNWRITTEN} : token \notin Digits
  /\ SPACE \notin {SIZE, NUL, UNWRITTEN} /\ SIZE \notin {NUL, UNWRITTEN} /\ NUL # UNWRITTEN

VARIABLES
  source, arr,          \* client: sen.txt, the lines in memory
  encrypted, offset,    \* its file, the bytes of it that were sent
  cpc, wire, rst,       \* the connection
  spc, remain_data, received, decoded, \* server
  header                \* history: bytes the first recv() returned

vars == <<source, arr, encrypted, offset, cpc, wire, rst,
          spc, remain_data, received, decoded, header>>

clientVars == <<source, arr, encrypted, offset>>
serverVars == <<spc, remain_data, received, decoded, header>>

-----------------------------------------------------------------------------
(* client.c                                                                *)

Number(n) == <<[of |-> n, part |-> 1], [of |-> n, part |-> 2]>>

EncodedLine(line) ==
  FlattenSeq([j \in DOMAIN line |-> Append(Number(encode(line[j], KEY)), SPACE)])

\* The encrypted file; the end of a line is one more separator.
Encrypted == FlattenSeq([i \in 1..SENTENCE |-> Append(EncodedLine(arr[i]), SPACE)])

\* The block with the size.
file_size == <<SIZE, NUL>> \o [i \in 1..BLOCK - 2 |-> UNWRITTEN]

Left == Len(encrypted) - offset

Init ==
  /\ source \in Sources
  /\ arr \in { [i \in 1..SENTENCE |-> IF i <= Len(source) THEN source[i] ELSE u] : u \in Unread }
  /\ encrypted = <<>>
  /\ offset = 0
  /\ cpc = "start"
  /\ wire = <<>>
  /\ rst = FALSE
  /\ spc = "accept"
  /\ remain_data = 0
  /\ received = <<>>
  /\ decoded = <<>>
  /\ header = 0

Over == {"closed", "killed"}

\* Once connected, the client writes its file.
Connect ==
  /\ cpc = "start"
  /\ cpc' = "connected"
  /\ encrypted' = Encrypted
  /\ UNCHANGED <<source, arr, offset, wire, rst, serverVars>>

SendSize ==
  /\ cpc = "connected"
  /\ cpc' = "sending"
  /\ wire' = wire \o file_size
  /\ UNCHANGED <<clientVars, rst, serverVars>>

Closed == spc \in {"decode", "ended"}

Piece == { n \in 1..BUFSIZ : n <= Left }

\* Mutant: offset is 0 again for every piece.
PartMutant(n) == SubSeq(encrypted, 1, n)
Part(n) == SubSeq(encrypted, offset + 1, Min({offset + n, Len(encrypted)}))

\* One sendfile(): lost when the server has closed, whose kernel then resets.
SendPiece ==
  /\ cpc = "sending" /\ ~rst
  /\ \E n \in Piece :
       /\ offset' = offset + n
       /\ wire' = IF Closed THEN wire ELSE wire \o Part(n)
  /\ rst' = Closed
  /\ UNCHANGED <<source, arr, encrypted, cpc, serverVars>>

Sent == Left <= 0 \/ rst

\* sendfile() finds the end of the file or fails.
CloseClient ==
  /\ cpc = "sending" /\ Sent
  /\ cpc' = "closed"
  /\ UNCHANGED <<clientVars, wire, rst, serverVars>>

\* The user ends the client, or SIGPIPE when the server has gone.
Kill ==
  /\ cpc \in {"connected", "sending"}
  /\ cpc' = "killed"
  /\ UNCHANGED <<clientVars, wire, rst, serverVars>>

-----------------------------------------------------------------------------
(* server.c                                                                *)

Accept ==
  /\ spc = "accept" /\ cpc # "start"
  /\ spc' = "size"
  /\ UNCHANGED <<clientVars, cpc, wire, rst, remain_data, received, decoded, header>>

AtEnd == wire = <<>> /\ cpc \in Over

Taken == { n \in 1..BUFSIZ : n <= Len(wire) }

\* The digits without the zero are read on into the rest of the buffer.
SizesRead(n) == LET s == Len(encrypted) IN IF n = 1 THEN {s, 10 * s} ELSE {s}

\* At the end of the stream the size is what the buffer held before.
RecvSize ==
  /\ spc = "size"
  /\ \/ \E n \in Taken :
          /\ remain_data' \in SizesRead(n)
          /\ wire' = SubSeq(wire, n + 1, Len(wire))
          /\ header' = n
     \/ /\ AtEnd
        /\ remain_data' \in {0, 1}
        /\ UNCHANGED <<wire, header>>
  /\ spc' = "data"
  /\ UNCHANGED <<clientVars, cpc, rst, received, decoded>>

RecvData ==
  /\ spc = "data" /\ remain_data > 0
  /\ \E n \in Taken :
       /\ received' = received \o SubSeq(wire, 1, n)
       /\ remain_data' = remain_data - n
       /\ wire' = SubSeq(wire, n + 1, Len(wire))
  /\ UNCHANGED <<clientVars, cpc, rst, spc, decoded, header>>

\* Mutant: only the number of bytes ends the loop.
HasAllMutant == remain_data <= 0
HasAll == remain_data <= 0 \/ AtEnd

\* What is left unread makes the kernel reset the connection.
CloseServer ==
  /\ spc = "data" /\ HasAll
  /\ spc' = "decode"
  /\ rst' = (wire # <<>>)
  /\ UNCHANGED <<clientVars, cpc, wire, remain_data, received, decoded, header>>

\* The char of digits that were read as one number; CUT is any char, or none.
Decoded(digits) ==
  LET n == digits[1].of IN
  IF digits = Number(n) THEN AsChar(decode(n, KEY)) ELSE CUT

\* How much memory that was never written the server has stored, and the bytes
\* of the file behind it.
Unwritten == Cardinality({ i \in DOMAIN received : received[i] = UNWRITTEN })
Readable == SubSeq(received, Unwritten + 1, Len(received))

\* The numbers of the file, from the first of their digits to the last.
Scanned ==
  LET r == Readable
      firsts == { i \in DOMAIN r : r[i] # SPACE /\ (i = 1 \/ r[i-1] = SPACE) }
      lasts == { i \in DOMAIN r : r[i] # SPACE /\ (i = Len(r) \/ r[i+1] = SPACE) }
      Nth(S, j) == CHOOSE i \in S : Cardinality({ k \in S : k <= i }) = j
  IN [j \in 1..Cardinality(firsts) |-> Decoded(SubSeq(r, Nth(firsts, j), Nth(lasts, j)))]

\* Numbers found in memory that was never written, and a text whose first number
\* goes on from digits found there.
Invented(m) == [k \in 1..m |-> CUT]
RunInto(text) == [k \in DOMAIN text |-> IF k = 1 THEN CUT ELSE text[k]]

\* fscanf() stops at a byte that can belong to no number, as the zero in the
\* block.  Memory that was never written may hold such a byte, or numbers, no
\* more than bytes, one of which the first number of the file may continue.
Scannings ==
  IF received # <<>> /\ received[1] = NUL THEN {<<>>}
  ELSE IF Unwritten = 0 THEN {Scanned}
  ELSE { Invented(m) \o t : m \in 0..Unwritten, t \in {<<>>, Scanned, RunInto(Scanned)} }

DecodeFile ==
  /\ spc = "decode"
  /\ decoded' \in Scannings
  /\ spc' = "ended"
  /\ UNCHANGED <<clientVars, cpc, wire, rst, remain_data, received, header>>

-----------------------------------------------------------------------------
Client == Connect \/ SendSize \/ SendPiece \/ CloseClient
Server == Accept \/ RecvSize \/ RecvData \/ CloseServer \/ DecodeFile

Next == Client \/ Kill \/ Server

Spec == Init /\ [][Next]_vars

\* Both programs run, and none waits for a user.
FairSpec == Spec /\ WF_vars(Client) /\ WF_vars(Server)

-----------------------------------------------------------------------------
\* Every variable has its type: the client sends no more than its file, and
\* the server counts no more below zero than there is behind the size.
TypeOK ==
  /\ source \in Sources
  /\ DOMAIN arr = 1..SENTENCE
  /\ encrypted \in Seq(Bytes)
  /\ offset \in 0..Len(encrypted)
  /\ cpc \in {"start", "connected", "sending"} \cup Over
  /\ wire \in Seq(Bytes)
  /\ rst \in BOOLEAN
  /\ spc \in {"accept", "size", "data", "decode", "ended"}
  /\ remain_data \in 1 - BLOCK..10 * Len(encrypted) + 1
  /\ received \in Seq(Bytes)
  /\ decoded \in Seq(Word \cup {CUT})
  /\ header \in 0..BUFSIZ

\* What the client shows, with every char as it comes out of the rotation.
Expected == FlattenSeq([i \in 1..SENTENCE |-> [j \in DOMAIN arr[i] |-> Rotated(arr[i][j])]])

\* If the first recv() takes the block alone, the whole text is decoded, or, of
\* a client that was ended, its beginning, of which the last may be wrong.
DecodedExact ==
  spc = "ended" /\ header = Len(file_size) =>
    LET e == Expected IN
    \/ decoded = e
    \/ /\ cpc = "killed"
       /\ \/ IsPrefix(decoded, e)
          \/ decoded[Len(decoded)] = CUT /\ IsPrefix(Front(decoded), e)

\* However the stream is cut, what is decoded is one piece of the text, at most
\* its two ends wrong, behind no more chars than the server has stored bytes of
\* memory that was never written.
NothingInvented ==
  LET e == Expected IN
  \E m \in 0..Unwritten :
    LET d == SubSeq(decoded, m + 1, Len(decoded))
        whole == { k \in DOMAIN d : ~(k \in {1, Len(d)} /\ d[k] = CUT) }
    IN \E i \in -1..Len(e) :
         \A k \in whole : i + k \in DOMAIN e /\ d[k] = e[i + k]

\* What is stored and decoded is a piece of what was sent, each byte once, but
\* for what the block holds behind its zero.
PieceOfText == TypeOK /\ NothingInvented

\* The server comes to an end once a client has connected.
ServerEnds == cpc = "connected" ~> spc = "ended"

\* So does the client, whether or not the server takes what it sends.
ClientEnds == cpc = "connected" ~> cpc \in Over

\* Both programs come to an end.
BothEnd == ServerEnds /\ ClientEnds
=============================================================================

------------------------- MODULE FileTransferProofs -------------------------
(***************************************************************************)
(* What TLAPS proves of FileTransfer, for any clients, names, files and    *)
(* sizes of records, of connections and of stdio buffers.                  *)
(***************************************************************************)
EXTENDS FileTransfer, SequenceTheorems, WellFoundedInduction, TLAPS

USE DEF clientVars, connVars, mainVars, fileVars

-----------------------------------------------------------------------------
(* Lemmas about sequences.                                                 *)

\* A front and what is behind it.
LEMMA Split ==
  ASSUME NEW S, NEW s \in Seq(S), NEW k \in 0..Len(s)
  PROVE  /\ Front1(s, k) \in Seq(S) /\ Len(Front1(s, k)) = k
         /\ Behind(s, k) \in Seq(S) /\ Len(Behind(s, k)) = Len(s) - k
         /\ \A j \in 1..k : Front1(s, k)[j] = s[j]
         /\ \A j \in 1..(Len(s) - k) : Behind(s, k)[j] = s[k + j]
         /\ Front1(s, k) \o Behind(s, k) = s
  <1>1. Len(s) \in Nat /\ \A i \in 1..Len(s) : s[i] \in S
    OBVIOUS
  <1>2. /\ Front1(s, k) \in Seq(S) /\ Len(Front1(s, k)) = k
        /\ \A j \in 1..k : Front1(s, k)[j] = s[j]
    <2>1. /\ SubSeq(s, 1, k) \in Seq(S) /\ Len(SubSeq(s, 1, k)) = IF 1 <= k THEN k - 1 + 1 ELSE 0
          /\ \A i \in 1..(k - 1 + 1) : SubSeq(s, 1, k)[i] = s[1 + i - 1]
      BY <1>1, SubSeqProperties
    <2> QED BY <1>1, <2>1 DEF Front1
  <1>3. /\ Behind(s, k) \in Seq(S) /\ Len(Behind(s, k)) = Len(s) - k
        /\ \A j \in 1..(Len(s) - k) : Behind(s, k)[j] = s[k + j]
    <2>1. /\ SubSeq(s, k + 1, Len(s)) \in Seq(S)
          /\ Len(SubSeq(s, k + 1, Len(s))) =
               IF k + 1 <= Len(s) THEN Len(s) - (k + 1) + 1 ELSE 0
          /\ \A i \in 1..(Len(s) - (k + 1) + 1) :
               SubSeq(s, k + 1, Len(s))[i] = s[(k + 1) + i - 1]
      BY <1>1, SubSeqProperties
    <2> QED BY <1>1, <2>1 DEF Behind
  <1>4. Front1(s, k) \o Behind(s, k) = s
    <2>1. 1 \in 1..(Len(s) + 1) /\ k \in (1 - 1)..Len(s) /\ Len(s) \in k..Len(s)
      BY <1>1
    <2>2. SubSeq(s, 1, k) \o SubSeq(s, k + 1, Len(s)) = SubSeq(s, 1, Len(s))
      BY <2>1, ConcatAdjacentSubSeq
    <2> QED BY <2>2, SubSeqFull DEF Front1, Behind
  <1> QED BY <1>2, <1>3, <1>4

\* Texts are bytes.
LEMMA TextBytes == ASSUME NEW s \in Text PROVE s \in Seq(Bytes)
  BY SeqMonotonic DEF Text, Bytes

\* Two sequences, one behind the other.
LEMMA Joined ==
  ASSUME NEW S, NEW s \in Seq(S), NEW t \in Seq(S)
  PROVE  /\ s \o t \in Seq(S) /\ Len(s \o t) = Len(s) + Len(t)
         /\ Len(s) \in Nat /\ Len(t) \in Nat
         /\ \A i \in 1..Len(s) : (s \o t)[i] = s[i]
         /\ \A i \in 1..Len(t) : (s \o t)[Len(s) + i] = t[i]
  <1>1. /\ s \o t \in Seq(S) /\ Len(s \o t) = Len(s) + Len(t)
        /\ \A i \in 1..(Len(s) + Len(t)) :
             (s \o t)[i] = IF i <= Len(s) THEN s[i] ELSE t[i - Len(s)]
    BY ConcatProperties
  <1>2. Len(s) \in Nat /\ Len(t) \in Nat
    OBVIOUS
  <1> QED BY <1>1, <1>2

\* Three sequences, one behind the other.
LEMMA ThreeJoined ==
  ASSUME NEW S, NEW r \in Seq(S), NEW a \in Seq(S), NEW b \in Seq(S)
  PROVE  (r \o a) \o b = r \o (a \o b)
  BY ConcatAssociative, SMT

\* A front that passes over from one sequence to another.
LEMMA Passed ==
  ASSUME NEW S, NEW r \in Seq(S), NEW s \in Seq(S), NEW k \in 0..Len(s)
  PROVE  (r \o Front1(s, k)) \o Behind(s, k) = r \o s
  <1>1. \A a, b \in Seq(S) : (r \o a) \o b = r \o (a \o b)
    BY ThreeJoined, SMT
  <1>2. /\ Front1(s, k) \in Seq(S) /\ Behind(s, k) \in Seq(S)
        /\ Front1(s, k) \o Behind(s, k) = s
    BY Split
  <1>3. PICK a, b \in Seq(S) : a = Front1(s, k) /\ b = Behind(s, k)
    BY <1>2, Zenon
  <1>4. a \o b = s
    BY <1>2, <1>3
  <1>5. (r \o a) \o b = r \o s
    BY <1>1, <1>4
  <1> QED BY <1>3, <1>5

\* A sequence another one starts with.
LEMMA PrefixIs ==
  ASSUME NEW S, NEW s \in Seq(S), NEW f \in Seq(S), Len(s) <= Len(f),
         \A i \in 1..Len(s) : s[i] = f[i]
  PROVE  IsPrefix(s, f)
  <1>1. Len(s) \in Nat /\ Len(f) \in Nat /\ Len(s) \in 0..Len(s) /\ Len(s) \in 0..Len(f)
    OBVIOUS
  <1>2. PICK n \in Nat : n = Len(s)
    BY <1>1
  <1>3. /\ Front1(s, n) \in Seq(S) /\ Len(Front1(s, n)) = n
        /\ \A j \in 1..n : Front1(s, n)[j] = s[j]
    BY <1>1, <1>2, Split
  <1>4. /\ Front1(f, n) \in Seq(S) /\ Len(Front1(f, n)) = n
        /\ \A j \in 1..n : Front1(f, n)[j] = f[j]
    BY <1>1, <1>2, Split
  <1>5. \A j \in 1..n : Front1(s, n)[j] = Front1(f, n)[j]
    BY <1>2, <1>3, <1>4
  <1>6. Front1(s, n) = Front1(f, n)
    BY <1>3, <1>4, <1>5, SeqEqual
  <1> QED BY <1>2, <1>6 DEF IsPrefix, Front1

\* A set of natural numbers that is not empty has a least element.
LEMMA LeastNumber ==
  ASSUME NEW T \in SUBSET Nat, T # {}
  PROVE  \E m \in T : \A k \in T : m <= k
  <1> DEFINE R == OpToRel(<, Nat)
  <1>1. IsWellFoundedOn(R, Nat)
    BY NatLessThanWellFounded
  <1>2. \A x, y \in Nat : x < y => <<x, y>> \in R
    BY DEF OpToRel
  <1> HIDE DEF R
  <1>3. PICK x \in T : \A y \in T : ~ (<<y, x>> \in R)
    BY <1>1, WFMin
  <1>4. \A y \in T : ~ (y < x)
    BY <1>2, <1>3
  <1>5. \A y \in T : x <= y
    BY <1>4
  <1> QED BY <1>5

-----------------------------------------------------------------------------
(* Lemmas about the operators of the model.                                *)

\* The smaller of two numbers.
LEMMA LeastRange ==
  ASSUME NEW m \in Nat, NEW n \in Nat
  PROVE  Least(m, n) \in Nat /\ Least(m, n) <= m /\ Least(m, n) <= n
         /\ (Least(m, n) = m \/ Least(m, n) = n)
  BY DEF Least

\* A buffer is full of bytes.
LEMMA PaddedBytes ==
  ASSUME NEW s \in Seq(Bytes)
  PROVE  Padded(s) \in Seq(Bytes) /\ Len(Padded(s)) = BUFFSIZE
         /\ \A k \in 1..BUFFSIZE : Padded(s)[k] = IF k <= Len(s) THEN s[k] ELSE ZERO
  <1>1. \A k \in 1..BUFFSIZE : (IF k <= Len(s) THEN s[k] ELSE ZERO) \in Bytes
    BY DEF Bytes
  <1>2. BUFFSIZE \in Nat
    BY TransferAssumption
  <1> QED BY <1>1, <1>2 DEF Padded

\* So it is with something copied over its beginning.
LEMMA OverBytes ==
  ASSUME NEW s \in Seq(Bytes), NEW b \in Seq(Bytes), Len(b) = BUFFSIZE
  PROVE  Over(s, b) \in Seq(Bytes) /\ Len(Over(s, b)) = BUFFSIZE
         /\ \A k \in 1..BUFFSIZE : Over(s, b)[k] = IF k <= Len(s) THEN s[k] ELSE b[k]
  <1>1. \A k \in 1..BUFFSIZE : (IF k <= Len(s) THEN s[k] ELSE b[k]) \in Bytes
    OBVIOUS
  <1>2. BUFFSIZE \in Nat
    BY TransferAssumption
  <1> QED BY <1>1, <1>2 DEF Over

\* n bytes of a buffer are its string.
IsString(b, n) == /\ \A k \in 1..n : b[k] # ZERO
                  /\ n = Len(b) \/ b[n + 1] = ZERO

\* Every buffer holds one string.
LEMMA StringLength ==
  ASSUME NEW b \in Seq(Bytes)
  PROVE  \E n \in 0..Len(b) : IsString(b, n) /\ \A m \in 0..Len(b) : IsString(b, m) => m = n
  <1> DEFINE zeros == {k \in 1..Len(b) : b[k] = ZERO}
  <1>1. Len(b) \in Nat
    OBVIOUS
  <1>2. \A n, m \in 0..Len(b) : IsString(b, n) /\ IsString(b, m) => ~(m < n)
    BY <1>1 DEF IsString
  <1>3. CASE zeros = {}
    BY <1>1, <1>2, <1>3 DEF IsString
  <1>4. CASE zeros # {}
    <2>1. zeros \in SUBSET Nat
      BY <1>1
    <2>2. PICK z \in zeros : \A k \in zeros : z <= k
      <3> HIDE DEF zeros
      <3> QED BY <1>4, <2>1, LeastNumber
    <2>3. z - 1 \in 0..Len(b) /\ IsString(b, z - 1)
      BY <1>1, <2>2 DEF IsString
    <2> QED BY <1>1, <1>2, <2>3
  <1> QED BY <1>3, <1>4

\* The string in a buffer is a text that fits into it.
LEMMA StringText ==
  ASSUME NEW b \in Seq(Bytes)
  PROVE  StringIn(b) \in Text /\ Len(StringIn(b)) <= Len(b)
  <1>1. PICK n \in 0..Len(b) : n = CHOOSE m \in 0..Len(b) : /\ \A k \in 1..m : b[k] # ZERO
                                                            /\ m = Len(b) \/ b[m + 1] = ZERO
    BY StringLength DEF IsString
  <1>2. IsString(b, n)
    BY <1>1, StringLength DEF IsString
  <1>3. \A k \in 1..n : b[k] \in Chars
    BY <1>2 DEF IsString, Bytes
  <1>4. SubSeq(b, 1, n) \in Seq(Chars) /\ Len(SubSeq(b, 1, n)) = IF 1 <= n THEN n - 1 + 1 ELSE 0
    BY <1>3, SubSeqProperties
  <1>5. StringIn(b) = SubSeq(b, 1, n)
    BY <1>1 DEF StringIn
  <1>6. Len(b) \in Nat /\ Len(SubSeq(b, 1, n)) <= Len(b)
    BY <1>4
  <1> QED BY <1>4, <1>5, <1>6 DEF Text

\* A text that does not fill the buffer comes out of it as it was put in.
LEMMA StringOfPadded ==
  ASSUME NEW s \in Text, Len(s) < BUFFSIZE
  PROVE  StringIn(Padded(s)) = s
  <1> DEFINE b == Padded(s)
  <1>1. b \in Seq(Bytes) /\ Len(b) = BUFFSIZE
        /\ \A k \in 1..BUFFSIZE : b[k] = IF k <= Len(s) THEN s[k] ELSE ZERO
    BY TextBytes, PaddedBytes
  <1>2. Len(s) \in Nat /\ BUFFSIZE \in Nat /\ \A k \in 1..Len(s) : s[k] \in Chars
    BY TransferAssumption DEF Text
  <1>3. \A k \in 1..Len(s) : s[k] # ZERO
    BY <1>2, TransferAssumption
  <1> HIDE DEF b
  <1>4. Len(s) \in 0..Len(b) /\ IsString(b, Len(s))
    BY <1>1, <1>2, <1>3 DEF IsString
  <1>5. Len(s) = CHOOSE n \in 0..Len(b) : /\ \A k \in 1..n : b[k] # ZERO
                                          /\ n = Len(b) \/ b[n + 1] = ZERO
    BY <1>1, <1>4, StringLength DEF IsString
  <1>6. StringIn(b) = Front1(b, Len(s))
    BY <1>5 DEF StringIn, Front1
  <1>7. /\ Front1(b, Len(s)) \in Seq(Bytes) /\ Len(Front1(b, Len(s))) = Len(s)
        /\ \A j \in 1..Len(s) : Front1(b, Len(s))[j] = s[j]
    <2>1. Len(s) \in 0..Len(b) /\ b \in Seq(Bytes)
      BY <1>1, <1>4
    <2>2. /\ Front1(b, Len(s)) \in Seq(Bytes) /\ Len(Front1(b, Len(s))) = Len(s)
          /\ \A j \in 1..Len(s) : Front1(b, Len(s))[j] = b[j]
      BY <2>1, Split
    <2> QED BY <1>1, <1>2, <2>2
  <1>8. Front1(b, Len(s)) = s
    BY <1>7, TextBytes, SeqEqual
  <1> QED BY <1>6, <1>8 DEF b

\* Part of what is left of a file after a process that ends without fclose.
LEMMA FlushedBytes ==
  ASSUME NEW s \in Seq(Bytes) \cup {NULL}
  PROVE  Flushed(s) \in Seq(Bytes) \cup {NULL}
  <1>1. CASE s \in {NULL, <<>>}
    BY <1>1 DEF Flushed
  <1>2. CASE s \notin {NULL, <<>>}
    <2> DEFINE a == Len(s) - 1
    <2>1. a \in Nat /\ s \in Seq(Bytes) /\ BLOCK \in Nat \ {0}
      BY <1>2, TransferAssumption
    <2> HIDE DEF a
    <2>2. (a \div BLOCK) * BLOCK \in 0..a
      BY <2>1
    <2>3. (a \div BLOCK) * BLOCK \in 0..Len(s)
      BY <2>1, <2>2 DEF a
    <2>4. Front1(s, (a \div BLOCK) * BLOCK) \in Seq(Bytes)
      BY <2>1, <2>3, Split
    <2> QED BY <1>2, <2>4 DEF Flushed, a
  <1> QED BY <1>1, <1>2

-----------------------------------------------------------------------------
(* Types.                                                                  *)

\* What the clients send are bytes, records of BUFFSIZE.
LEMMA Sendings ==
  ASSUME NEW c \in Clients
  PROVE  /\ Op[c] \in Text /\ Name[c] \in Text /\ Local[c] \in Text /\ Local[c] \in Seq(Bytes)
         /\ Len(Op[c]) \in Nat /\ Len(Name[c]) \in Nat /\ Len(Local[c]) \in Nat
         /\ Len(Op[c]) < BUFFSIZE /\ Len(Name[c]) < BUFFSIZE
         /\ Padded(Op[c]) \in Seq(Bytes) /\ Len(Padded(Op[c])) = BUFFSIZE
         /\ Over(Name[c], Padded(Op[c])) \in Seq(Bytes)
         /\ Len(Over(Name[c], Padded(Op[c]))) = BUFFSIZE
         /\ BUFFSIZE \in Nat \ {0} /\ SockBuf \in Nat
  <1>1. /\ Op[c] \in Text /\ Name[c] \in Text /\ Local[c] \in Text
        /\ Len(Op[c]) < BUFFSIZE /\ Len(Name[c]) \in 1..(BUFFSIZE - 1)
        /\ BUFFSIZE \in Nat \ {0} /\ SockBuf \in Nat
    BY TransferAssumption
  <1>2. Len(Op[c]) \in Nat /\ Len(Name[c]) \in Nat /\ Len(Local[c]) \in Nat
    BY <1>1 DEF Text
  <1>3. Op[c] \in Seq(Bytes) /\ Name[c] \in Seq(Bytes) /\ Local[c] \in Seq(Bytes)
    BY <1>1, TextBytes
  <1>4. Padded(Op[c]) \in Seq(Bytes) /\ Len(Padded(Op[c])) = BUFFSIZE
    BY <1>3, PaddedBytes
  <1>5. /\ Over(Name[c], Padded(Op[c])) \in Seq(Bytes)
        /\ Len(Over(Name[c], Padded(Op[c]))) = BUFFSIZE
    BY <1>3, <1>4, OverBytes
  <1> QED BY <1>1, <1>2, <1>3, <1>4, <1>5

\* The types, and that nobody has sent more than its file.
TypeInv == TypeOK /\ \A c \in Clients : off[c] <= Len(Local[c])

\* The programs start with values of the right types.
LEMMA InitType == Init => TypeInv
  <1> SUFFICES ASSUME Init PROVE TypeInv
    OBVIOUS
  <1> USE DEF Init
  <1>1. ClientsOK
    BY DEF ClientsOK, Ended
  <1>2. ConnectionsOK
    <2>1. SockBuf \in Nat
      BY TransferAssumption
    <2> QED BY <2>1 DEF ConnectionsOK
  <1>3. MainOK
    <2>1. BUFFSIZE \in Nat
      BY TransferAssumption
    <2> QED BY <2>1 DEF MainOK, Text
  <1>4. FilesOK
    <2>1. \A n \in DOMAIN InitialFiles : InitialFiles[n] \in Seq(Bytes)
      BY TransferAssumption, TextBytes
    <2>2. DOMAIN InitialFiles \subseteq Text \ {<<>>}
      BY TransferAssumption
    <2> QED BY <2>1, <2>2 DEF FilesOK
  <1>5. \A c \in Clients : off[c] <= Len(Local[c])
    BY Sendings
  <1> QED BY <1>1, <1>2, <1>3, <1>4, <1>5 DEF TypeOK, TypeInv

\* send() keeps within the connection.
LEMMA SendType ==
  ASSUME ConnectionsOK, NEW c \in Clients, NEW bytes \in Seq(Bytes), Send(c, bytes)
  PROVE  /\ up' \in [Clients -> Seq(Bytes)]
         /\ \A d \in Clients : Len(up'[d]) <= SockBuf
  <1>1. up[c] \in Seq(Bytes) /\ up \in [Clients -> Seq(Bytes)]
    BY DEF ConnectionsOK
  <1>2. up[c] \o bytes \in Seq(Bytes) /\ Len(up[c] \o bytes) = Len(up[c]) + Len(bytes)
    BY <1>1, Joined
  <1>3. CASE sEnd[c] = "open"
    BY <1>1, <1>2, <1>3 DEF ConnectionsOK, Send
  <1>4. CASE sEnd[c] # "open"
    BY <1>1, <1>4 DEF ConnectionsOK, Send
  <1> QED BY <1>3, <1>4

\* The end of a client is an end.
LEMMA LeaveType ==
  ASSUME ClientsOK, ConnectionsOK, NEW c \in Clients, NEW how \in Ended, Leave(c, how)
  PROVE  /\ phase' \in [Clients -> {"idle", "connected", "asked", "named", "moving"} \cup Ended]
         /\ cEnd' \in [Clients -> {"open", "fin", "rst"}]
         /\ phase'[c] = how /\ cEnd'[c] # "open"
         /\ \A d \in Clients : d # c => phase'[d] = phase[d] /\ cEnd'[d] = cEnd[d]
  BY DEF ClientsOK, ConnectionsOK, Leave

\* What recv returns to the server, and what it leaves.
LEMMA RecvType ==
  ASSUME ConnectionsOK, cur \in Clients, NEW k \in Received, Recv(k)
  PROVE  /\ k \in 0..Len(up[cur]) /\ k <= BUFFSIZE
         /\ up' \in [Clients -> Seq(Bytes)]
         /\ up'[cur] = Behind(up[cur], k) /\ \A d \in Clients : d # cur => up'[d] = up[d]
         /\ \A d \in Clients : Len(up'[d]) <= SockBuf
         /\ Front1(up[cur], k) \in Seq(Bytes) /\ Len(Front1(up[cur], k)) = k
         /\ k = 0 => up[cur] = <<>> /\ cEnd[cur] # "open"
         /\ cur \in Whole => k = Least(BUFFSIZE, Len(up[cur]))
  <1> DEFINE s == up[cur]
  <1>1. /\ s \in Seq(Bytes) /\ up \in [Clients -> Seq(Bytes)] /\ Len(s) \in Nat
        /\ \A d \in Clients : Len(up[d]) <= SockBuf /\ Len(up[d]) \in Nat
    BY DEF ConnectionsOK
  <1>2. BUFFSIZE \in Nat \ {0} /\ SockBuf \in Nat
    BY TransferAssumption
  <1>3. /\ Least(BUFFSIZE, Len(s)) \in Nat /\ Least(BUFFSIZE, Len(s)) <= BUFFSIZE
        /\ Least(BUFFSIZE, Len(s)) <= Len(s)
        /\ Least(BUFFSIZE, Len(s)) = BUFFSIZE \/ Least(BUFFSIZE, Len(s)) = Len(s)
    BY <1>1, <1>2, LeastRange
  <1>4. CASE s = <<>>
    <2>1. k = 0 /\ Len(s) = 0 /\ cEnd[cur] # "open"
      BY <1>4 DEF Received
    <2>2. Least(BUFFSIZE, Len(s)) = 0
      BY <1>3, <2>1
    <2> HIDE DEF s
    <2>3. 0 \in 0..Len(s)
      BY <2>1
    <2>4. Front1(s, 0) \in Seq(Bytes) /\ Len(Front1(s, 0)) = 0 /\ Behind(s, 0) \in Seq(Bytes)
          /\ Len(Behind(s, 0)) = Len(s) - 0
      BY <1>1, <2>3, Split
    <2>5. up' = [up EXCEPT ![cur] = Behind(s, 0)]
      BY <2>1 DEF Recv, s
    <2> QED BY <1>1, <1>2, <1>4, <2>1, <2>2, <2>4, <2>5 DEF s
  <1>5. CASE s # <<>>
    <2>1. k \in Sizes(cur, s) /\ Len(s) # 0
      BY <1>1, <1>5 DEF Received
    <2>2. k \in 1..Least(BUFFSIZE, Len(s)) /\ (cur \in Whole => k = Least(BUFFSIZE, Len(s)))
      BY <1>1, <1>2, <1>3, <2>1 DEF Sizes
    <2>3. k \in 0..Len(s) /\ k # 0 /\ k <= BUFFSIZE
      BY <1>1, <1>2, <1>3, <2>2
    <2> HIDE DEF s
    <2>4. Front1(s, k) \in Seq(Bytes) /\ Len(Front1(s, k)) = k /\ Behind(s, k) \in Seq(Bytes)
          /\ Len(Behind(s, k)) = Len(s) - k
      BY <1>1, <2>3, Split
    <2>5. up' = [up EXCEPT ![cur] = Behind(s, k)]
      BY DEF Recv, s
    <2> QED BY <1>1, <1>2, <2>2, <2>3, <2>4, <2>5 DEF s
  <1> QED BY <1>4, <1>5

\* A name received is a text that fits into the buffer.
LEMMA NameType ==
  ASSUME NEW s \in Seq(Bytes)
  PROVE  StringIn(Padded(s)) \in Text /\ Len(StringIn(Padded(s))) <= BUFFSIZE
  BY PaddedBytes, StringText

\* Exit closes connections.
LEMMA ExitType ==
  ASSUME ConnectionsOK, Exit
  PROVE  /\ sEnd' \in [Clients -> {"open", "fin", "rst"}] /\ backlog' = <<>> /\ pc' = "exited"
         /\ backlog' \in Seq(Clients)
         /\ cur \in Clients => sEnd'[cur] # "open"
         /\ \A c \in Clients : sEnd[c] # "open" => sEnd'[c] # "open"
         /\ \A c \in Clients : c # cur /\ c \notin ToSet(backlog) => sEnd'[c] = sEnd[c]
  <1>1. <<>> \in Seq(Clients)
    OBVIOUS
  <1> QED BY <1>1 DEF ConnectionsOK, Exit, ServerEnd

\* Connect keeps the types.
LEMMA ConnectType == ASSUME TypeInv, NEW c \in Clients, Connect(c) PROVE TypeInv'
  <1> USE DEF TypeInv, TypeOK, Connect
  <1>1. ClientsOK'
    BY DEF ClientsOK, Ended
  <1>2. ConnectionsOK'
    BY DEF ConnectionsOK
  <1>3. MainOK'
    BY DEF MainOK
  <1>4. FilesOK'
    BY DEF FilesOK
  <1>5. \A d \in Clients : off'[d] <= Len(Local[d])
    BY DEF ClientsOK
  <1> QED BY <1>1, <1>2, <1>3, <1>4, <1>5

\* SendOp keeps the types.
LEMMA SendOpType == ASSUME TypeInv, NEW c \in Clients, SendOp(c) PROVE TypeInv'
  <1> USE DEF TypeInv, TypeOK, SendOp
  <1>1. ClientsOK'
    BY DEF ClientsOK, Ended
  <1>2. ConnectionsOK'
    <2>1. ConnectionsOK /\ Send(c, Padded(Op[c])) /\ Padded(Op[c]) \in Seq(Bytes)
      BY Sendings
    <2>2. up' \in [Clients -> Seq(Bytes)] /\ \A d \in Clients : Len(up'[d]) <= SockBuf
      BY <2>1, SendType
    <2> QED BY <2>2 DEF ConnectionsOK
  <1>3. MainOK'
    BY DEF MainOK
  <1>4. FilesOK'
    BY DEF FilesOK
  <1>5. \A d \in Clients : off'[d] <= Len(Local[d])
    BY DEF ClientsOK
  <1> QED BY <1>1, <1>2, <1>3, <1>4, <1>5

\* SendName keeps the types.
LEMMA SendNameType == ASSUME TypeInv, NEW c \in Clients, SendName(c) PROVE TypeInv'
  <1> USE DEF TypeInv, TypeOK, SendName
  <1>1. ClientsOK'
    BY DEF ClientsOK, Ended
  <1>2. ConnectionsOK'
    <2>1. /\ ConnectionsOK /\ Send(c, Over(Name[c], Padded(Op[c])))
          /\ Over(Name[c], Padded(Op[c])) \in Seq(Bytes)
      BY Sendings
    <2>2. up' \in [Clients -> Seq(Bytes)] /\ \A d \in Clients : Len(up'[d]) <= SockBuf
      BY <2>1, SendType
    <2> QED BY <2>2 DEF ConnectionsOK
  <1>3. MainOK'
    BY DEF MainOK
  <1>4. FilesOK'
    BY DEF FilesOK
  <1>5. \A d \in Clients : off'[d] <= Len(Local[d])
    BY DEF ClientsOK
  <1> QED BY <1>1, <1>2, <1>3, <1>4, <1>5

\* Open keeps the types.
LEMMA OpenType == ASSUME TypeInv, NEW c \in Clients, Open(c) PROVE TypeInv'
  <1> USE DEF TypeInv, TypeOK, Open
  <1>1. ClientsOK'
    <2>1. <<>> \in Seq(Bytes)
      OBVIOUS
    <2>2. <<>> # NULL
      BY <2>1, TransferAssumption
    <2>3. CASE Leave(c, "failed") /\ UNCHANGED got
      BY <2>3, LeaveType DEF ClientsOK, Ended
    <2>4. CASE /\ phase' = [phase EXCEPT ![c] = "moving"]
               /\ got' = [got EXCEPT ![c] = IF c \in Uploaders THEN NULL ELSE <<>>]
      BY <2>1, <2>2, <2>4 DEF ClientsOK, Ended
    <2> QED BY <2>3, <2>4
  <1>2. ConnectionsOK'
    BY LeaveType DEF ConnectionsOK, Ended
  <1>3. MainOK'
    BY DEF MainOK
  <1>4. FilesOK'
    BY DEF FilesOK
  <1>5. \A d \in Clients : off'[d] <= Len(Local[d])
    BY DEF ClientsOK
  <1> QED BY <1>1, <1>2, <1>3, <1>4, <1>5

\* What SendFile sends is the next part of the file.
LEMMA FilePart ==
  ASSUME TypeOK, NEW c \in Clients, NEW n, n = Least(BUFFSIZE, Len(Local[c]) - off[c]),
         off[c] < Len(Local[c])
  PROVE  /\ n \in Nat \ {0} /\ off[c] + n <= Len(Local[c]) /\ off[c] \in Nat
         /\ SubSeq(Local[c], off[c] + 1, off[c] + n) \in Seq(Bytes)
         /\ Len(SubSeq(Local[c], off[c] + 1, off[c] + n)) = n
         /\ \A k \in 1..n : SubSeq(Local[c], off[c] + 1, off[c] + n)[k] = Local[c][off[c] + k]
  <1>1. off[c] \in Nat /\ Len(Local[c]) \in Nat /\ BUFFSIZE \in Nat \ {0}
        /\ Local[c] \in Seq(Bytes)
    BY Sendings DEF TypeOK, ClientsOK
  <1>2. n \in Nat \ {0} /\ off[c] + n <= Len(Local[c])
    BY <1>1 DEF Least
  <1> DEFINE o == off[c]
  <1> HIDE DEF o
  <1>3. \A i \in (o + 1)..(o + n) : Local[c][i] \in Bytes
    <2>1. \A i \in (o + 1)..(o + n) : i \in 1..Len(Local[c])
      BY <1>1, <1>2 DEF o
    <2> QED BY <1>1, <2>1
  <1>4. /\ SubSeq(Local[c], o + 1, o + n) \in Seq(Bytes)
        /\ Len(SubSeq(Local[c], o + 1, o + n)) = IF o + 1 <= o + n THEN (o + n) - (o + 1) + 1 ELSE 0
        /\ \A i \in 1..((o + n) - (o + 1) + 1) :
             SubSeq(Local[c], o + 1, o + n)[i] = Local[c][(o + 1) + i - 1]
    <2>1. o + 1 \in Int /\ o + n \in Int
      BY <1>1, <1>2 DEF o
    <2> QED BY <1>3, <2>1, SubSeqProperties
  <1>5. \A k \in 1..n : (o + 1) + k - 1 = o + k
    BY <1>1, <1>2 DEF o
  <1>6. o \in Nat
    BY <1>1 DEF o
  <1>7. /\ Len(SubSeq(Local[c], o + 1, o + n)) = n
        /\ \A k \in 1..n : SubSeq(Local[c], o + 1, o + n)[k] = Local[c][o + k]
    <2>1. o + 1 <= o + n /\ (o + n) - (o + 1) + 1 = n
      BY <1>2, <1>6
    <2> QED BY <1>4, <1>5, <2>1
  <1> QED BY <1>1, <1>2, <1>4, <1>7 DEF o

\* What WriteFile takes and leaves.
LEMMA WrittenPart ==
  ASSUME TypeOK, NEW c \in Clients, WriteFile(c)
  PROVE  \E k \in 0..Len(down[c]) :
          /\ got' = [got EXCEPT ![c] = got[c] \o Front1(down[c], k)]
          /\ down' = [down EXCEPT ![c] = Behind(down[c], k)]
          /\ got[c] \in Seq(Bytes) /\ down[c] \in Seq(Bytes)
          /\ got[c] \o Front1(down[c], k) \in Seq(Bytes)
          /\ got[c] \o Front1(down[c], k) # NULL
          /\ Behind(down[c], k) \in Seq(Bytes) /\ Len(Behind(down[c], k)) = Len(down[c]) - k
          /\ Front1(down[c], k) \in Seq(Bytes)
          /\ Front1(down[c], k) \o Behind(down[c], k) = down[c]
  <1>1. got[c] \in Seq(Bytes) /\ down[c] \in Seq(Bytes) /\ Len(down[c]) \in Nat
    BY DEF TypeOK, ClientsOK, ConnectionsOK, WriteFile
  <1>2. PICK k \in Sizes(c, down[c]) :
          /\ got' = [got EXCEPT ![c] = got[c] \o Front1(down[c], k)]
          /\ down' = [down EXCEPT ![c] = Behind(down[c], k)]
    BY DEF WriteFile
  <1>3. BUFFSIZE \in Nat
    BY TransferAssumption
  <1>4. Least(BUFFSIZE, Len(down[c])) \in 0..Len(down[c])
    BY <1>1, <1>3 DEF Least
  <1>5. k \in 0..Len(down[c])
    BY <1>1, <1>2, <1>4 DEF Sizes
  <1>6. /\ Front1(down[c], k) \in Seq(Bytes) /\ Behind(down[c], k) \in Seq(Bytes)
        /\ Len(Behind(down[c], k)) = Len(down[c]) - k
        /\ Front1(down[c], k) \o Behind(down[c], k) = down[c]
    BY <1>1, <1>5, Split
  <1>7. got[c] \o Front1(down[c], k) \in Seq(Bytes)
    BY <1>1, <1>6, Joined
  <1>8. got[c] \o Front1(down[c], k) # NULL
    BY <1>7, TransferAssumption
  <1> QED BY <1>1, <1>2, <1>5, <1>6, <1>7, <1>8

\* SendFile keeps the types.
LEMMA SendFileType == ASSUME TypeInv, NEW c \in Clients, SendFile(c) PROVE TypeInv'
  <1> USE DEF TypeInv, TypeOK, SendFile
  <1> DEFINE n == Least(BUFFSIZE, Len(Local[c]) - off[c])
  <1>0. /\ n \in Nat /\ off[c] + n <= Len(Local[c]) /\ off[c] \in Nat
        /\ SubSeq(Local[c], off[c] + 1, off[c] + n) \in Seq(Bytes)
    BY FilePart
  <1>1. ClientsOK'
    BY <1>0 DEF ClientsOK, Ended
  <1>2. ConnectionsOK'
    <2>1. ConnectionsOK /\ Send(c, SubSeq(Local[c], off[c] + 1, off[c] + n))
      OBVIOUS
    <2>2. up' \in [Clients -> Seq(Bytes)] /\ \A d \in Clients : Len(up'[d]) <= SockBuf
      BY <1>0, <2>1, SendType
    <2> QED BY <2>2 DEF ConnectionsOK
  <1>3. MainOK'
    BY DEF MainOK
  <1>4. FilesOK'
    BY DEF FilesOK
  <1>5. \A d \in Clients : off'[d] <= Len(Local[d])
    BY <1>0 DEF ClientsOK
  <1> QED BY <1>1, <1>2, <1>3, <1>4, <1>5

\* SendFails keeps the types.
LEMMA SendFailsType == ASSUME TypeInv, NEW c \in Clients, SendFails(c) PROVE TypeInv'
  <1> USE DEF TypeInv, TypeOK, SendFails
  <1>1. ClientsOK'
    BY LeaveType DEF ClientsOK, Ended
  <1>2. ConnectionsOK'
    BY LeaveType DEF ConnectionsOK, Ended
  <1>3. MainOK'
    BY DEF MainOK
  <1>4. FilesOK'
    BY DEF FilesOK
  <1>5. \A d \in Clients : off'[d] <= Len(Local[d])
    BY DEF ClientsOK
  <1> QED BY <1>1, <1>2, <1>3, <1>4, <1>5

\* WriteFile keeps the types.
LEMMA WriteFileType == ASSUME TypeInv, NEW c \in Clients, WriteFile(c) PROVE TypeInv'
  <1> USE DEF TypeInv, TypeOK, WriteFile
  <1>0. PICK k \in 0..Len(down[c]) :
          /\ got' = [got EXCEPT ![c] = got[c] \o Front1(down[c], k)]
          /\ down' = [down EXCEPT ![c] = Behind(down[c], k)]
          /\ got[c] \o Front1(down[c], k) \in Seq(Bytes)
          /\ got[c] \o Front1(down[c], k) # NULL
          /\ Behind(down[c], k) \in Seq(Bytes) /\ Len(Behind(down[c], k)) = Len(down[c]) - k
    BY WrittenPart
  <1>1. ClientsOK'
    BY <1>0 DEF ClientsOK, Ended
  <1>2. ConnectionsOK'
    <2>1. Len(down[c]) \in Nat /\ SockBuf \in Nat /\ Len(down[c]) <= SockBuf
      BY TransferAssumption DEF ConnectionsOK
    <2> QED BY <1>0, <2>1 DEF ConnectionsOK
  <1>3. MainOK'
    BY DEF MainOK
  <1>4. FilesOK'
    BY DEF FilesOK
  <1>5. \A d \in Clients : off'[d] <= Len(Local[d])
    BY DEF ClientsOK
  <1> QED BY <1>1, <1>2, <1>3, <1>4, <1>5

\* Finish keeps the types.
LEMMA FinishType == ASSUME TypeInv, NEW c \in Clients, Finish(c) PROVE TypeInv'
  <1> USE DEF TypeInv, TypeOK, Finish
  <1>1. ClientsOK'
    <2>1. CASE Leave(c, "done") /\ UNCHANGED got
      BY <2>1, LeaveType DEF ClientsOK, Ended
    <2>2. CASE Leave(c, "crashed") /\ got' = [got EXCEPT ![c] = Flushed(got[c])]
      <3>1. Flushed(got[c]) \in Seq(Bytes) \cup {NULL}
        BY FlushedBytes DEF ClientsOK
      <3> QED BY <2>2, <3>1, LeaveType DEF ClientsOK, Ended
    <2> QED BY <2>1, <2>2
  <1>2. ConnectionsOK'
    BY LeaveType DEF ConnectionsOK, Ended
  <1>3. MainOK'
    BY DEF MainOK
  <1>4. FilesOK'
    BY DEF FilesOK
  <1>5. \A d \in Clients : off'[d] <= Len(Local[d])
    BY DEF ClientsOK
  <1> QED BY <1>1, <1>2, <1>3, <1>4, <1>5

\* Kill keeps the types.
LEMMA KillType == ASSUME TypeInv, NEW c \in Clients, Kill(c) PROVE TypeInv'
  <1> USE DEF TypeInv, TypeOK, Kill
  <1>1. ClientsOK'
    <2>1. Flushed(got[c]) \in Seq(Bytes) \cup {NULL}
      BY FlushedBytes DEF ClientsOK
    <2> QED BY <2>1, LeaveType DEF ClientsOK, Ended
  <1>2. ConnectionsOK'
    BY LeaveType DEF ConnectionsOK, Ended
  <1>3. MainOK'
    BY DEF MainOK
  <1>4. FilesOK'
    BY DEF FilesOK
  <1>5. \A d \in Clients : off'[d] <= Len(Local[d])
    BY DEF ClientsOK
  <1> QED BY <1>1, <1>2, <1>3, <1>4, <1>5

\* Accept keeps the types.
LEMMA AcceptType == ASSUME TypeInv, Accept PROVE TypeInv'
  <1> USE DEF TypeInv, TypeOK, Accept
  <1>1. ClientsOK'
    BY DEF ClientsOK, Ended
  <1>2. ConnectionsOK'
    <2>1. Tail(backlog) \in Seq(Clients)
      BY DEF ConnectionsOK
    <2> QED BY <2>1 DEF ConnectionsOK
  <1>3. MainOK'
    <2>1. Head(backlog) \in Clients /\ NULL \notin Clients
      BY TransferAssumption DEF ConnectionsOK
    <2> QED BY <2>1 DEF MainOK
  <1>4. FilesOK'
    BY DEF FilesOK
  <1>5. \A d \in Clients : off'[d] <= Len(Local[d])
    BY DEF ClientsOK
  <1> QED BY <1>1, <1>2, <1>3, <1>4, <1>5

\* RecvOperation keeps the types.
LEMMA RecvOperationType == ASSUME TypeInv, RecvOperation PROVE TypeInv'
  <1> USE DEF TypeInv, TypeOK, RecvOperation
  <1>0. PICK k \in Received : Recv(k)
    OBVIOUS
  <1>0a. ConnectionsOK /\ cur \in Clients
    BY DEF MainOK
  <1>0b. up' \in [Clients -> Seq(Bytes)] /\ \A d \in Clients : Len(up'[d]) <= SockBuf
    BY <1>0, <1>0a, RecvType
  <1>1. ClientsOK'
    BY DEF ClientsOK, Ended
  <1>2. ConnectionsOK'
    BY <1>0b DEF ConnectionsOK
  <1>3. MainOK'
    BY DEF MainOK
  <1>4. FilesOK'
    BY DEF FilesOK
  <1>5. \A d \in Clients : off'[d] <= Len(Local[d])
    BY DEF ClientsOK
  <1> QED BY <1>1, <1>2, <1>3, <1>4, <1>5

\* RecvUploadName keeps the types.
LEMMA RecvUploadNameType == ASSUME TypeInv, RecvUploadName PROVE TypeInv'
  <1> USE DEF TypeInv, TypeOK, RecvUploadName
  <1>0a. ConnectionsOK /\ cur \in Clients /\ cur # NULL
    BY TransferAssumption DEF MainOK
  <1>00. PICK k \in Received :
           /\ Recv(k)
           /\ LET n == StringIn(Padded(Front1(up[cur], k))) IN
              IF Fails(n) THEN Exit /\ UNCHANGED <<filename, files, owner>>
              ELSE /\ filename' = n
                   /\ files' = Put(files, n, Opened(n))
                   /\ owner' = Put(owner, n, cur)
                   /\ pc' = "writefile"
                   /\ UNCHANGED <<sEnd, backlog>>
    OBVIOUS
  <1> DEFINE n == StringIn(Padded(Front1(up[cur], k)))
  <1> DEFINE Opens == /\ filename' = n /\ pc' = "writefile"
                      /\ files' = Put(files, n, Opened(n)) /\ owner' = Put(owner, n, cur)
                      /\ UNCHANGED <<sEnd, backlog>>
  <1>0c. IF Fails(n) THEN Exit /\ UNCHANGED <<filename, files, owner>> ELSE Opens
    BY <1>00
  <1>0b. /\ up' \in [Clients -> Seq(Bytes)] /\ \A d \in Clients : Len(up'[d]) <= SockBuf
         /\ n \in Text /\ Len(n) <= BUFFSIZE
    BY <1>00, <1>0a, RecvType, NameType
  <1> HIDE DEF n, Opens
  <1>1. ClientsOK'
    BY DEF ClientsOK, Ended
  <1>2. ConnectionsOK'
    <2>1. sEnd' \in [Clients -> {"open", "fin", "rst"}] /\ backlog' \in Seq(Clients)
      BY <1>0a, <1>0c, ExitType DEF ConnectionsOK, Opens
    <2> QED BY <1>0b, <2>1 DEF ConnectionsOK
  <1>3. MainOK'
    <2>1. CASE Fails(n) /\ Exit /\ UNCHANGED <<filename, files, owner>>
      BY <1>0a, <2>1, ExitType DEF MainOK
    <2>2. CASE ~Fails(n) /\ Opens
      <3>1. n \in DOMAIN files'
        BY <2>2 DEF Opens, Put
      <3> QED BY <1>0a, <1>0b, <2>2, <3>1 DEF MainOK, Opens
    <2> QED BY <1>0c, <2>1, <2>2
  <1>4. FilesOK'
    <2>1. CASE Fails(n) /\ Exit /\ UNCHANGED <<filename, files, owner>>
      BY <2>1 DEF FilesOK
    <2>2. CASE ~Fails(n) /\ Opens
      <3>1. /\ DOMAIN files' = {n} \cup DOMAIN files /\ files'[n] = <<>>
            /\ \A m \in DOMAIN files : m # n => files'[m] = files[m]
        BY <2>2 DEF Opens, Opened, Put
      <3>2. /\ DOMAIN owner' = {n} \cup DOMAIN owner /\ owner'[n] = cur
            /\ \A m \in DOMAIN owner : m # n => owner'[m] = owner[m]
        BY <2>2 DEF Opens, Put
      <3>3. n # <<>> /\ <<>> \in Seq(Bytes)
        BY <2>2 DEF Fails
      <3> QED BY <1>0a, <1>0b, <3>1, <3>2, <3>3 DEF FilesOK
    <2> QED BY <1>0c, <2>1, <2>2
  <1>5. \A d \in Clients : off'[d] <= Len(Local[d])
    BY DEF ClientsOK
  <1> QED BY <1>1, <1>2, <1>3, <1>4, <1>5

\* RecvFile keeps the types.
LEMMA RecvFileType == ASSUME TypeInv, RecvFile PROVE TypeInv'
  <1> USE DEF TypeInv, TypeOK, RecvFile
  <1>0a. ConnectionsOK /\ cur \in Clients
    BY DEF MainOK
  <1>00. PICK k \in Received :
           /\ Recv(k)
           /\ files' = [files EXCEPT ![filename] = files[filename] \o Front1(up[cur], k)]
           /\ pc' = IF LastRecv(k) THEN "close" ELSE pc
    OBVIOUS
  <1>0b. /\ up' \in [Clients -> Seq(Bytes)] /\ \A d \in Clients : Len(up'[d]) <= SockBuf
         /\ Front1(up[cur], k) \in Seq(Bytes)
    BY <1>00, <1>0a, RecvType
  <1>1. ClientsOK'
    BY DEF ClientsOK, Ended
  <1>2. ConnectionsOK'
    BY <1>0b DEF ConnectionsOK
  <1>3. MainOK'
    <2>1. filename \in DOMAIN files
      BY DEF MainOK
    <2>2. DOMAIN files' = DOMAIN files
      BY <1>00
    <2> QED BY <1>00, <2>1, <2>2 DEF MainOK
  <1>4. FilesOK'
    <2>1. files[filename] \in Seq(Bytes)
      BY DEF MainOK, FilesOK
    <2>2. files[filename] \o Front1(up[cur], k) \in Seq(Bytes)
      BY <1>0b, <2>1, Joined
    <2> QED BY <1>00, <2>2 DEF FilesOK
  <1>5. \A d \in Clients : off'[d] <= Len(Local[d])
    BY DEF ClientsOK
  <1> QED BY <1>1, <1>2, <1>3, <1>4, <1>5

\* RecvDownloadName keeps the types.
LEMMA RecvDownloadNameType == ASSUME TypeInv, RecvDownloadName PROVE TypeInv'
  <1> USE DEF TypeInv, TypeOK, RecvDownloadName
  <1>0a. ConnectionsOK /\ cur \in Clients /\ cur # NULL
    BY TransferAssumption DEF MainOK
  <1>00. PICK k \in Received :
           /\ Recv(k)
           /\ LET n == StringIn(Padded(Front1(up[cur], k))) IN
              IF n \notin DOMAIN files THEN Exit /\ UNCHANGED <<filename, rest, served>>
              ELSE /\ filename' = n
                   /\ rest' = files[n]
                   /\ served' = [served EXCEPT ![cur] = [name |-> n, data |-> files[n]]]
                   /\ pc' = "sendfile"
                   /\ UNCHANGED <<sEnd, backlog>>
    OBVIOUS
  <1> DEFINE n == StringIn(Padded(Front1(up[cur], k)))
  <1> DEFINE Opens == /\ filename' = n /\ pc' = "sendfile" /\ rest' = files[n]
                      /\ served' = [served EXCEPT ![cur] = [name |-> n, data |-> files[n]]]
                      /\ UNCHANGED <<sEnd, backlog>>
  <1>0c. IF n \notin DOMAIN files THEN Exit /\ UNCHANGED <<filename, rest, served>> ELSE Opens
    BY <1>00
  <1>0b. /\ up' \in [Clients -> Seq(Bytes)] /\ \A d \in Clients : Len(up'[d]) <= SockBuf
         /\ n \in Text /\ Len(n) <= BUFFSIZE
    BY <1>00, <1>0a, RecvType, NameType
  <1> HIDE DEF n, Opens
  <1>1. ClientsOK'
    BY DEF ClientsOK, Ended
  <1>2. ConnectionsOK'
    <2>1. sEnd' \in [Clients -> {"open", "fin", "rst"}] /\ backlog' \in Seq(Clients)
      BY <1>0a, <1>0c, ExitType DEF ConnectionsOK, Opens
    <2> QED BY <1>0b, <2>1 DEF ConnectionsOK
  <1>3. MainOK'
    <2>1. CASE n \notin DOMAIN files /\ Exit /\ UNCHANGED <<filename, rest, served>>
      BY <1>0a, <2>1, ExitType DEF MainOK
    <2>2. CASE n \in DOMAIN files /\ Opens
      <3>1. files[n] \in Seq(Bytes)
        BY <2>2 DEF FilesOK
      <3> QED BY <1>0a, <1>0b, <2>2, <3>1 DEF MainOK, Opens
    <2> QED BY <1>0c, <2>1, <2>2
  <1>4. FilesOK'
    <2>1. CASE n \notin DOMAIN files /\ Exit /\ UNCHANGED <<filename, rest, served>>
      BY <2>1 DEF FilesOK
    <2>2. CASE n \in DOMAIN files /\ Opens
      <3>1. [name |-> n, data |-> files[n]] \in [name : Text, data : Seq(Bytes)]
        BY <1>0b, <2>2 DEF FilesOK
      <3> QED BY <2>2, <3>1 DEF FilesOK, Opens
    <2> QED BY <1>0c, <2>1, <2>2
  <1>5. \A d \in Clients : off'[d] <= Len(Local[d])
    BY DEF ClientsOK
  <1> QED BY <1>1, <1>2, <1>3, <1>4, <1>5

\* SendBlock keeps the types.
LEMMA SendBlockType == ASSUME TypeInv, SendBlock PROVE TypeInv'
  <1> USE DEF TypeInv, TypeOK, SendBlock
  <1> DEFINE n == Least(BUFFSIZE, Len(rest))
  <1>0a. ConnectionsOK /\ cur \in Clients /\ cur # NULL /\ rest \in Seq(Bytes)
    BY TransferAssumption DEF MainOK
  <1>0b. Front1(rest, n) \in Seq(Bytes) /\ Len(Front1(rest, n)) = n
         /\ Behind(rest, n) \in Seq(Bytes)
    <2>1. BUFFSIZE \in Nat /\ Len(rest) \in Nat
      BY <1>0a, TransferAssumption
    <2>2. n \in 0..Len(rest)
      BY <2>1 DEF Least
    <2> HIDE DEF n
    <2> QED BY <1>0a, <2>2, Split
  <1> HIDE DEF n
  <1>1. ClientsOK'
    BY DEF ClientsOK, Ended
  <1>2. ConnectionsOK'
    <2>1. CASE cEnd[cur] = "rst" /\ Exit /\ UNCHANGED <<down, cEnd, rest>>
      BY <2>1, ExitType DEF ConnectionsOK
    <2>2. CASE cEnd[cur] = "fin" /\ cEnd' = [cEnd EXCEPT ![cur] = "rst"]
               /\ UNCHANGED <<down, sEnd, backlog>>
      BY <2>2 DEF ConnectionsOK
    <2>3. CASE /\ Len(down[cur]) + n <= SockBuf
               /\ down' = [down EXCEPT ![cur] = down[cur] \o Front1(rest, n)]
               /\ UNCHANGED <<cEnd, sEnd, backlog>>
      <3>1. /\ down[cur] \o Front1(rest, n) \in Seq(Bytes)
            /\ Len(down[cur] \o Front1(rest, n)) = Len(down[cur]) + n
        <4>1. down[cur] \in Seq(Bytes)
          BY <1>0a DEF ConnectionsOK
        <4>2. \A s, t \in Seq(Bytes) : s \o t \in Seq(Bytes) /\ Len(s \o t) = Len(s) + Len(t)
          BY Joined
        <4> QED BY <1>0b, <4>1, <4>2
      <3> QED BY <1>0a, <2>3, <3>1 DEF ConnectionsOK
    <2> QED BY <2>1, <2>2, <2>3 DEF n
  <1>3. MainOK'
    <2>1. pc' = pc \/ pc' = "exited"
      BY ExitType
    <2>2. rest' = rest \/ rest' = Behind(rest, n)
      BY DEF n
    <2> QED BY <1>0a, <1>0b, <2>1, <2>2 DEF MainOK
  <1>4. FilesOK'
    BY DEF FilesOK
  <1>5. \A d \in Clients : off'[d] <= Len(Local[d])
    BY DEF ClientsOK
  <1> QED BY <1>1, <1>2, <1>3, <1>4, <1>5

\* SendEnd keeps the types.
LEMMA SendEndType == ASSUME TypeInv, SendEnd PROVE TypeInv'
  <1> USE DEF TypeInv, TypeOK, SendEnd
  <1>1. ClientsOK'
    BY DEF ClientsOK, Ended
  <1>2. ConnectionsOK'
    BY DEF ConnectionsOK
  <1>3. MainOK'
    BY DEF MainOK
  <1>4. FilesOK'
    BY DEF FilesOK
  <1>5. \A d \in Clients : off'[d] <= Len(Local[d])
    BY DEF ClientsOK
  <1> QED BY <1>1, <1>2, <1>3, <1>4, <1>5

\* What still arrives is a front of what is under way.
LEMMA ArriveType ==
  ASSUME ConnectionsOK, NEW c \in Clients, NEW k \in Arrive(c)
  PROVE  k \in 0..Len(down[c]) /\ Front1(down[c], k) \in Seq(Bytes) /\ Len(Front1(down[c], k)) = k
  <1>1. PICK s \in Seq(Bytes) : s = down[c]
    BY DEF ConnectionsOK
  <1>2. k \in 0..Len(s)
    BY <1>1 DEF Arrive
  <1>3. Front1(s, k) \in Seq(Bytes) /\ Len(Front1(s, k)) = k
    BY <1>2, Split
  <1> QED BY <1>1, <1>2, <1>3

\* Close keeps the types.
LEMMA CloseType == ASSUME TypeInv, Close PROVE TypeInv'
  <1> USE DEF TypeInv, TypeOK, Close
  <1>1. ClientsOK'
    BY DEF ClientsOK, Ended
  <1>0. /\ ConnectionsOK /\ cur \in Clients
        /\ down[cur] \in Seq(Bytes) /\ Len(down[cur]) \in Nat /\ SockBuf \in Nat
    BY TransferAssumption DEF MainOK, ConnectionsOK
  <1>0a. PICK k \in Arrive(cur) : down' = [down EXCEPT ![cur] = Front1(down[cur], k)]
    OBVIOUS
  <1>0b. k \in 0..Len(down[cur])
    BY <1>0, <1>0a, ArriveType
  <1>0c. Front1(down[cur], k) \in Seq(Bytes) /\ Len(Front1(down[cur], k)) = k
    BY <1>0, <1>0a, ArriveType
  <1>2. ConnectionsOK'
    <2>1. \A d \in Clients : Len(down'[d]) <= SockBuf
      BY <1>0, <1>0a, <1>0b, <1>0c DEF ConnectionsOK
    <2>2. down' \in [Clients -> Seq(Bytes)]
      BY <1>0, <1>0a, <1>0c DEF ConnectionsOK
    <2> QED BY <2>1, <2>2 DEF ConnectionsOK, ServerEnd
  <1>3. MainOK'
    BY DEF MainOK
  <1>4. FilesOK'
    BY DEF FilesOK
  <1>5. \A d \in Clients : off'[d] <= Len(Local[d])
    BY DEF ClientsOK
  <1> QED BY <1>1, <1>2, <1>3, <1>4, <1>5

\* Every step keeps the types.
LEMMA TypeStep == TypeInv /\ [Next]_vars => TypeInv'
  <1> SUFFICES ASSUME TypeInv, [Next]_vars PROVE TypeInv'
    OBVIOUS
  <1>1. CASE UNCHANGED vars
    BY <1>1 DEF vars, TypeInv, TypeOK, ClientsOK, ConnectionsOK, MainOK, FilesOK
  <1>2. ASSUME NEW c \in Clients, Connect(c) \/ ClientProgram(c) \/ Kill(c) PROVE TypeInv'
    BY <1>2, ConnectType, SendOpType, SendNameType, OpenType, SendFileType, SendFailsType,
       WriteFileType, FinishType, KillType DEF ClientProgram
  <1>3. CASE Server
    BY <1>3, AcceptType, RecvOperationType, RecvUploadNameType, RecvFileType,
       RecvDownloadNameType, SendBlockType, SendEndType, CloseType DEF Server
  <1> QED BY <1>1, <1>2, <1>3 DEF Next

LEMMA TypeAlways == Spec => []TypeInv
  BY InitType, TypeStep, PTL DEF Spec

\* Every variable keeps its type, however the bytes of the records come: no
\* name is longer than its buffer, no connection holds more than it can, and
\* the file that is written to has been opened.
THEOREM TransferTypeCorrect == Spec => []TypeOK
  <1>1. TypeInv => TypeOK
    BY DEF TypeInv
  <1> QED BY <1>1, TypeAlways, PTL
-----------------------------------------------------------------------------
(* The inductive invariant.                                                *)

Queued(c) == \E k \in DOMAIN backlog : backlog[k] = c

\* A client waits in the queue once, is then served and then closed.
Places ==
  /\ \A j, k \in DOMAIN backlog : j # k => backlog[j] # backlog[k]
  /\ \A c \in Clients : Queued(c) => phase[c] # "idle" /\ sEnd[c] = "open" /\ c # cur
  /\ cur # NULL => phase[cur] # "idle"
  /\ pc \notin {"accept", "exited"} => sEnd[cur] = "open"

\* What the phase of a client says of the file and of the connection.
Progress(c) ==
  /\ phase[c] \in Ended <=> cEnd[c] # "open"
  /\ phase[c] = "idle" => sEnd[c] = "open"
  /\ phase[c] \in {"idle", "connected", "asked", "named"} => off[c] = 0 /\ got[c] = NULL
  /\ IF c \in Uploaders THEN phase[c] \in {"done", "crashed"} => off[c] = Len(Local[c])
     ELSE off[c] = 0 /\ (phase[c] \in {"done", "crashed"} => sEnd[c] # "open")

\* A client may have sent n bytes.
Sent(c, n) ==
  /\ n \in {0, BUFFSIZE, 2 * BUFFSIZE, 2 * BUFFSIZE + off[c]}
  /\ phase[c] \in {"idle", "connected"} => n = 0
  /\ phase[c] = "asked" => n = BUFFSIZE
  /\ phase[c] = "named" => n = 2 * BUFFSIZE
  /\ phase[c] \in {"moving", "done", "crashed"} => n = 2 * BUFFSIZE + off[c]

\* Byte j of what a client sends: the operation, the name, the file.
Byte(c, j) == IF j <= BUFFSIZE THEN Padded(Op[c])[j]
              ELSE IF j <= 2 * BUFFSIZE THEN Over(Name[c], Padded(Op[c]))[j - BUFFSIZE]
              ELSE Local[c][j - 2 * BUFFSIZE]

\* With t bytes the operation was received, all of it if it is one the server
\* knows.
OpRead(c, t) ==
  /\ c \in Whole => t = BUFFSIZE
  /\ Op[c] \in {UPLOAD, DOWNLOAD} => t = BUFFSIZE \/ Byte(c, t + 1) = ZERO

\* s is what c sends behind its first t bytes.
Piece(s, c, t) == \A k \in 1..Len(s) : s[k] = Byte(c, t + k)

\* t bytes were received of c, and the rest of what it has sent is on its way.
OnTheWay(c, t) == Sent(c, t + Len(up[c])) /\ Piece(up[c], c, t)

\* No byte is lost before the file, a client that sends in one piece is
\* received record by record, and an operation is never read in part.
Records ==
  \A c \in Clients :
    /\ phase[c] = "idle" \/ Queued(c) \/ (pc = "operation" /\ c = cur) => OnTheWay(c, 0)
    /\ pc \in {"upload", "download"} /\ c = cur =>
         \E t \in 0..BUFFSIZE : OnTheWay(c, t) /\ OpRead(c, t)

\* File n is what c sent behind its first t bytes: all, or the rest is still
\* to come.
Upload(n, c, t) ==
  /\ c \in Whole => t = 2 * BUFFSIZE
  /\ Clean(c) => n = Name[c]
  /\ Piece(files[n], c, t)
  /\ IF c = cur /\ pc = "writefile"
     THEN n = filename /\ OnTheWay(c, t + Len(files[n]))
     ELSE /\ phase[c] \in Ended /\ Sent(c, t + Len(files[n]))
          /\ c \notin Uploaders => phase[c] \notin {"done", "crashed"}

\* What the server has are files of the start and uploads.
Stored ==
  /\ pc = "writefile" => filename \in DOMAIN owner /\ owner[filename] = cur
  /\ \A n \in DOMAIN owner : owner[n] = NULL =>
       n \in DOMAIN InitialFiles /\ files[n] = InitialFiles[n]
  /\ \A n \in DOMAIN owner, c \in Clients : owner[n] = c =>
       /\ phase[c] # "idle" /\ ~Queued(c)
       /\ c = cur => pc \in {"writefile", "close", "accept", "exited"}
       /\ \E t \in 0..(2 * BUFFSIZE) : Upload(n, c, t)

\* What c has, what is on its way to it and what has still to be sent.
Pending(c) == IF pc = "sendfile" /\ c = cur THEN rest ELSE <<>>
Gotten(c) == IF got[c] = NULL THEN <<>> ELSE got[c]

\* The file opened for c begins with s, and what is missing a reset discarded.
Begins(c, s) ==
  /\ s \in Seq(Bytes)
  /\ \E lost \in Seq(Bytes) : s \o lost = served[c].data /\ (sEnd[c] # "rst" => lost = <<>>)

\* What is sent to c is the file that was opened for it, in order.
Serves(c) ==
  /\ served[c] = NULL => down[c] = <<>> /\ Gotten(c) = <<>>
  /\ served[c] # NULL =>
       /\ phase[c] # "idle" /\ ~Queued(c)
       /\ c = cur => pc \in {"sendfile", "close", "accept", "exited"}
       /\ c \notin Uploaders =>
            /\ phase[c] \notin Ended => Begins(c, (Gotten(c) \o down[c]) \o Pending(c))
            /\ phase[c] = "done" => Begins(c, got[c])
  /\ pc = "sendfile" /\ c = cur => served[c] # NULL

DataInv == Places /\ (\A c \in Clients : Progress(c) /\ Serves(c)) /\ Records /\ Stored

-----------------------------------------------------------------------------
(* What is on its way.                                                     *)

\* The three parts of what a client sends.
LEMMA ByteParts ==
  ASSUME NEW c \in Clients
  PROVE  /\ \A k \in 1..BUFFSIZE : Byte(c, k) = Padded(Op[c])[k]
         /\ \A k \in 1..BUFFSIZE : Byte(c, BUFFSIZE + k) = Over(Name[c], Padded(Op[c]))[k]
         /\ \A k \in Nat : k # 0 => Byte(c, 2 * BUFFSIZE + k) = Local[c][k]
  <1>1. BUFFSIZE \in Nat \ {0}
    BY TransferAssumption
  <1>2. ASSUME NEW k \in 1..BUFFSIZE PROVE Byte(c, BUFFSIZE + k) = Over(Name[c], Padded(Op[c]))[k]
    <2>1. BUFFSIZE + k > BUFFSIZE /\ BUFFSIZE + k <= 2 * BUFFSIZE /\ (BUFFSIZE + k) - BUFFSIZE = k
      BY <1>1
    <2> QED BY <1>1, <2>1 DEF Byte
  <1>3. ASSUME NEW k \in Nat, k # 0 PROVE Byte(c, 2 * BUFFSIZE + k) = Local[c][k]
    <2>1. /\ 2 * BUFFSIZE + k > BUFFSIZE /\ 2 * BUFFSIZE + k > 2 * BUFFSIZE
          /\ (2 * BUFFSIZE + k) - 2 * BUFFSIZE = k
      BY <1>1, <1>3
    <2> QED BY <1>1, <2>1 DEF Byte
  <1> QED BY <1>1, <1>2, <1>3 DEF Byte

\* More of what a client sends.
LEMMA PieceMore ==
  ASSUME NEW c \in Clients, NEW m \in Nat, NEW s \in Seq(Bytes), NEW t \in Seq(Bytes),
         Piece(s, c, m), Piece(t, c, m + Len(s))
  PROVE  Piece(s \o t, c, m) /\ Len(s \o t) = Len(s) + Len(t)
  <1>1. /\ Len(s \o t) = Len(s) + Len(t) /\ Len(s) \in Nat /\ Len(t) \in Nat
        /\ \A i \in 1..Len(s) : (s \o t)[i] = s[i]
        /\ \A i \in 1..Len(t) : (s \o t)[Len(s) + i] = t[i]
    BY Joined
  <1>2. ASSUME NEW k \in 1..Len(s \o t) PROVE (s \o t)[k] = Byte(c, m + k)
    <2>1. CASE k <= Len(s)
      BY <1>1, <2>1 DEF Piece
    <2>2. CASE k > Len(s)
      <3> DEFINE i == k - Len(s)
      <3>1. i \in 1..Len(t) /\ k = Len(s) + i /\ m + k = (m + Len(s)) + i
        BY <1>1, <2>2
      <3> HIDE DEF i
      <3> QED BY <1>1, <3>1 DEF Piece
    <2> QED BY <1>1, <2>1, <2>2
  <1> QED BY <1>1, <1>2 DEF Piece

\* A piece in two.
LEMMA PieceSplit ==
  ASSUME NEW c \in Clients, NEW m \in Nat, NEW s \in Seq(Bytes), NEW k \in 0..Len(s),
         Piece(s, c, m)
  PROVE  Piece(Front1(s, k), c, m) /\ Piece(Behind(s, k), c, m + k)
  <1>1. /\ Len(Front1(s, k)) = k /\ Len(Behind(s, k)) = Len(s) - k /\ Len(s) \in Nat
        /\ \A j \in 1..k : Front1(s, k)[j] = s[j]
        /\ \A j \in 1..(Len(s) - k) : Behind(s, k)[j] = s[k + j]
    BY Split
  <1>2. \A j \in 1..(Len(s) - k) : k + j \in 1..Len(s) /\ m + (k + j) = (m + k) + j
    BY <1>1
  <1>3. \A j \in 1..k : j \in 1..Len(s)
    BY <1>1
  <1> QED BY <1>1, <1>2, <1>3 DEF Piece

\* How much may have been sent, in numbers.
LEMMA SentRange ==
  ASSUME TypeInv, NEW c \in Clients, NEW n, Sent(c, n)
  PROVE  n \in Nat /\ n <= 2 * BUFFSIZE + off[c] /\ off[c] \in Nat /\ off[c] <= Len(Local[c])
         /\ (n = 0 \/ n = BUFFSIZE \/ n >= 2 * BUFFSIZE)
  <1>1. BUFFSIZE \in Nat \ {0} /\ off[c] \in Nat /\ off[c] <= Len(Local[c])
    BY TransferAssumption DEF TypeInv, TypeOK, ClientsOK
  <1> QED BY <1>1 DEF Sent

-----------------------------------------------------------------------------
(* The steps of clients.                                                   *)

\* What a step of a client comes to.
Moves(c) ==
  /\ phase[c] \notin {"idle"} \cup Ended /\ phase'[c] # "idle"
  /\ \A d \in Clients : d # c =>
       /\ phase'[d] = phase[d] /\ off'[d] = off[d] /\ got'[d] = got[d]
       /\ up'[d] = up[d] /\ down'[d] = down[d] /\ cEnd'[d] = cEnd[d]
  /\ UNCHANGED <<sEnd, backlog, pc, cur, filename, rest, files, owner, served>>
  /\ Progress(c)' /\ Serves(c)'
  /\ sEnd[c] = "open" => \A t \in Nat : OnTheWay(c, t) => OnTheWay(c, t)'

\* What is on its way of the others stays as it is.
LEMMA OthersWay ==
  ASSUME NEW d \in Clients, NEW t, OnTheWay(d, t),
         phase'[d] = phase[d], off'[d] = off[d], up'[d] = up[d]
  PROVE  OnTheWay(d, t)'
  BY DEF OnTheWay, Sent, Piece

\* A step of a client keeps the invariant.
LEMMA MovesKeep ==
  ASSUME TypeInv, DataInv, NEW c \in Clients, Moves(c) PROVE DataInv'
  <1>1. \A d \in Clients : Queued(d)' <=> Queued(d)
    BY DEF Queued, Moves
  <1>2. Places'
    <2>1. \A d \in Clients : phase'[d] = "idle" <=> phase[d] = "idle"
      BY DEF Moves
    <2>2. cur # NULL => cur \in Clients
      BY DEF TypeInv, TypeOK, MainOK
    <2> QED BY <1>1, <2>1, <2>2 DEF Places, Moves, DataInv
  <1>3. \A d \in Clients : Progress(d)' /\ Serves(d)'
    <2> SUFFICES ASSUME NEW d \in Clients, d # c PROVE Progress(d)' /\ Serves(d)'
      BY DEF Moves
    <2>1. /\ phase'[d] = phase[d] /\ off'[d] = off[d] /\ got'[d] = got[d]
          /\ up'[d] = up[d] /\ down'[d] = down[d] /\ cEnd'[d] = cEnd[d]
          /\ UNCHANGED <<sEnd, backlog, pc, cur, rest, served>>
      BY DEF Moves
    <2>2. Progress(d) /\ Serves(d)
      BY DEF DataInv
    <2>3. Progress(d)'
      BY <2>1, <2>2 DEF Progress
    <2>4. Gotten(d)' = Gotten(d) /\ Pending(d)' = Pending(d)
      BY <2>1 DEF Gotten, Pending
    <2>5. Serves(d)'
      BY <1>1, <2>1, <2>2, <2>4 DEF Serves, Begins
    <2> QED BY <2>3, <2>5
  <1>4. ASSUME NEW d \in Clients, NEW t \in Nat, OnTheWay(d, t), sEnd[d] = "open"
        PROVE  OnTheWay(d, t)'
    <2>1. CASE d = c
      BY <1>4, <2>1 DEF Moves
    <2>2. CASE d # c
      BY <1>4, <2>2, OthersWay DEF Moves
    <2> QED BY <2>1, <2>2
  <1>5. Records'
    <2>1. ASSUME NEW d \in Clients, (phase[d] = "idle" \/ Queued(d) \/ (pc = "operation" /\ d = cur))'
          PROVE  OnTheWay(d, 0)'
      <3>1. phase[d] = "idle" \/ Queued(d) \/ (pc = "operation" /\ d = cur)
        BY <1>1, <2>1 DEF Moves
      <3>2. OnTheWay(d, 0)
        BY <3>1 DEF DataInv, Records
      <3>3. sEnd[d] = "open"
        BY <3>1 DEF DataInv, Places, Progress
      <3> QED BY <1>4, <3>2, <3>3
    <2>2. ASSUME NEW d \in Clients, (pc \in {"upload", "download"} /\ d = cur)'
          PROVE  \E t \in 0..BUFFSIZE : OnTheWay(d, t)' /\ OpRead(d, t)
      <3>1. pc \in {"upload", "download"} /\ d = cur
        BY <2>2 DEF Moves
      <3>2. sEnd[d] = "open" /\ BUFFSIZE \in Nat
        BY <3>1, TransferAssumption DEF DataInv, Places
      <3>3. PICK t \in 0..BUFFSIZE : OnTheWay(d, t) /\ OpRead(d, t)
        BY <3>1 DEF DataInv, Records
      <3>4. t \in Nat
        BY <3>2
      <3>5. OnTheWay(d, t)'
        BY <1>4, <3>2, <3>3, <3>4
      <3> QED BY <3>3, <3>5
    <2> QED BY <2>1, <2>2 DEF Records, OpRead, Byte
  <1>6. Stored'
    <2>1. /\ UNCHANGED <<files, owner, filename, pc, cur>>
          /\ Stored
      BY DEF Moves, DataInv
    <2>2. ASSUME NEW n \in DOMAIN owner, owner[n] # NULL, NEW t \in 0..(2 * BUFFSIZE),
                 NEW d \in Clients, d = owner[n], Upload(n, d, t)
          PROVE  Upload(n, d, t)'
      <3>1. BUFFSIZE \in Nat /\ files[n] \in Seq(Bytes) /\ Len(files[n]) \in Nat
        BY TransferAssumption DEF TypeInv, TypeOK, FilesOK
      <3>2. t + Len(files[n]) \in Nat
        BY <3>1
      <3>3. CASE d = cur /\ pc = "writefile"
        <4>1. OnTheWay(d, t + Len(files[n])) /\ sEnd[d] = "open"
          BY <2>2, <3>3 DEF Upload, DataInv, Places
        <4>2. OnTheWay(d, t + Len(files[n]))'
          <5>1. PICK m \in Nat : m = t + Len(files[n])
            BY <3>2
          <5>2. OnTheWay(d, m)
            BY <4>1, <5>1
          <5>3. OnTheWay(d, m)'
            BY <1>4, <4>1, <5>2
          <5>4. m = t + Len(files'[n])
            BY <2>1, <5>1
          <5> QED BY <5>3, <5>4 DEF OnTheWay, Sent, Piece
        <4> QED BY <2>1, <2>2, <3>3, <4>2 DEF Upload, Piece
      <3>4. CASE ~(d = cur /\ pc = "writefile")
        <4>1. phase[d] \in Ended /\ Sent(d, t + Len(files[n]))
          BY <2>2, <3>4 DEF Upload
        <4>2. d # c
          BY <4>1 DEF Moves
        <4>3. phase'[d] = phase[d] /\ off'[d] = off[d]
          BY <4>2 DEF Moves
        <4> QED BY <2>1, <2>2, <3>4, <4>1, <4>3 DEF Upload, Piece, Sent
      <3> QED BY <3>3, <3>4
    <2>3. \A d \in Clients : phase[d] # "idle" => phase'[d] # "idle"
      BY DEF Moves
    <2>4. ASSUME NEW n \in DOMAIN owner, NEW d \in Clients, owner[n] = d
          PROVE  /\ phase'[d] # "idle" /\ ~Queued(d)'
                 /\ d = cur => pc \in {"writefile", "close", "accept", "exited"}
                 /\ \E t \in 0..(2 * BUFFSIZE) : Upload(n, d, t)'
      <3>1. /\ phase[d] # "idle" /\ ~Queued(d) /\ owner[n] # NULL
            /\ d = cur => pc \in {"writefile", "close", "accept", "exited"}
            /\ \E t \in 0..(2 * BUFFSIZE) : Upload(n, d, t)
        BY <2>1, <2>4, TransferAssumption DEF Stored
      <3>2. \E t \in 0..(2 * BUFFSIZE) : Upload(n, d, t)'
        BY <2>2, <2>4, <3>1
      <3> QED BY <1>1, <2>3, <3>1, <3>2
    <2> QED BY <2>1, <2>4 DEF Stored
  <1> QED BY <1>2, <1>3, <1>5, <1>6 DEF DataInv

\* What is sent to a server that has not closed is on its way.
LEMMA SendWay ==
  ASSUME TypeInv, NEW c \in Clients, NEW bytes \in Seq(Bytes), Send(c, bytes),
         sEnd[c] = "open", NEW t \in Nat, OnTheWay(c, t), NEW m \in Nat, m = t + Len(up[c]),
         Piece(bytes, c, m), NEW n \in Nat, n = m + Len(bytes), Sent(c, n)'
  PROVE  OnTheWay(c, t)'
  <1>1. up[c] \in Seq(Bytes) /\ Len(up[c]) \in Nat /\ Len(bytes) \in Nat
    BY DEF TypeInv, TypeOK, ConnectionsOK
  <1>2. up'[c] = up[c] \o bytes
    BY DEF TypeInv, TypeOK, ConnectionsOK, Send
  <1>3. Piece(up[c] \o bytes, c, t) /\ Len(up[c] \o bytes) = Len(up[c]) + Len(bytes)
    BY <1>1, PieceMore DEF OnTheWay
  <1>4. t + Len(up'[c]) = n
    BY <1>1, <1>2, <1>3
  <1>5. PICK s \in Seq(Bytes) : s = up'[c] /\ Piece(s, c, t)
    BY <1>1, <1>2, <1>3, Joined
  <1> QED BY <1>4, <1>5 DEF OnTheWay, Piece, Sent

\* What c is sent stays right if it takes nothing, or comes to another end
\* than that of a complete download.
LEMMA ServesSame ==
  ASSUME NEW c \in Clients, Serves(c), phase[c] \notin Ended, phase'[c] \notin {"idle", "done"},
         UNCHANGED <<backlog, served, pc, cur, rest, sEnd>>, down'[c] = down[c],
         \/ Gotten(c)' = Gotten(c)
         \/ phase'[c] \in Ended /\ (Gotten(c) = <<>> => Gotten(c)' = <<>>)
  PROVE  Serves(c)'
  <1>1. Queued(c)' = Queued(c) /\ Pending(c)' = Pending(c)
    BY DEF Queued, Pending
  <1> QED BY <1>1 DEF Serves, Begins

\* Phase, end and file of who takes no step.
LEMMA LeaveMoves ==
  ASSUME TypeInv, DataInv, NEW c \in Clients, NEW how \in Ended \ {"done"}, Leave(c, how),
         phase[c] \notin {"idle"} \cup Ended, UNCHANGED <<off, up, down>>,
         UNCHANGED <<sEnd, backlog, pc, cur, filename, rest, files, owner, served>>,
         how = "crashed" => IF c \in Uploaders THEN off[c] = Len(Local[c]) ELSE sEnd[c] # "open",
         how = "crashed" => phase[c] = "moving",
         UNCHANGED got \/ got' = [got EXCEPT ![c] = Flushed(@)]
  PROVE  Moves(c)
  <1>1. Progress(c) /\ Serves(c) /\ ClientsOK /\ ConnectionsOK
    BY DEF DataInv, TypeInv, TypeOK
  <1>2. /\ phase'[c] = how /\ cEnd'[c] # "open"
        /\ \A d \in Clients : d # c => phase'[d] = phase[d] /\ cEnd'[d] = cEnd[d]
    BY <1>1, LeaveType
  <1>3. how \notin {"idle", "connected", "asked", "named", "moving", "done"}
    BY DEF Ended
  <1>4. Progress(c)'
    BY <1>1, <1>2, <1>3 DEF Progress, Ended
  <1>5. Gotten(c) = <<>> => Gotten(c)' = <<>>
    BY <1>1 DEF Gotten, Flushed, ClientsOK
  <1>6. Serves(c)'
    BY <1>1, <1>2, <1>3, <1>5, ServesSame
  <1>7. ASSUME NEW t \in Nat, OnTheWay(c, t) PROVE OnTheWay(c, t)'
    <2>1. Sent(c, t + Len(up[c])) /\ Piece(up[c], c, t)
      BY <1>7 DEF OnTheWay
    <2> QED BY <1>2, <1>3, <2>1 DEF OnTheWay, Sent, Piece, Ended
  <1>8. \A d \in Clients : d # c => got'[d] = got[d]
    BY <1>1 DEF ClientsOK
  <1> QED BY <1>2, <1>3, <1>4, <1>6, <1>7, <1>8 DEF Moves, Ended

LEMMA SendOpMoves ==
  ASSUME TypeInv, DataInv, NEW c \in Clients, SendOp(c) PROVE Moves(c)
  <1> USE DEF SendOp
  <1> DEFINE record == Padded(Op[c])
  <1>1. Progress(c) /\ Serves(c) /\ ClientsOK /\ ConnectionsOK /\ up \in [Clients -> Seq(Bytes)]
    BY DEF DataInv, TypeInv, TypeOK, ConnectionsOK
  <1>2. phase'[c] = "asked" /\ \A d \in Clients : d # c => phase'[d] = phase[d] /\ up'[d] = up[d]
    BY <1>1 DEF ClientsOK, Send
  <1>3. Progress(c)'
    BY <1>1, <1>2 DEF Progress, Ended
  <1>4. Serves(c)'
    BY <1>1, <1>2, ServesSame DEF Gotten, Ended
  <1>5. ASSUME sEnd[c] = "open", NEW t \in Nat, OnTheWay(c, t) PROVE OnTheWay(c, t)'
    <2>1. 0 = t + Len(up[c])
      BY <1>5 DEF OnTheWay, Sent
    <2>2. record \in Seq(Bytes) /\ Len(record) = BUFFSIZE /\ BUFFSIZE \in Nat
      BY Sendings
    <2>3. Piece(record, c, 0)
      BY <2>2, ByteParts DEF Piece
    <2>4. Sent(c, BUFFSIZE)'
      BY <1>2 DEF Sent
    <2>5. Send(c, record) /\ BUFFSIZE = 0 + Len(record)
      BY <2>2
    <2> HIDE DEF record
    <2> QED BY <1>5, <2>1, <2>2, <2>3, <2>4, <2>5, SendWay
  <1> QED BY <1>2, <1>3, <1>4, <1>5 DEF Moves, Ended

LEMMA SendNameMoves ==
  ASSUME TypeInv, DataInv, NEW c \in Clients, SendName(c) PROVE Moves(c)
  <1> USE DEF SendName
  <1> DEFINE record == Over(Name[c], Padded(Op[c]))
  <1>1. Progress(c) /\ Serves(c) /\ ClientsOK /\ ConnectionsOK /\ up \in [Clients -> Seq(Bytes)]
    BY DEF DataInv, TypeInv, TypeOK, ConnectionsOK
  <1>2. phase'[c] = "named" /\ \A d \in Clients : d # c => phase'[d] = phase[d] /\ up'[d] = up[d]
    BY <1>1 DEF ClientsOK, Send
  <1>3. Progress(c)'
    BY <1>1, <1>2 DEF Progress, Ended
  <1>4. Serves(c)'
    BY <1>1, <1>2, ServesSame DEF Gotten, Ended
  <1>5. ASSUME sEnd[c] = "open", NEW t \in Nat, OnTheWay(c, t) PROVE OnTheWay(c, t)'
    <2>1. BUFFSIZE = t + Len(up[c])
      BY <1>5 DEF OnTheWay, Sent
    <2>2. record \in Seq(Bytes) /\ Len(record) = BUFFSIZE /\ BUFFSIZE \in Nat
      BY Sendings
    <2>3. Piece(record, c, BUFFSIZE)
      BY <2>2, ByteParts DEF Piece
    <2>4. PICK n \in Nat : n = 2 * BUFFSIZE /\ n = BUFFSIZE + Len(record)
      BY <2>2
    <2>5. Sent(c, n)'
      BY <1>2, <2>4 DEF Sent
    <2>6. Send(c, record)
      OBVIOUS
    <2> HIDE DEF record
    <2> QED BY <1>5, <2>1, <2>2, <2>3, <2>4, <2>5, <2>6, SendWay
  <1> QED BY <1>2, <1>3, <1>4, <1>5 DEF Moves, Ended

LEMMA OpenMoves ==
  ASSUME TypeInv, DataInv, NEW c \in Clients, Open(c) PROVE Moves(c)
  <1>1. Progress(c) /\ Serves(c) /\ ClientsOK /\ ConnectionsOK /\ phase[c] = "named"
    BY DEF DataInv, TypeInv, TypeOK, Open
  <1>2. CASE Leave(c, "failed") /\ UNCHANGED got
    BY <1>1, <1>2, LeaveMoves DEF Open, Ended
  <1>3. CASE /\ phase' = [phase EXCEPT ![c] = "moving"]
             /\ got' = [got EXCEPT ![c] = IF c \in Uploaders THEN NULL ELSE <<>>]
             /\ UNCHANGED cEnd
    <2>1. /\ phase'[c] = "moving" /\ got'[c] \in {NULL, <<>>} /\ got[c] = NULL /\ off[c] = 0
          /\ \A d \in Clients : d # c => phase'[d] = phase[d] /\ got'[d] = got[d]
          /\ UNCHANGED <<off, up, down, sEnd, backlog, pc, cur, filename, rest, files, owner, served>>
      BY <1>1, <1>3 DEF Open, ClientsOK, Progress
    <2>2. Progress(c)'
      BY <1>1, <1>3, <2>1 DEF Progress, Ended
    <2>3. Gotten(c)' = Gotten(c)
      BY <2>1 DEF Gotten
    <2>4. Serves(c)'
      BY <1>1, <2>1, <2>3, ServesSame DEF Ended
    <2>5. ASSUME NEW t \in Nat, OnTheWay(c, t) PROVE OnTheWay(c, t)'
      <3>1. t + Len(up[c]) = 2 * BUFFSIZE /\ Piece(up[c], c, t)
        BY <1>1, <2>5 DEF OnTheWay, Sent
      <3>2. BUFFSIZE \in Nat
        BY TransferAssumption
      <3>3. t + Len(up'[c]) = 2 * BUFFSIZE /\ t + Len(up'[c]) = 2 * BUFFSIZE + off'[c]
        BY <2>1, <3>1, <3>2
      <3> QED BY <2>1, <3>1, <3>3 DEF OnTheWay, Sent, Piece
    <2> QED BY <1>1, <1>3, <2>1, <2>2, <2>4, <2>5 DEF Moves, Ended
  <1> QED BY <1>2, <1>3 DEF Open

LEMMA SendFileMoves ==
  ASSUME TypeInv, DataInv, NEW c \in Clients, SendFile(c) PROVE Moves(c)
  <1> DEFINE n == Least(BUFFSIZE, Len(Local[c]) - off[c])
             part == SubSeq(Local[c], off[c] + 1, off[c] + n)
  <1>1. Progress(c) /\ Serves(c) /\ ClientsOK /\ ConnectionsOK /\ up \in [Clients -> Seq(Bytes)]
    BY DEF DataInv, TypeInv, TypeOK, ConnectionsOK
  <1>2. /\ phase[c] = "moving" /\ c \in Uploaders /\ off[c] < Len(Local[c])
        /\ Send(c, part) /\ off' = [off EXCEPT ![c] = off[c] + n]
        /\ UNCHANGED <<phase, got, down, cEnd, sEnd, backlog, pc, cur, filename, rest, files, owner, served>>
    BY DEF SendFile
  <1>3. /\ n \in Nat \ {0} /\ off[c] + n <= Len(Local[c]) /\ off[c] \in Nat
        /\ part \in Seq(Bytes) /\ Len(part) = n
        /\ \A k \in 1..n : part[k] = Local[c][off[c] + k]
    BY <1>2, FilePart DEF TypeInv
  <1> HIDE DEF n, part
  <1>4. off'[c] = off[c] + n /\ \A d \in Clients : d # c => off'[d] = off[d] /\ up'[d] = up[d]
    BY <1>1, <1>2 DEF ClientsOK, Send
  <1>5. Progress(c)'
    BY <1>1, <1>2, <1>4 DEF Progress, Ended
  <1>6. Serves(c)'
    BY <1>1, <1>2, ServesSame DEF Gotten, Ended
  <1>7. ASSUME sEnd[c] = "open", NEW t \in Nat, OnTheWay(c, t) PROVE OnTheWay(c, t)'
    <2>2. BUFFSIZE \in Nat
      BY TransferAssumption
    <2>1. PICK m \in Nat : m = t + Len(up[c]) /\ m = 2 * BUFFSIZE + off[c]
      BY <1>2, <1>3, <1>7, <2>2 DEF OnTheWay, Sent
    <2>3. ASSUME NEW k \in 1..n PROVE part[k] = Byte(c, m + k)
      <3>1. /\ off[c] + k \in Nat /\ off[c] + k # 0
            /\ m + k = 2 * BUFFSIZE + (off[c] + k)
        BY <1>3, <2>1, <2>2
      <3> QED BY <1>3, <3>1, ByteParts
    <2>4. Piece(part, c, m)
      BY <1>3, <2>3 DEF Piece
    <2>5. PICK l \in Nat : l = m + Len(part) /\ l = 2 * BUFFSIZE + off'[c]
      <3>1. m + n \in Nat /\ m + n = 2 * BUFFSIZE + (off[c] + n)
        <4>1. n \in Nat /\ off[c] \in Nat /\ m \in Nat /\ m = 2 * BUFFSIZE + off[c]
          BY <1>3, <2>1
        <4> QED BY <2>2, <4>1
      <3>2. Len(part) = n /\ off'[c] = off[c] + n
        BY <1>3, <1>4
      <3> QED BY <3>1, <3>2
    <2>6. Sent(c, l)'
      BY <1>2, <2>5 DEF Sent
    <2> QED BY <1>2, <1>3, <1>7, <2>1, <2>4, <2>5, <2>6, SendWay
  <1> QED BY <1>2, <1>4, <1>5, <1>6, <1>7 DEF Moves, Ended

LEMMA SendFailsMoves ==
  ASSUME TypeInv, DataInv, NEW c \in Clients, SendFails(c) PROVE Moves(c)
  BY LeaveMoves DEF SendFails, Ended

LEMMA KillMoves ==
  ASSUME TypeInv, DataInv, NEW c \in Clients, Kill(c) PROVE Moves(c)
  BY LeaveMoves DEF Kill, Ended

LEMMA WriteFileMoves ==
  ASSUME TypeInv, DataInv, NEW c \in Clients, WriteFile(c) PROVE Moves(c)
  <1>1. Progress(c) /\ Serves(c) /\ ClientsOK /\ ConnectionsOK
    BY DEF DataInv, TypeInv, TypeOK
  <1>2. PICK k \in 0..Len(down[c]) :
          /\ got' = [got EXCEPT ![c] = got[c] \o Front1(down[c], k)]
          /\ down' = [down EXCEPT ![c] = Behind(down[c], k)]
          /\ got[c] \in Seq(Bytes) /\ down[c] \in Seq(Bytes)
          /\ got[c] \o Front1(down[c], k) \in Seq(Bytes)
          /\ got[c] \o Front1(down[c], k) # NULL
          /\ Behind(down[c], k) \in Seq(Bytes)
          /\ Front1(down[c], k) \in Seq(Bytes)
          /\ Front1(down[c], k) \o Behind(down[c], k) = down[c]
    BY WrittenPart DEF TypeInv
  <1>3. /\ phase[c] = "moving" /\ down[c] # <<>>
        /\ UNCHANGED <<phase, off, up, cEnd, sEnd, backlog, pc, cur, filename, rest, files, owner, served>>
    BY DEF WriteFile
  <1>4. /\ got'[c] = got[c] \o Front1(down[c], k) /\ down'[c] = Behind(down[c], k)
        /\ \A d \in Clients : d # c => got'[d] = got[d] /\ down'[d] = down[d]
    BY <1>1, <1>2 DEF ClientsOK, ConnectionsOK
  <1>5. Progress(c)'
    BY <1>1, <1>3 DEF Progress, Ended
  <1>6. Gotten(c)' = got[c] \o Front1(down[c], k) /\ Gotten(c) = got[c]
    BY <1>2, <1>4, TransferAssumption DEF Gotten
  <1>7. Gotten(c)' \o down'[c] = Gotten(c) \o down[c]
    <2>1. got[c] \in Seq(Bytes) /\ down[c] \in Seq(Bytes)
      BY <1>2
    <2>2. (got[c] \o Front1(down[c], k)) \o Behind(down[c], k) = got[c] \o down[c]
      BY <2>1, Passed
    <2> QED BY <1>4, <1>6, <2>2
  <1>8. Serves(c)'
    <2>1. Queued(c)' = Queued(c) /\ Pending(c)' = Pending(c)
      BY <1>3 DEF Queued, Pending
    <2> QED BY <1>1, <1>3, <1>7, <2>1 DEF Serves, Begins, Ended
  <1>9. \A t \in Nat : OnTheWay(c, t) => OnTheWay(c, t)'
    BY <1>3 DEF OnTheWay, Sent, Piece
  <1> QED BY <1>3, <1>4, <1>5, <1>8, <1>9 DEF Moves, Ended

LEMMA FinishMoves ==
  ASSUME TypeInv, DataInv, NEW c \in Clients, Finish(c) PROVE Moves(c)
  <1>1. /\ phase[c] = "moving"
        /\ IF c \in Uploaders THEN off[c] = Len(Local[c]) ELSE down[c] = <<>> /\ sEnd[c] # "open"
        /\ UNCHANGED <<off, up, down, sEnd, backlog, pc, cur, filename, rest, files, owner, served>>
    BY DEF Finish
  <1>2. CASE Leave(c, "crashed") /\ got' = [got EXCEPT ![c] = Flushed(got[c])]
    BY <1>1, <1>2, LeaveMoves DEF Ended
  <1>3. CASE Leave(c, "done") /\ UNCHANGED got
    <2>1. Progress(c) /\ Serves(c) /\ ClientsOK /\ ConnectionsOK
      BY DEF DataInv, TypeInv, TypeOK
    <2>2. /\ phase'[c] = "done" /\ cEnd'[c] # "open"
          /\ \A d \in Clients : d # c => phase'[d] = phase[d] /\ cEnd'[d] = cEnd[d]
      BY <1>3, <2>1, LeaveType DEF Ended
    <2>3. Progress(c)'
      BY <1>1, <1>3, <2>1, <2>2 DEF Progress, Ended
    <2>4. Queued(c)' = Queued(c) /\ Pending(c)' = Pending(c) /\ Gotten(c)' = Gotten(c)
      BY <1>1, <1>3 DEF Queued, Pending, Gotten
    <2>5. ASSUME c \notin Uploaders, served[c] # NULL PROVE Begins(c, got[c])
      <3>1. pc # "sendfile" \/ c # cur
        BY <1>1, <2>5 DEF DataInv, Places
      <3>2. Pending(c) = <<>> /\ down[c] = <<>>
        BY <1>1, <2>5, <3>1 DEF Pending
      <3>3. got[c] \in Seq(Bytes) /\ got[c] # NULL
        BY <1>1, <2>1, <2>5 DEF ClientsOK
      <3>4. Begins(c, (Gotten(c) \o down[c]) \o Pending(c))
        BY <1>1, <2>1, <2>5 DEF Serves, Ended
      <3>5. (got[c] \o <<>>) \o <<>> = got[c]
        BY <3>3, ConcatEmptySeq
      <3> QED BY <3>2, <3>3, <3>4, <3>5 DEF Gotten
    <2>6. Serves(c)'
      BY <1>1, <1>3, <2>1, <2>2, <2>4, <2>5 DEF Serves, Begins, Ended
    <2>7. \A t \in Nat : OnTheWay(c, t) => OnTheWay(c, t)'
      BY <1>1, <2>2 DEF OnTheWay, Sent, Piece
    <2> QED BY <1>1, <1>3, <2>2, <2>3, <2>6, <2>7 DEF Moves, Ended
  <1> QED BY <1>2, <1>3 DEF Finish

\* Connect: one more in the queue.
LEMMA ConnectKeeps ==
  ASSUME TypeInv, DataInv, NEW c \in Clients, Connect(c) PROVE DataInv'
  <1>1. /\ phase[c] = "idle" /\ phase'[c] = "connected" /\ backlog' = Append(backlog, c)
        /\ \A d \in Clients : d # c => phase'[d] = phase[d]
        /\ UNCHANGED <<off, got, up, down, cEnd, sEnd, pc, cur, filename, rest, files, owner, served>>
    BY DEF Connect, TypeInv, TypeOK, ClientsOK
  <1>2. backlog \in Seq(Clients) /\ Places /\ Progress(c) /\ Serves(c) /\ Records /\ Stored
    BY DEF TypeInv, TypeOK, ConnectionsOK, DataInv
  <1>3. /\ DOMAIN backlog = 1..Len(backlog) /\ DOMAIN backlog' = 1..(Len(backlog) + 1)
        /\ Len(backlog) \in Nat
        /\ \A k \in 1..Len(backlog) : backlog'[k] = backlog[k]
        /\ backlog'[Len(backlog) + 1] = c
    BY <1>1, <1>2
  <1>4. \A d \in Clients : Queued(d)' <=> Queued(d) \/ d = c
    BY <1>3 DEF Queued
  <1>5. ~Queued(c)
    BY <1>1, <1>2 DEF Places
  <1>6. Places'
    <2>1. \A j, k \in DOMAIN backlog' : j # k => backlog'[j] # backlog'[k]
      BY <1>2, <1>3, <1>5 DEF Places, Queued
    <2>2. \A d \in Clients : Queued(d)' => phase'[d] # "idle" /\ sEnd'[d] = "open" /\ d # cur'
      BY <1>1, <1>2, <1>4, TransferAssumption DEF Places, Progress
    <2>3. cur # NULL => phase'[cur] # "idle"
      BY <1>1, <1>2 DEF Places, TypeInv, TypeOK, MainOK
    <2> QED BY <1>1, <1>2, <2>1, <2>2, <2>3 DEF Places
  <1>7. \A d \in Clients : Progress(d)' /\ Serves(d)'
    <2>1. Progress(c)'
      BY <1>1, <1>2 DEF Progress, Ended
    <2>2. \A d \in Clients : Gotten(d)' = Gotten(d) /\ Pending(d)' = Pending(d)
      BY <1>1 DEF Gotten, Pending
    <2>3. Serves(c)'
      BY <1>1, <1>2, <2>2 DEF Serves, Begins
    <2>4. ASSUME NEW d \in Clients, d # c PROVE Progress(d)' /\ Serves(d)'
      <3>1. Progress(d) /\ Serves(d) /\ phase'[d] = phase[d]
        BY <1>1, <2>4 DEF DataInv
      <3>2. Progress(d)'
        BY <1>1, <3>1 DEF Progress
      <3>3. Serves(d)'
        BY <1>1, <1>4, <2>2, <2>4, <3>1 DEF Serves, Begins
      <3> QED BY <3>2, <3>3
    <2> QED BY <2>1, <2>3, <2>4
  <1>8. Records'
    <2>1. ASSUME NEW d \in Clients, NEW t, OnTheWay(d, t) PROVE OnTheWay(d, t)'
      <3>1. CASE d = c
        BY <1>1, <2>1, <3>1 DEF OnTheWay, Sent, Piece
      <3>2. CASE d # c
        BY <1>1, <2>1, <3>2, OthersWay
      <3> QED BY <3>1, <3>2
    <2>2. \A d \in Clients : (phase'[d] = "idle" \/ Queued(d)') => (phase[d] = "idle" \/ Queued(d))
      BY <1>1, <1>4
    <2> QED BY <1>1, <1>2, <2>1, <2>2 DEF Records
  <1>9. Stored'
    <2>1. ASSUME NEW n \in DOMAIN owner, NEW d \in Clients, d # c, NEW t, Upload(n, d, t)
          PROVE  Upload(n, d, t)'
      BY <1>1, <2>1 DEF Upload, Piece, OnTheWay, Sent
    <2>2. ASSUME NEW n \in DOMAIN owner, NEW d \in Clients, owner[n] = d
          PROVE  /\ phase'[d] # "idle" /\ ~Queued(d)'
                 /\ d = cur => pc \in {"writefile", "close", "accept", "exited"}
                 /\ \E t \in 0..(2 * BUFFSIZE) : Upload(n, d, t)'
      <3>1. /\ phase[d] # "idle" /\ ~Queued(d)
            /\ d = cur => pc \in {"writefile", "close", "accept", "exited"}
            /\ \E t \in 0..(2 * BUFFSIZE) : Upload(n, d, t)
        BY <1>2, <2>2 DEF Stored
      <3>2. d # c
        BY <1>1, <3>1
      <3>3. \E t \in 0..(2 * BUFFSIZE) : Upload(n, d, t)'
        BY <2>1, <3>1, <3>2
      <3> QED BY <1>1, <1>4, <3>1, <3>2, <3>3
    <2> QED BY <1>1, <1>2, <2>2 DEF Stored
  <1> QED BY <1>6, <1>7, <1>8, <1>9 DEF DataInv

-----------------------------------------------------------------------------
(* The steps of the server.                                                *)

\* The connections, as far as it is about how they end.
LEMMA ServerProgress ==
  ASSUME NEW d \in Clients, Progress(d), UNCHANGED <<phase, off, got>>,
         cEnd'[d] = "open" <=> cEnd[d] = "open", sEnd[d] # "open" => sEnd'[d] # "open",
         phase[d] = "idle" => sEnd'[d] = sEnd[d]
  PROVE  Progress(d)'
  BY DEF Progress

\* What is sent to d stays right if it is as it was.
LEMMA ServerServes ==
  ASSUME NEW d \in Clients, Serves(d), UNCHANGED <<phase, got>>,
         served'[d] = served[d], down'[d] = down[d], Queued(d)' => Queued(d),
         sEnd[d] = "rst" => sEnd'[d] = "rst",
         phase[d] \in Ended \/ Pending(d)' = Pending(d),
         d = cur' /\ served[d] # NULL => pc' \in {"sendfile", "close", "accept", "exited"},
         pc' = "sendfile" /\ d = cur' => pc = "sendfile" /\ d = cur
  PROVE  Serves(d)'
  <1>1. Gotten(d)' = Gotten(d)
    BY DEF Gotten
  <1> QED BY <1>1 DEF Serves, Begins

\* What is on its way to the server stays if nothing is received.
LEMMA ServerRecords ==
  ASSUME Records, Places, UNCHANGED <<phase, off>>,
         \A d \in Clients : d # cur => up'[d] = up[d],
         \A d \in Clients : Queued(d)' => Queued(d),
         NULL \notin Clients, pc' \notin {"operation", "upload", "download"}
  PROVE  Records'
  <1>1. ASSUME NEW d \in Clients, phase'[d] = "idle" \/ Queued(d)' PROVE OnTheWay(d, 0)'
    <2>1. phase[d] = "idle" \/ Queued(d)
      BY <1>1
    <2>2. d # cur
      BY <2>1 DEF Places
    <2>3. OnTheWay(d, 0)
      BY <2>1 DEF Records
    <2> QED BY <2>2, <2>3, OthersWay
  <1> QED BY <1>1 DEF Records

\* What is stored stays if nothing is written.
LEMMA ServerStored ==
  ASSUME TypeInv, Stored, UNCHANGED <<phase, off, files, owner>>,
         \A d \in Clients : Queued(d)' => Queued(d),
         pc # "writefile", pc' # "writefile",
         \A d \in Clients : d = cur' /\ ~Queued(d) /\ (d = cur => pc \in {"close", "accept", "exited"}) =>
           pc' \in {"close", "accept", "exited"}
  PROVE  Stored'
  <1>1. ASSUME NEW n \in DOMAIN owner, NEW d \in Clients, NEW t, Upload(n, d, t)
        PROVE  Upload(n, d, t)'
    BY <1>1 DEF Upload, Piece, Sent
  <1>2. ASSUME NEW n \in DOMAIN owner, NEW d \in Clients, owner[n] = d
        PROVE  /\ phase'[d] # "idle" /\ ~Queued(d)'
               /\ d = cur' => pc' \in {"writefile", "close", "accept", "exited"}
               /\ \E t \in 0..(2 * BUFFSIZE) : Upload(n, d, t)'
    <2>1. /\ phase[d] # "idle" /\ ~Queued(d)
          /\ d = cur => pc \in {"writefile", "close", "accept", "exited"}
          /\ \E t \in 0..(2 * BUFFSIZE) : Upload(n, d, t)
      BY <1>2 DEF Stored
    <2>2. \E t \in 0..(2 * BUFFSIZE) : Upload(n, d, t)'
      BY <1>1, <2>1
    <2> QED BY <2>1, <2>2
  <1> QED BY <1>2 DEF Stored

\* What is received is the next piece, and the rest is still on its way.
LEMMA WayReceived ==
  ASSUME TypeInv, NEW c \in Clients, NEW t \in Nat, NEW k \in 0..Len(up[c]), OnTheWay(c, t),
         up'[c] = Behind(up[c], k), UNCHANGED <<phase, off>>, NEW m \in Nat, m = t + k
  PROVE  OnTheWay(c, m)' /\ Piece(Front1(up[c], k), c, t)
  <1>1. PICK s \in Seq(Bytes) : s = up[c]
    BY DEF TypeInv, TypeOK, ConnectionsOK
  <1>2. k \in 0..Len(s) /\ Sent(c, t + Len(s)) /\ Piece(s, c, t) /\ Len(s) \in Nat
    BY <1>1 DEF OnTheWay
  <1>3. Piece(Front1(s, k), c, t) /\ Piece(Behind(s, k), c, m)
    BY <1>2, PieceSplit
  <1>4. Len(Behind(s, k)) = Len(s) - k
    BY <1>2, Split
  <1>5. PICK b : b = Behind(s, k) /\ b = up'[c]
    BY <1>1
  <1>6. m + Len(b) = t + Len(s) /\ Piece(b, c, m)
    BY <1>2, <1>3, <1>4, <1>5
  <1>7. OnTheWay(c, m)'
    BY <1>2, <1>5, <1>6 DEF OnTheWay, Sent, Piece
  <1> QED BY <1>1, <1>3, <1>7

\* A client that sends in one piece is received record by record.
LEMMA WholeRecord ==
  ASSUME TypeInv, NEW c \in Clients, NEW t \in {0, BUFFSIZE}, OnTheWay(c, t), up[c] # <<>>
  PROVE  Least(BUFFSIZE, Len(up[c])) = BUFFSIZE
  <1>1. up[c] \in Seq(Bytes) /\ Len(up[c]) \in Nat /\ Len(up[c]) # 0
    BY DEF TypeInv, TypeOK, ConnectionsOK
  <1>2. BUFFSIZE \in Nat \ {0}
    BY TransferAssumption
  <1>3. PICK m : m = t + Len(up[c]) /\ Sent(c, m)
    BY DEF OnTheWay
  <1>4. m = 0 \/ m = BUFFSIZE \/ m >= 2 * BUFFSIZE
    BY <1>3, SentRange
  <1>5. Len(up[c]) >= BUFFSIZE
    BY <1>1, <1>2, <1>3, <1>4
  <1> QED BY <1>1, <1>2, <1>5 DEF Least

\* The record with the name is the name, if it covers the operation.
LEMMA CleanName ==
  ASSUME NEW c \in Clients, Len(Name[c]) >= Len(Op[c]), NEW s \in Seq(Bytes), Len(s) = BUFFSIZE,
         Piece(s, c, BUFFSIZE)
  PROVE  StringIn(Padded(s)) = Name[c]
  <1> DEFINE name == Name[c]
  <1>1. /\ name \in Text /\ name \in Seq(Bytes) /\ Len(name) \in Nat /\ Len(name) < BUFFSIZE
        /\ Op[c] \in Seq(Bytes) /\ Len(Op[c]) \in Nat /\ Len(Op[c]) <= Len(name)
        /\ BUFFSIZE \in Nat
    BY Sendings, TextBytes
  <1>2. Padded(Op[c]) \in Seq(Bytes) /\ Len(Padded(Op[c])) = BUFFSIZE
        /\ \A k \in 1..BUFFSIZE : Padded(Op[c])[k] = IF k <= Len(Op[c]) THEN Op[c][k] ELSE ZERO
    BY <1>1, PaddedBytes
  <1>3. \A k \in 1..BUFFSIZE : Over(name, Padded(Op[c]))[k] =
                                 IF k <= Len(name) THEN name[k] ELSE Padded(Op[c])[k]
    BY <1>1, <1>2, OverBytes
  <1>4. \A k \in 1..BUFFSIZE : s[k] = Over(name, Padded(Op[c]))[k]
    BY <1>1, ByteParts DEF Piece
  <1>5. \A k \in 1..BUFFSIZE : s[k] = IF k <= Len(name) THEN name[k] ELSE ZERO
    <2> SUFFICES ASSUME NEW k \in 1..BUFFSIZE
                 PROVE  s[k] = IF k <= Len(name) THEN name[k] ELSE ZERO
      OBVIOUS
    <2>1. CASE k <= Len(name)
      BY <1>3, <1>4, <2>1
    <2>2. CASE ~(k <= Len(name))
      <3>1. ~(k <= Len(Op[c]))
        BY <1>1, <2>2
      <3> QED BY <1>2, <1>3, <1>4, <2>2, <3>1
    <2> QED BY <2>1, <2>2
  <1>6. Padded(s) \in Seq(Bytes) /\ Len(Padded(s)) = BUFFSIZE
        /\ \A k \in 1..BUFFSIZE : Padded(s)[k] = IF k <= Len(s) THEN s[k] ELSE ZERO
    BY PaddedBytes
  <1>7. Padded(name) \in Seq(Bytes) /\ Len(Padded(name)) = BUFFSIZE
        /\ \A k \in 1..BUFFSIZE : Padded(name)[k] = IF k <= Len(name) THEN name[k] ELSE ZERO
    BY <1>1, PaddedBytes
  <1>8. \A k \in 1..BUFFSIZE : Padded(s)[k] = Padded(name)[k]
    BY <1>1, <1>5, <1>6, <1>7
  <1>9. Padded(s) = Padded(name)
    BY <1>6, <1>7, <1>8, SeqEqual
  <1> QED BY <1>1, <1>9, StringOfPadded

\* A record that begins with zero holds nothing.
LEMMA FirstZero ==
  ASSUME NEW s \in Seq(Bytes), Len(s) # 0, s[1] = ZERO
  PROVE  StringIn(Padded(s)) = <<>>
  <1> DEFINE b == Padded(s)
  <1>1. b \in Seq(Bytes) /\ Len(b) = BUFFSIZE
        /\ \A k \in 1..BUFFSIZE : b[k] = IF k <= Len(s) THEN s[k] ELSE ZERO
    BY PaddedBytes
  <1>2. BUFFSIZE \in Nat \ {0} /\ Len(s) \in Nat
    BY TransferAssumption
  <1> HIDE DEF b
  <1>3. 0 \in 0..Len(b) /\ IsString(b, 0)
    <2>1. b[1] = ZERO
      BY <1>1, <1>2
    <2>2. 0 + 1 = 1
      OBVIOUS
    <2> QED BY <1>1, <1>2, <2>1, <2>2 DEF IsString
  <1>4. 0 = CHOOSE n \in 0..Len(b) : /\ \A k \in 1..n : b[k] # ZERO
                                     /\ n = Len(b) \/ b[n + 1] = ZERO
    BY <1>1, <1>3, StringLength DEF IsString
  <1>5. StringIn(b) = Front1(b, 0)
    BY <1>4 DEF StringIn, Front1
  <1>6. Front1(b, 0) \in Seq(Bytes) /\ Len(Front1(b, 0)) = 0
    BY <1>1, <1>3, Split
  <1> QED BY <1>5, <1>6 DEF b

\* An operation the server knows is not taken for one it knows as well when
\* only a part of it has come.
LEMMA OperationRead ==
  ASSUME NEW c \in Clients, Op[c] \in {UPLOAD, DOWNLOAD}, NEW s \in Seq(Bytes),
         Len(s) <= BUFFSIZE, Piece(s, c, 0), StringIn(Padded(s)) \in {UPLOAD, DOWNLOAD}
  PROVE  Len(s) = BUFFSIZE \/ Byte(c, Len(s) + 1) = ZERO
  <1> DEFINE op == Op[c]
  <1> SUFFICES ASSUME Len(s) # BUFFSIZE, Byte(c, Len(s) + 1) # ZERO PROVE FALSE
    OBVIOUS
  <1>1. /\ op \in Text /\ op \in Seq(Bytes) /\ Len(op) \in Nat /\ Len(op) < BUFFSIZE
        /\ BUFFSIZE \in Nat \ {0} /\ Len(s) \in Nat /\ Len(s) < BUFFSIZE
    BY Sendings, TextBytes
  <1>2. \A k \in 1..BUFFSIZE : Byte(c, k) = IF k <= Len(op) THEN op[k] ELSE ZERO
    <2>1. \A k \in 1..BUFFSIZE : Byte(c, k) = Padded(op)[k]
      BY ByteParts
    <2>2. \A k \in 1..BUFFSIZE : Padded(op)[k] = IF k <= Len(op) THEN op[k] ELSE ZERO
      BY <1>1, PaddedBytes
    <2> QED BY <2>1, <2>2
  <1> HIDE DEF op
  <1>3. Len(s) < Len(op)
    <2>1. Len(s) + 1 \in 1..BUFFSIZE
      BY <1>1
    <2>2. Len(s) + 1 <= Len(op)
      BY <1>2, <2>1
    <2> QED BY <1>1, <2>2
  <1>4. ASSUME NEW k \in 1..Len(s) PROVE s[k] = op[k] /\ s[k] \in Chars
    <2>1. k \in 1..BUFFSIZE /\ k \in 1..Len(op) /\ 0 + k = k
      BY <1>1, <1>3
    <2>2. s[k] = op[k]
      BY <1>2, <2>1 DEF Piece
    <2> QED BY <1>1, <2>1, <2>2 DEF Text
  <1>5. s \in Text
    BY <1>4 DEF Text
  <1>6. StringIn(Padded(s)) = s
    BY <1>1, <1>5, StringOfPadded
  <1>7. IsPrefix(s, op) /\ s # op
    BY <1>1, <1>3, <1>4, PrefixIs
  <1> QED BY <1>6, <1>7, TransferAssumption DEF op

\* Accept: the first of the queue is served.
LEMMA AcceptKeeps == ASSUME TypeInv, DataInv, Accept PROVE DataInv'
  <1>1. /\ pc = "accept" /\ pc' = "operation" /\ backlog # <<>> /\ backlog \in Seq(Clients)
        /\ cur' = Head(backlog) /\ backlog' = Tail(backlog)
        /\ UNCHANGED <<phase, off, got, up, down, cEnd, sEnd, filename, rest, files, owner, served>>
    BY DEF Accept, TypeInv, TypeOK, ConnectionsOK
  <1>2. Places /\ Records /\ Stored /\ \A d \in Clients : Progress(d) /\ Serves(d)
    BY DEF DataInv
  <1>3. /\ Len(backlog) \in Nat \ {0} /\ DOMAIN backlog = 1..Len(backlog)
        /\ cur' = backlog[1] /\ cur' \in Clients
        /\ DOMAIN backlog' = 1..(Len(backlog) - 1)
        /\ \A k \in 1..(Len(backlog) - 1) : backlog'[k] = backlog[k + 1]
    BY <1>1
  <1>4. PICK h \in Clients : h = cur' /\ Queued(h)
    BY <1>3 DEF Queued
  <1>5. \A d \in Clients : Queued(d)' => Queued(d) /\ d # h
    <2> SUFFICES ASSUME NEW d \in Clients, NEW k \in DOMAIN backlog', backlog'[k] = d
                 PROVE  Queued(d) /\ d # h
      BY DEF Queued
    <2>1. k + 1 \in DOMAIN backlog /\ backlog[k + 1] = d /\ 1 \in DOMAIN backlog /\ k + 1 # 1
      BY <1>3
    <2> QED BY <1>2, <1>3, <1>4, <2>1 DEF Queued, Places
  <1>6. Places'
    <2>1. \A j, k \in DOMAIN backlog' : j # k => backlog'[j] # backlog'[k]
      <3> SUFFICES ASSUME NEW j \in DOMAIN backlog', NEW k \in DOMAIN backlog', j # k
                   PROVE  backlog'[j] # backlog'[k]
        OBVIOUS
      <3>1. j + 1 \in DOMAIN backlog /\ k + 1 \in DOMAIN backlog /\ j + 1 # k + 1
        BY <1>3
      <3> QED BY <1>2, <1>3, <3>1 DEF Places
    <2>2. phase[h] # "idle" /\ sEnd[h] = "open"
      BY <1>2, <1>4 DEF Places
    <2> QED BY <1>1, <1>2, <1>4, <1>5, <2>1, <2>2 DEF Places
  <1>7. ASSUME NEW d \in Clients PROVE Progress(d)' /\ Serves(d)'
    <2>1. Progress(d)'
      BY <1>1, <1>2, ServerProgress
    <2>2. Pending(d)' = Pending(d)
      BY <1>1 DEF Pending
    <2>3. d = h => served[d] = NULL
      BY <1>2, <1>4 DEF Serves
    <2>4. Serves(d)'
      BY <1>1, <1>2, <1>4, <1>5, <2>2, <2>3, ServerServes
    <2> QED BY <2>1, <2>4
  <1>8. Records'
    <2>1. ASSUME NEW d \in Clients, phase'[d] = "idle" \/ Queued(d)' \/ d = h PROVE OnTheWay(d, 0)'
      <3>1. OnTheWay(d, 0)
        BY <1>1, <1>2, <1>4, <1>5, <2>1 DEF Records
      <3> QED BY <1>1, <3>1, OthersWay
    <2> QED BY <1>1, <1>4, <2>1 DEF Records
  <1>9. Stored'
    BY <1>1, <1>2, <1>4, <1>5, ServerStored
  <1> QED BY <1>6, <1>7, <1>8, <1>9 DEF DataInv

\* Who is in the queue.
LEMMA QueueSet == ASSUME NEW d \in Clients PROVE Queued(d) <=> d \in ToSet(backlog)
  BY DEF Queued, ToSet

\* What exit leaves: nobody waits, and only whose connections were open are
\* closed.
LEMMA ExitKeeps ==
  ASSUME TypeInv, DataInv, Exit, cur \in Clients, pc \notin {"accept", "exited", "writefile"},
         UNCHANGED <<phase, off, got, down, cEnd, cur, files, owner, served>>,
         \A d \in Clients : d # cur => up'[d] = up[d],
         pc = "sendfile" => phase[cur] \in Ended
  PROVE  DataInv'
  <1>1. ConnectionsOK /\ Places /\ Records /\ Stored /\ NULL \notin Clients
        /\ \A d \in Clients : Progress(d) /\ Serves(d)
    BY TransferAssumption DEF DataInv, TypeInv, TypeOK
  <1>2. /\ backlog' = <<>> /\ pc' = "exited"
        /\ \A c \in Clients : sEnd[c] # "open" => sEnd'[c] # "open"
        /\ \A c \in Clients : c # cur /\ c \notin ToSet(backlog) => sEnd'[c] = sEnd[c]
    BY <1>1, ExitType
  <1>3. DOMAIN backlog' = {} /\ \A d \in Clients : ~Queued(d)'
    BY <1>2 DEF Queued
  <1>4. Places'
    BY <1>1, <1>2, <1>3 DEF Places
  <1>5. ASSUME NEW d \in Clients PROVE Progress(d)' /\ Serves(d)'
    <2>1. phase[d] = "idle" => sEnd'[d] = sEnd[d]
      <3>1. phase[d] = "idle" => d # cur /\ ~Queued(d)
        BY <1>1 DEF Places
      <3> QED BY <1>2, <3>1, QueueSet
    <2>2. Progress(d)'
      BY <1>1, <1>2, <2>1, ServerProgress
    <2>3. phase[d] \in Ended \/ Pending(d)' = Pending(d)
      BY <1>2 DEF Pending
    <2>3a. sEnd[d] = "rst" => sEnd'[d] = "rst"
      <3>1. sEnd[d] = "rst" => d # cur /\ ~Queued(d)
        BY <1>1 DEF Places
      <3> QED BY <1>2, <3>1, QueueSet
    <2>4. Serves(d)'
      BY <1>1, <1>2, <1>3, <2>3, <2>3a, ServerServes
    <2> QED BY <2>2, <2>4
  <1>6. Records'
    BY <1>1, <1>2, <1>3, ServerRecords
  <1>7. Stored'
    BY <1>1, <1>2, <1>3, ServerStored
  <1> QED BY <1>4, <1>5, <1>6, <1>7 DEF DataInv

\* RecvOperation: of a record in one piece the whole.
LEMMA RecvOperationKeeps == ASSUME TypeInv, DataInv, RecvOperation PROVE DataInv'
  <1>1. /\ pc = "operation"
        /\ UNCHANGED <<phase, off, got, down, cEnd, sEnd, backlog, cur, filename, rest, files, owner, served>>
    BY DEF RecvOperation
  <1>2. PICK k \in Received :
          /\ Recv(k)
          /\ LET operation == StringIn(Padded(Front1(up[cur], k))) IN
             pc' = CASE operation = UPLOAD   -> "upload"
                     [] operation = DOWNLOAD -> "download"
                     [] OTHER                -> "close"
    BY DEF RecvOperation
  <1>3. /\ ConnectionsOK /\ cur \in Clients /\ Places /\ Records /\ Stored
        /\ NULL \notin Clients /\ \A d \in Clients : Progress(d) /\ Serves(d)
    BY <1>1, TransferAssumption DEF TypeInv, TypeOK, MainOK, DataInv
  <1>4. PICK c \in Clients : c = cur
    BY <1>3
  <1>5. /\ k \in 0..Len(up[c]) /\ k <= BUFFSIZE
        /\ up'[c] = Behind(up[c], k) /\ \A d \in Clients : d # c => up'[d] = up[d]
        /\ Front1(up[c], k) \in Seq(Bytes) /\ Len(Front1(up[c], k)) = k
        /\ k = 0 => up[c] = <<>>
        /\ c \in Whole => k = Least(BUFFSIZE, Len(up[c]))
    BY <1>2, <1>3, <1>4, RecvType
  <1>6. pc' \in {"upload", "download", "close"}
    BY <1>2
  <1>7. pc' \in {"upload", "download"} => k # 0
    <2> SUFFICES ASSUME k = 0 PROVE pc' = "close"
      OBVIOUS
    <2>1. Front1(up[c], k) = <<>>
      BY <1>5
    <2>2. <<>> \in Text /\ Len(<<>>) < BUFFSIZE
      BY TransferAssumption DEF Text
    <2>3. StringIn(Padded(<<>>)) = <<>>
      BY <2>2, StringOfPadded
    <2> QED BY <1>2, <1>4, <2>1, <2>3, TransferAssumption
  <1>8. Places'
    BY <1>1, <1>3 DEF Places, Queued
  <1>9. \A d \in Clients : Queued(d)' <=> Queued(d)
    BY <1>1 DEF Queued
  <1>10. ASSUME NEW d \in Clients PROVE Progress(d)' /\ Serves(d)'
    <2>1. Pending(d)' = Pending(d)
      BY <1>1, <1>6 DEF Pending
    <2>2. d = cur => served[d] = NULL
      BY <1>1, <1>3 DEF Serves
    <2>3. Serves(d)'
      BY <1>1, <1>3, <1>6, <1>9, <2>1, <2>2, ServerServes
    <2> QED BY <1>1, <1>3, <2>3, ServerProgress
  <1>11. Records'
    <2>1. ASSUME NEW d \in Clients, phase'[d] = "idle" \/ Queued(d)' PROVE OnTheWay(d, 0)'
      <3>1. (phase[d] = "idle" \/ Queued(d)) /\ d # c
        BY <1>1, <1>3, <1>4, <1>9, <2>1 DEF Places
      <3>2. OnTheWay(d, 0)
        BY <1>3, <3>1 DEF Records
      <3> QED BY <1>1, <1>5, <3>1, <3>2, OthersWay
    <2>2. ASSUME pc' \in {"upload", "download"}
          PROVE  \E t \in 0..BUFFSIZE : OnTheWay(c, t)' /\ OpRead(c, t)
      <3>1. OnTheWay(c, 0)
        BY <1>1, <1>3, <1>4 DEF Records
      <3>2. BUFFSIZE \in Nat \ {0} /\ up[c] \in Seq(Bytes)
        BY <1>3, TransferAssumption DEF ConnectionsOK
      <3>3. k \in 0..BUFFSIZE /\ k = 0 + k /\ k \in Nat
        BY <1>5, <3>2
      <3>4. OnTheWay(c, k)' /\ Piece(Front1(up[c], k), c, 0)
        BY <1>1, <1>5, <3>1, <3>3, WayReceived
      <3>5. up[c] # <<>>
        BY <1>5, <1>7, <2>2, <3>2
      <3>6. c \in Whole => k = BUFFSIZE
        BY <1>5, <3>1, <3>5, WholeRecord
      <3>7. ASSUME Op[c] \in {UPLOAD, DOWNLOAD} PROVE k = BUFFSIZE \/ Byte(c, k + 1) = ZERO
        <4>1. PICK s \in Seq(Bytes) : s = Front1(up[c], k) /\ Len(s) = k
          BY <1>5
        <4>2. StringIn(Padded(s)) \in {UPLOAD, DOWNLOAD}
          BY <1>2, <1>4, <2>2, <4>1
        <4>3. Piece(s, c, 0) /\ Len(s) <= BUFFSIZE
          BY <1>5, <3>4, <4>1
        <4> QED BY <3>7, <4>1, <4>2, <4>3, OperationRead
      <3>8. OpRead(c, k)
        BY <3>6, <3>7 DEF OpRead
      <3> QED BY <3>3, <3>4, <3>8
    <2> QED BY <1>1, <1>4, <1>6, <2>1, <2>2 DEF Records, OpRead, Byte
  <1>12. Stored'
    BY <1>1, <1>3, <1>6, <1>9, ServerStored
  <1> QED BY <1>8, <1>10, <1>11, <1>12 DEF DataInv

\* What the server has received of the name.
LEMMA NameReceived ==
  ASSUME TypeInv, DataInv, NEW c \in Clients, c = cur, pc \in {"upload", "download"},
         NEW k \in Received, Recv(k), UNCHANGED <<phase, off>>
  PROVE  /\ \E t \in 0..(2 * BUFFSIZE) :
              /\ OnTheWay(c, t)'
              /\ c \in Whole /\ StringIn(Padded(Front1(up[c], k))) # <<>> => t = 2 * BUFFSIZE
         /\ (Clean(c) \/ (Usual(c) /\ up'[c] = <<>>)) /\ StringIn(Padded(Front1(up[c], k))) # <<>> =>
              StringIn(Padded(Front1(up[c], k))) = Name[c]
  <1> DEFINE n == StringIn(Padded(Front1(up[c], k)))
  <1>1. ConnectionsOK /\ up[c] \in Seq(Bytes) /\ BUFFSIZE \in Nat \ {0}
    BY TransferAssumption DEF TypeInv, TypeOK, ConnectionsOK
  <1>2. /\ k \in 0..Len(up[c]) /\ k <= BUFFSIZE
        /\ up'[c] = Behind(up[c], k)
        /\ Front1(up[c], k) \in Seq(Bytes) /\ Len(Front1(up[c], k)) = k
        /\ c \in Whole => k = Least(BUFFSIZE, Len(up[c]))
    BY <1>1, RecvType
  <1>3. PICK t \in 0..BUFFSIZE : OnTheWay(c, t) /\ OpRead(c, t)
    BY DEF DataInv, Records
  <1>4. t \in Nat /\ t + k \in Nat /\ t + k \in 0..(2 * BUFFSIZE)
    BY <1>1, <1>2
  <1>5. OnTheWay(c, t + k)' /\ Piece(Front1(up[c], k), c, t)
    <2>1. PICK m \in Nat : m = t + k
      BY <1>4
    <2>2. OnTheWay(c, m)' /\ Piece(Front1(up[c], k), c, t)
      BY <1>2, <1>3, <1>4, <2>1, WayReceived
    <2> QED BY <2>1, <2>2
  <1>6. n # <<>> => k # 0
    <2> SUFFICES ASSUME k = 0 PROVE n = <<>>
      OBVIOUS
    <2>1. Front1(up[c], k) = <<>>
      BY <1>2
    <2>2. <<>> \in Text /\ Len(<<>>) < BUFFSIZE
      BY TransferAssumption DEF Text
    <2> QED BY <2>1, <2>2, StringOfPadded
  <1>7. c \in Whole /\ n # <<>> => k = BUFFSIZE /\ t = BUFFSIZE
    <2> SUFFICES ASSUME c \in Whole, k # 0 PROVE k = BUFFSIZE /\ t = BUFFSIZE
      BY <1>6
    <2>1. up[c] # <<>>
      BY <1>1, <1>2
    <2> QED BY <1>2, <1>3, <2>1, WholeRecord DEF OpRead
  <1>7a. ASSUME Usual(c), up'[c] = <<>>, n # <<>> PROVE k = BUFFSIZE /\ t = BUFFSIZE
    <2>1. k # 0
      BY <1>6, <1>7a
    <2>2. PICK s \in Seq(Bytes) : s = Front1(up[c], k) /\ Len(s) = k
      BY <1>2
    <2>3. Piece(s, c, t) /\ 1 \in 1..Len(s)
      BY <1>2, <1>5, <2>1, <2>2
    <2>4. s[1] = Byte(c, t + 1)
      BY <2>3 DEF Piece
    <2>5. s[1] # ZERO
      BY <1>7a, <2>1, <2>2, FirstZero
    <2>6. t = BUFFSIZE
      BY <1>3, <1>7a, <2>4, <2>5 DEF OpRead, Usual
    <2>7. PICK m : m = t + k /\ OnTheWay(c, m)'
      BY <1>5
    <2>8. m \in Nat /\ Len(up'[c]) = 0 /\ m + Len(up'[c]) = m
      BY <1>4, <1>7a, <2>7
    <2>9. Sent(c, m)
      BY <2>7, <2>8 DEF OnTheWay, Sent
    <2>10. m = 0 \/ m = BUFFSIZE \/ m >= 2 * BUFFSIZE
      BY <2>9, SentRange
    <2> QED BY <1>1, <1>2, <2>1, <2>6, <2>7, <2>8, <2>10
  <1>8. (Clean(c) \/ (Usual(c) /\ up'[c] = <<>>)) /\ n # <<>> => n = Name[c]
    <2> SUFFICES ASSUME Clean(c) \/ (Usual(c) /\ up'[c] = <<>>), n # <<>> PROVE n = Name[c]
      OBVIOUS
    <2>1. k = BUFFSIZE /\ t = BUFFSIZE /\ Len(Name[c]) >= Len(Op[c])
      BY <1>7, <1>7a DEF Clean, Usual
    <2> QED BY <1>2, <1>5, <2>1, CleanName
  <1>9. c \in Whole /\ n # <<>> => t + k = 2 * BUFFSIZE
    BY <1>1, <1>7
  <1> HIDE DEF n
  <1>10. \E m \in 0..(2 * BUFFSIZE) :
           OnTheWay(c, m)' /\ (c \in Whole /\ n # <<>> => m = 2 * BUFFSIZE)
    BY <1>4, <1>5, <1>9
  <1> QED BY <1>8, <1>10 DEF n

\* RecvUploadName: a new file of cur, empty, or the end of the server.
LEMMA RecvUploadNameKeeps == ASSUME TypeInv, DataInv, RecvUploadName PROVE DataInv'
  <1>1. /\ pc = "upload"
        /\ UNCHANGED <<phase, off, got, down, cEnd, cur, rest, served>>
    BY DEF RecvUploadName
  <1>2. PICK k \in Received :
          /\ Recv(k)
          /\ LET n == StringIn(Padded(Front1(up[cur], k))) IN
             IF Fails(n) THEN Exit /\ UNCHANGED <<filename, files, owner>>
             ELSE /\ filename' = n
                  /\ files' = Put(files, n, Opened(n))
                  /\ owner' = Put(owner, n, cur)
                  /\ pc' = "writefile"
                  /\ UNCHANGED <<sEnd, backlog>>
    BY DEF RecvUploadName
  <1>3. /\ ConnectionsOK /\ cur \in Clients /\ Places /\ Records /\ Stored
        /\ NULL \notin Clients /\ \A d \in Clients : Progress(d) /\ Serves(d)
        /\ DOMAIN owner = DOMAIN files /\ BUFFSIZE \in Nat
    BY <1>1, TransferAssumption DEF TypeInv, TypeOK, MainOK, FilesOK, DataInv
  <1>4. PICK c \in Clients : c = cur /\ c = cur'
    BY <1>1, <1>3
  <1>0. PICK n : n = StringIn(Padded(Front1(up[c], k)))
    OBVIOUS
  <1>5. /\ \A d \in Clients : d # c => up'[d] = up[d]
        /\ up' \in [Clients -> Seq(Bytes)]
    BY <1>2, <1>3, <1>4, RecvType
  <1>6. /\ \E t \in 0..(2 * BUFFSIZE) :
             OnTheWay(c, t)' /\ (c \in Whole /\ n # <<>> => t = 2 * BUFFSIZE)
        /\ Clean(c) /\ n # <<>> => n = Name[c]
    BY <1>0, <1>1, <1>2, <1>4, NameReceived
  <1>7. CASE Fails(n)
    BY <1>0, <1>1, <1>2, <1>3, <1>4, <1>5, <1>7, ExitKeeps
  <1>8. CASE ~Fails(n)
    <2>1. /\ n # <<>> /\ filename' = n /\ pc' = "writefile" /\ UNCHANGED <<sEnd, backlog>>
          /\ files' = Put(files, n, <<>>) /\ owner' = Put(owner, n, c)
      BY <1>0, <1>2, <1>4, <1>8 DEF Fails, Opened
    <2>2. /\ DOMAIN owner' = {n} \cup DOMAIN owner /\ files'[n] = <<>> /\ owner'[n] = c
          /\ \A m \in DOMAIN owner : m # n => files'[m] = files[m] /\ owner'[m] = owner[m]
      BY <1>3, <2>1 DEF Put
    <2>3. \A d \in Clients : Queued(d)' <=> Queued(d)
      BY <2>1 DEF Queued
    <2>4. Places'
      BY <1>1, <1>3, <2>1 DEF Places, Queued
    <2>5. ASSUME NEW d \in Clients PROVE Progress(d)' /\ Serves(d)'
      <3>1. Pending(d)' = Pending(d)
        BY <1>1, <2>1 DEF Pending
      <3>2. d = cur => served[d] = NULL
        BY <1>1, <1>3 DEF Serves
      <3>3. Serves(d)'
        BY <1>1, <1>3, <2>1, <2>3, <3>1, <3>2, ServerServes
      <3> QED BY <1>1, <1>3, <2>1, <3>3, ServerProgress
    <2>6. Records'
      BY <1>1, <1>3, <1>4, <1>5, <2>1, <2>3, ServerRecords
    <2>7. phase[c] # "idle" /\ ~Queued(c) /\ c # NULL
      BY <1>1, <1>3, <1>4 DEF Places
    <2>8. \E t \in 0..(2 * BUFFSIZE) : Upload(n, c, t)'
      <3>1. PICK t \in 0..(2 * BUFFSIZE) : OnTheWay(c, t)' /\ (c \in Whole => t = 2 * BUFFSIZE)
        BY <1>6, <2>1
      <3>2. Len(files'[n]) = 0 /\ t + Len(files'[n]) = t
        BY <1>3, <2>2
      <3>3. OnTheWay(c, t + Len(files[n]))'
        BY <3>1, <3>2 DEF OnTheWay, Sent, Piece
      <3>4. Piece(files[n], c, t)'
        BY <3>2 DEF Piece
      <3>5. Upload(n, c, t)'
        BY <1>4, <1>6, <2>1, <3>1, <3>3, <3>4 DEF Upload
      <3> QED BY <3>5
    <2>9. ASSUME NEW m \in DOMAIN owner, m # n, NEW d \in Clients, owner[m] = d
          PROVE  /\ phase[d] # "idle" /\ ~Queued(d) /\ d # c
                 /\ \E t \in 0..(2 * BUFFSIZE) : Upload(m, d, t)'
      <3>1. /\ phase[d] # "idle" /\ ~Queued(d) /\ d # c
            /\ \E t \in 0..(2 * BUFFSIZE) : Upload(m, d, t)
        BY <1>1, <1>3, <1>4, <2>9 DEF Stored
      <3>2. ASSUME NEW t, Upload(m, d, t) PROVE Upload(m, d, t)'
        BY <1>1, <1>4, <2>2, <2>9, <3>1, <3>2 DEF Upload, Piece, Sent
      <3> QED BY <3>1, <3>2
    <2>10. Stored'
      <3>1. filename' \in DOMAIN owner' /\ owner'[filename'] = cur'
        BY <1>4, <2>1, <2>2
      <3>2. ASSUME NEW m \in DOMAIN owner', owner'[m] = NULL
            PROVE  m \in DOMAIN InitialFiles /\ files'[m] = InitialFiles[m]
        <4>1. m # n /\ m \in DOMAIN owner
          BY <2>2, <2>7, <3>2
        <4> QED BY <1>3, <2>2, <3>2, <4>1 DEF Stored
      <3>3. ASSUME NEW m \in DOMAIN owner', NEW d \in Clients, owner'[m] = d
            PROVE  /\ phase'[d] # "idle" /\ ~Queued(d)'
                   /\ d = cur' => pc' \in {"writefile", "close", "accept", "exited"}
                   /\ \E t \in 0..(2 * BUFFSIZE) : Upload(m, d, t)'
        <4>1. CASE m = n
          <5>1. d = c
            BY <2>2, <3>3, <4>1
          <5> QED BY <1>1, <2>1, <2>3, <2>7, <2>8, <4>1, <5>1
        <4>2. CASE m # n
          <5>1. m \in DOMAIN owner /\ owner[m] = d
            BY <2>2, <3>3, <4>2
          <5> QED BY <1>1, <2>1, <2>3, <2>9, <4>2, <5>1
        <4> QED BY <4>1, <4>2
      <3> QED BY <3>1, <3>2, <3>3 DEF Stored
    <2> QED BY <2>4, <2>5, <2>6, <2>10 DEF DataInv
  <1> QED BY <1>7, <1>8

\* RecvFile: a further piece of the file of cur.
LEMMA RecvFileKeeps == ASSUME TypeInv, DataInv, RecvFile PROVE DataInv'
  <1>1. /\ pc = "writefile"
        /\ UNCHANGED <<phase, off, got, down, cEnd, sEnd, backlog, cur, filename, rest, owner, served>>
    BY DEF RecvFile
  <1>2. PICK k \in Received :
          /\ Recv(k)
          /\ files' = [files EXCEPT ![filename] = files[filename] \o Front1(up[cur], k)]
          /\ pc' = IF LastRecv(k) THEN "close" ELSE pc
    BY DEF RecvFile
  <1>3. /\ ConnectionsOK /\ cur \in Clients /\ Places /\ Records /\ Stored
        /\ NULL \notin Clients /\ \A d \in Clients : Progress(d) /\ Serves(d)
        /\ filename \in DOMAIN files /\ files[filename] \in Seq(Bytes)
        /\ DOMAIN owner = DOMAIN files /\ BUFFSIZE \in Nat
    BY <1>1, TransferAssumption DEF TypeInv, TypeOK, MainOK, FilesOK, DataInv
  <1>4. PICK c \in Clients : c = cur /\ c = cur'
    BY <1>1, <1>3
  <1>5. /\ k \in 0..Len(up[c])
        /\ up'[c] = Behind(up[c], k) /\ \A d \in Clients : d # c => up'[d] = up[d]
        /\ Front1(up[c], k) \in Seq(Bytes) /\ Len(Front1(up[c], k)) = k
        /\ k = 0 => up[c] = <<>> /\ cEnd[c] # "open"
    BY <1>2, <1>3, <1>4, RecvType
  <1>6. PICK n \in DOMAIN files : n = filename /\ owner[n] = c
    BY <1>1, <1>3, <1>4 DEF Stored
  <1>7. pc' = (IF k = 0 THEN "close" ELSE "writefile")
    BY <1>1, <1>2 DEF LastRecv
  <1>8. \A d \in Clients : Queued(d)' <=> Queued(d)
    BY <1>1 DEF Queued
  <1>9. Places'
    BY <1>1, <1>3 DEF Places, Queued
  <1>10. ASSUME NEW d \in Clients PROVE Progress(d)' /\ Serves(d)'
    <2>1. Pending(d)' = Pending(d)
      BY <1>1, <1>7 DEF Pending
    <2>2. d = cur => served[d] = NULL
      BY <1>1, <1>3 DEF Serves
    <2>3. Serves(d)'
      BY <1>1, <1>3, <1>7, <1>8, <2>1, <2>2, ServerServes
    <2> QED BY <1>1, <1>3, <2>3, ServerProgress
  <1>11. Records'
    BY <1>1, <1>3, <1>4, <1>5, <1>7, <1>8, ServerRecords
  <1>12. \A m \in DOMAIN owner, d \in Clients : owner[m] = d /\ m # n => d # c
    BY <1>1, <1>3, <1>4, <1>6 DEF Stored, Upload
  <1>13. \A m \in DOMAIN owner : m # n => files'[m] = files[m]
    BY <1>2, <1>3, <1>6
  <1>14. \E t \in 0..(2 * BUFFSIZE) : Upload(n, c, t)'
    <2>1. PICK t \in 0..(2 * BUFFSIZE) : Upload(n, c, t)
      BY <1>3, <1>6 DEF Stored
    <2>2. /\ c \in Whole => t = 2 * BUFFSIZE
          /\ Clean(c) => n = Name[c]
          /\ Piece(files[n], c, t) /\ OnTheWay(c, t + Len(files[n]))
      BY <1>1, <1>4, <2>1 DEF Upload
    <2>3. PICK f \in Seq(Bytes), b \in Seq(Bytes) : f = files[n] /\ b = Front1(up[c], k) /\ Len(b) = k
      BY <1>3, <1>5, <1>6
    <2>4. t \in Nat /\ Len(f) \in Nat /\ k \in Nat
      BY <1>3, <2>3
    <2>5. PICK m \in Nat : m = t + Len(f)
      BY <2>4
    <2>6. PICK j \in Nat : j = m + k
      BY <2>4, <2>5
    <2>7. OnTheWay(c, m) /\ Piece(f, c, t)
      BY <2>2, <2>3, <2>5
    <2>8. OnTheWay(c, j)' /\ Piece(b, c, m)
      BY <1>1, <1>5, <2>3, <2>4, <2>5, <2>6, <2>7, WayReceived
    <2>9. Piece(f \o b, c, t) /\ Len(f \o b) = Len(f) + Len(b)
      BY <2>4, <2>5, <2>7, <2>8, PieceMore
    <2>10. files'[n] = f \o b
      BY <1>2, <1>3, <1>4, <1>6, <2>3
    <2>11. PICK g : g = files'[n] /\ g = f \o b
      BY <2>10
    <2>12. t + Len(g) = j /\ Piece(g, c, t)
      BY <2>3, <2>4, <2>5, <2>6, <2>9, <2>11
    <2>13. Piece(files[n], c, t)' /\ OnTheWay(c, t + Len(files[n]))'
      BY <2>8, <2>11, <2>12 DEF Piece, OnTheWay, Sent
    <2>14. CASE k # 0
      BY <1>4, <1>6, <1>7, <1>1, <2>2, <2>13, <2>14 DEF Upload
    <2>15. CASE k = 0
      <3>1. phase[c] \in Ended /\ (c \notin Uploaders => phase[c] \notin {"done", "crashed"})
        BY <1>1, <1>3, <1>4, <1>5, <2>15 DEF Progress, Places
      <3>2. up'[c] = up[c] /\ up[c] = <<>>
        BY <1>5, <2>15 DEF Behind
      <3>3. Sent(c, j + Len(up[c]))' /\ j + Len(up'[c]) = j
        BY <2>6, <2>8, <3>2 DEF OnTheWay
      <3>4. Sent(c, t + Len(files[n]))'
        BY <2>11, <2>12, <3>3 DEF Sent
      <3> QED BY <1>1, <1>7, <2>2, <2>13, <2>15, <3>1, <3>4 DEF Upload
    <2> QED BY <2>14, <2>15
  <1>15. Stored'
    <2>1. pc' = "writefile" => filename' \in DOMAIN owner' /\ owner'[filename'] = cur'
      BY <1>1, <1>3, <1>4, <1>6
    <2>2. \A m \in DOMAIN owner' : owner'[m] = NULL =>
            m \in DOMAIN InitialFiles /\ files'[m] = InitialFiles[m]
      BY <1>1, <1>3, <1>6, <1>13 DEF Stored
    <2>3. ASSUME NEW m \in DOMAIN owner, NEW d \in Clients, owner[m] = d
          PROVE  /\ phase'[d] # "idle" /\ ~Queued(d)'
                 /\ d = cur' => pc' \in {"writefile", "close", "accept", "exited"}
                 /\ \E t \in 0..(2 * BUFFSIZE) : Upload(m, d, t)'
      <3>1. phase'[d] # "idle" /\ ~Queued(d)' /\ pc' \in {"writefile", "close", "accept", "exited"}
        BY <1>1, <1>3, <1>7, <1>8, <2>3 DEF Stored
      <3>2. CASE m = n
        BY <1>6, <1>14, <2>3, <3>1, <3>2
      <3>3. CASE m # n
        <4>1. d # c /\ \E t \in 0..(2 * BUFFSIZE) : Upload(m, d, t)
          BY <1>3, <1>12, <2>3, <3>3 DEF Stored
        <4>2. ASSUME NEW t, Upload(m, d, t) PROVE Upload(m, d, t)'
          BY <1>1, <1>4, <1>13, <2>3, <3>3, <4>1, <4>2 DEF Upload, Piece, Sent
        <4> QED BY <3>1, <4>1, <4>2
      <3> QED BY <3>2, <3>3
    <2> QED BY <1>1, <2>1, <2>2, <2>3 DEF Stored
  <1> QED BY <1>9, <1>10, <1>11, <1>15 DEF DataInv

\* RecvDownloadName: the file that is asked for is to be sent to cur.
LEMMA RecvDownloadNameKeeps == ASSUME TypeInv, DataInv, RecvDownloadName PROVE DataInv'
  <1>1. /\ pc = "download"
        /\ UNCHANGED <<phase, off, got, down, cEnd, cur, files, owner>>
    BY DEF RecvDownloadName
  <1>2. PICK k \in Received :
          /\ Recv(k)
          /\ LET n == StringIn(Padded(Front1(up[cur], k))) IN
             IF n \notin DOMAIN files THEN Exit /\ UNCHANGED <<filename, rest, served>>
             ELSE /\ filename' = n
                  /\ rest' = files[n]
                  /\ served' = [served EXCEPT ![cur] = [name |-> n, data |-> files[n]]]
                  /\ pc' = "sendfile"
                  /\ UNCHANGED <<sEnd, backlog>>
    BY DEF RecvDownloadName
  <1>3. /\ ConnectionsOK /\ ClientsOK /\ FilesOK /\ cur \in Clients /\ Places /\ Records /\ Stored
        /\ NULL \notin Clients /\ \A d \in Clients : Progress(d) /\ Serves(d)
    BY <1>1, TransferAssumption DEF TypeInv, TypeOK, MainOK, DataInv
  <1>4. PICK c \in Clients : c = cur /\ c = cur'
    BY <1>1, <1>3
  <1>0. PICK n : n = StringIn(Padded(Front1(up[c], k)))
    OBVIOUS
  <1>5. \A d \in Clients : d # c => up'[d] = up[d]
    BY <1>2, <1>3, <1>4, RecvType
  <1>6. CASE n \notin DOMAIN files
    BY <1>0, <1>1, <1>2, <1>3, <1>4, <1>5, <1>6, ExitKeeps
  <1>7. CASE n \in DOMAIN files
    <2>1. /\ filename' = n /\ pc' = "sendfile" /\ UNCHANGED <<sEnd, backlog>> /\ rest' = files[n]
          /\ served' = [served EXCEPT ![c] = [name |-> n, data |-> files[n]]]
      BY <1>0, <1>2, <1>4, <1>7
    <2>2. n \in Text /\ files[n] \in Seq(Bytes)
      BY <1>3, <1>7 DEF FilesOK
    <2>3. [name |-> n, data |-> files[n]] \in [name : Text, data : Seq(Bytes)]
      BY <2>2
    <2>4. /\ served'[c] # NULL /\ served'[c].data = files[n]
          /\ \A d \in Clients : d # c => served'[d] = served[d]
      <3>1. served'[c] = [name |-> n, data |-> files[n]]
        BY <1>3, <2>1 DEF FilesOK
      <3>2. [name |-> n, data |-> files[n]] # NULL
        BY <2>3, TransferAssumption
      <3> QED BY <1>3, <2>1, <3>1, <3>2 DEF FilesOK
    <2>5. \A d \in Clients : Queued(d)' <=> Queued(d)
      BY <2>1 DEF Queued
    <2>6. Places'
      BY <1>1, <1>3, <2>1 DEF Places, Queued
    <2>7. ASSUME NEW d \in Clients PROVE Progress(d)'
      BY <1>1, <1>3, <2>1, ServerProgress
    <2>8. ASSUME NEW d \in Clients, d # c PROVE Serves(d)'
      <3>1. Pending(d)' = Pending(d)
        BY <1>1, <1>4, <2>1, <2>8 DEF Pending
      <3> QED BY <1>1, <1>3, <1>4, <2>1, <2>4, <2>5, <2>8, <3>1, ServerServes
    <2>9. Serves(c)'
      <3>1. served[c] = NULL
        BY <1>1, <1>3, <1>4 DEF Serves
      <3>2. down[c] = <<>> /\ Gotten(c) = <<>> /\ Gotten(c)' = Gotten(c)
        BY <1>1, <1>3, <3>1 DEF Serves, Gotten
      <3>3. Pending(c)' = files[n]
        BY <1>4, <2>1 DEF Pending
      <3>4. (<<>> \o <<>>) \o files[n] = files[n]
        <4>1. <<>> \in Seq(Bytes)
          OBVIOUS
        <4>2. <<>> \o <<>> = <<>>
          BY <4>1, ConcatEmptySeq
        <4>3. <<>> \o files[n] = files[n]
          BY <2>2, ConcatEmptySeq
        <4> QED BY <4>2, <4>3
      <3>5. Begins(c, (Gotten(c) \o down[c]) \o Pending(c))'
        <4>1. PICK f \in Seq(Bytes) : f = files[n]
          BY <2>2
        <4>2. f \o <<>> = f /\ <<>> \in Seq(Bytes)
          BY ConcatEmptySeq
        <4>3. (Gotten(c)' \o down'[c]) \o Pending(c)' = f /\ served'[c].data = f
          BY <1>1, <2>4, <3>2, <3>3, <3>4, <4>1
        <4> QED BY <4>2, <4>3 DEF Begins
      <3>6. phase[c] # "idle" /\ ~Queued(c) /\ sEnd[c] = "open"
        BY <1>1, <1>3, <1>4 DEF Places
      <3>7. c \notin Uploaders => phase[c] # "done"
        BY <1>3, <3>6 DEF Progress
      <3> QED BY <1>1, <1>4, <2>1, <2>4, <2>5, <3>5, <3>6, <3>7 DEF Serves
    <2>10. Records'
      BY <1>1, <1>3, <1>4, <1>5, <2>1, <2>5, ServerRecords
    <2>11. Stored'
      BY <1>1, <1>3, <2>1, <2>5, ServerStored
    <2> QED BY <2>6, <2>7, <2>8, <2>9, <2>10, <2>11 DEF DataInv
  <1> QED BY <1>6, <1>7

\* SendBlock: a further block is on its way to cur, or is lost.
LEMMA SendBlockKeeps == ASSUME TypeInv, DataInv, SendBlock PROVE DataInv'
  <1>1. /\ pc = "sendfile"
        /\ UNCHANGED <<phase, off, got, up, cur, filename, files, owner, served>>
    BY DEF SendBlock
  <1>2. /\ ConnectionsOK /\ ClientsOK /\ cur \in Clients /\ Places /\ Records /\ Stored
        /\ NULL \notin Clients /\ rest \in Seq(Bytes)
        /\ \A d \in Clients : Progress(d) /\ Serves(d)
    BY <1>1, TransferAssumption DEF TypeInv, TypeOK, MainOK, DataInv
  <1>3. PICK c \in Clients : c = cur /\ c = cur'
    BY <1>1, <1>2
  <1>4. PICK n \in 0..Len(rest) : n = Least(BUFFSIZE, Len(rest))
    BY <1>2, TransferAssumption DEF Least
  <1>5. CASE cEnd[c] = "rst"
    <2>1. Exit /\ UNCHANGED <<down, cEnd, rest>>
      BY <1>3, <1>5 DEF SendBlock
    <2>2. phase[c] \in Ended
      BY <1>2, <1>5 DEF Progress
    <2> QED BY <1>1, <1>2, <1>3, <2>1, <2>2, ExitKeeps
  <1>6. CASE cEnd[c] # "rst"
    <2>1. /\ pc' = pc /\ UNCHANGED <<sEnd, backlog>> /\ rest' = Behind(rest, n)
          /\ IF cEnd[c] = "fin"
             THEN cEnd' = [cEnd EXCEPT ![c] = "rst"] /\ UNCHANGED down
             ELSE down' = [down EXCEPT ![c] = down[c] \o Front1(rest, n)] /\ UNCHANGED cEnd
      BY <1>3, <1>4, <1>6 DEF SendBlock
    <2>2. \A d \in Clients : Queued(d)' <=> Queued(d)
      BY <2>1 DEF Queued
    <2>3. Places'
      BY <1>1, <1>2, <2>1 DEF Places, Queued
    <2>4. ASSUME NEW d \in Clients PROVE cEnd'[d] = "open" <=> cEnd[d] = "open"
      BY <1>2, <2>1 DEF ConnectionsOK
    <2>5. ASSUME NEW d \in Clients PROVE Progress(d)'
      BY <1>1, <1>2, <2>1, <2>4, ServerProgress
    <2>6. ASSUME NEW d \in Clients, d # c PROVE Serves(d)'
      <3>1. Pending(d)' = Pending(d) /\ down'[d] = down[d]
        BY <1>2, <1>3, <2>1, <2>6 DEF Pending, ConnectionsOK
      <3> QED BY <1>1, <1>2, <1>3, <2>1, <2>2, <2>6, <3>1, ServerServes
    <2>7. Serves(c)'
      <3>1. CASE cEnd[c] = "fin"
        <4>1. phase[c] \in Ended /\ down'[c] = down[c]
          BY <1>2, <2>1, <3>1 DEF Progress
        <4> QED BY <1>1, <1>2, <1>3, <2>1, <2>2, <4>1, ServerServes
      <3>2. CASE cEnd[c] # "fin"
        <4>1. phase[c] \notin Ended
          BY <1>2, <1>6, <3>2 DEF Progress, ConnectionsOK
        <4>2. down'[c] = down[c] \o Front1(rest, n) /\ down[c] \in Seq(Bytes)
          BY <1>2, <2>1, <3>2 DEF ConnectionsOK
        <4>3. Gotten(c) \in Seq(Bytes) /\ Gotten(c)' = Gotten(c)
          <5>1. <<>> \in Seq(Bytes)
            OBVIOUS
          <5> QED BY <1>1, <1>2, <5>1 DEF Gotten, ClientsOK
        <4>4. Pending(c) = rest /\ Pending(c)' = Behind(rest, n)
          BY <1>1, <1>3, <2>1 DEF Pending
        <4>5. (Gotten(c) \o down'[c]) \o Behind(rest, n) = (Gotten(c) \o down[c]) \o rest
          <5>0. \A x, y, z \in Seq(Bytes) : x \o y \in Seq(Bytes) /\ (x \o y) \o z = x \o (y \o z)
            BY Joined, ThreeJoined, SMT
          <5>1. /\ Front1(rest, n) \in Seq(Bytes) /\ Behind(rest, n) \in Seq(Bytes)
                /\ Front1(rest, n) \o Behind(rest, n) = rest
            BY <1>2, Split
          <5>2. PICK g, s, a, b \in Seq(Bytes) :
                  g = Gotten(c) /\ s = down[c] /\ a = Front1(rest, n) /\ b = Behind(rest, n)
            BY <4>2, <4>3, <5>1, Zenon
          <5>3. a \o b = rest
            BY <5>1, <5>2
          <5>4. PICK h \in Seq(Bytes) : h = g \o s
            BY <5>0
          <5>5. (g \o s) \o a = g \o (s \o a)
            BY <5>0
          <5>6. (h \o a) \o b = h \o (a \o b)
            BY <5>0
          <5> QED BY <4>2, <5>2, <5>3, <5>4, <5>5, <5>6
        <4>6. served[c] # NULL
          BY <1>1, <1>2, <1>3 DEF Serves
        <4>7. c \notin Uploaders => Begins(c, (Gotten(c) \o down[c]) \o Pending(c))'
          <5>1. c \notin Uploaders => Begins(c, (Gotten(c) \o down[c]) \o rest)
            BY <1>2, <4>1, <4>4, <4>6 DEF Serves
          <5>2. (Gotten(c)' \o down'[c]) \o Pending(c)' = (Gotten(c) \o down[c]) \o rest
            BY <4>3, <4>4, <4>5
          <5> QED BY <1>1, <2>1, <5>1, <5>2 DEF Begins
        <4> QED BY <1>1, <1>2, <1>3, <2>1, <2>2, <4>1, <4>6, <4>7 DEF Serves, Ended
      <3> QED BY <3>1, <3>2
    <2>8. Records'
      BY <1>1, <1>2, <1>3, <2>1, <2>2, ServerRecords
    <2>9. Stored'
      BY <1>1, <1>2, <2>1, <2>2, ServerStored
    <2> QED BY <2>3, <2>5, <2>6, <2>7, <2>8, <2>9 DEF DataInv
  <1> QED BY <1>5, <1>6

\* SendEnd: all was sent.
LEMMA SendEndKeeps == ASSUME TypeInv, DataInv, SendEnd PROVE DataInv'
  <1>1. /\ pc = "sendfile" /\ rest = <<>> /\ pc' = "close"
        /\ UNCHANGED <<phase, off, got, up, down, cEnd, sEnd, backlog, cur, filename, rest,
                       files, owner, served>>
    BY DEF SendEnd, More
  <1>2. /\ Places /\ Records /\ Stored /\ NULL \notin Clients
        /\ \A d \in Clients : Progress(d) /\ Serves(d)
    BY TransferAssumption DEF DataInv
  <1>3. \A d \in Clients : Queued(d)' <=> Queued(d)
    BY <1>1 DEF Queued
  <1>4. Places'
    BY <1>1, <1>2 DEF Places, Queued
  <1>5. ASSUME NEW d \in Clients PROVE Progress(d)' /\ Serves(d)'
    <2>1. Pending(d)' = Pending(d)
      BY <1>1 DEF Pending
    <2>2. Serves(d)'
      BY <1>1, <1>2, <1>3, <2>1, ServerServes
    <2> QED BY <1>1, <1>2, <2>2, ServerProgress
  <1>6. Records'
    BY <1>1, <1>2, <1>3, ServerRecords
  <1>7. Stored'
    BY <1>1, <1>2, <1>3, ServerStored
  <1> QED BY <1>4, <1>5, <1>6, <1>7 DEF DataInv

\* Close: the connection of cur is no longer open; what a reset discards had
\* still to arrive.
LEMMA CloseKeeps == ASSUME TypeInv, DataInv, Close PROVE DataInv'
  <1>1. /\ pc = "close" /\ pc' = "accept" /\ sEnd' = [sEnd EXCEPT ![cur] = ServerEnd(cur)]
        /\ UNCHANGED <<phase, off, got, up, cEnd, backlog, cur, filename, rest,
                       files, owner, served>>
    BY DEF Close
  <1>2. /\ Places /\ Records /\ Stored /\ NULL \notin Clients /\ cur \in Clients /\ ConnectionsOK
        /\ \A d \in Clients : Progress(d) /\ Serves(d)
    BY <1>1, TransferAssumption DEF DataInv, TypeInv, TypeOK, MainOK
  <1>3. \A d \in Clients : Queued(d)' <=> Queued(d)
    BY <1>1 DEF Queued
  <1>4. /\ \A d \in Clients : d # cur => sEnd'[d] = sEnd[d]
        /\ sEnd'[cur] # "open"
    BY <1>1, <1>2 DEF ConnectionsOK, ServerEnd
  <1>5. Places'
    <2>1. ASSUME NEW d \in Clients, Queued(d)'
          PROVE  phase'[d] # "idle" /\ sEnd'[d] = "open" /\ d # cur'
      BY <1>1, <1>2, <1>3, <1>4, <2>1 DEF Places
    <2> QED BY <1>1, <1>2, <2>1 DEF Places
  <1>6. ASSUME NEW d \in Clients PROVE Progress(d)' /\ Serves(d)'
    <2>1. Pending(d)' = Pending(d)
      BY <1>1 DEF Pending
    <2>2. CASE d # cur
      <3>1. down'[d] = down[d]
        BY <1>1, <1>2, <2>2 DEF Close, ConnectionsOK
      <3>2. Serves(d)'
        BY <1>1, <1>2, <1>3, <1>4, <2>1, <2>2, <3>1, ServerServes
      <3> QED BY <1>1, <1>2, <1>4, <2>2, <3>2, ServerProgress
    <2>3. CASE d = cur
      <3>1. phase[d] = "idle" => sEnd'[d] = sEnd[d]
        BY <1>1, <1>2, <2>3 DEF Places
      <3>2. Progress(d)'
        BY <1>1, <1>2, <1>4, <3>1, ServerProgress
      <3>3. sEnd[d] = "open"
        BY <1>1, <1>2, <2>3 DEF Places
      <3>4. PICK k \in Arrive(d) : down' = [down EXCEPT ![d] = Front1(down[d], k)]
        BY <2>3 DEF Close
      <3>5. k \in 0..Len(down[d]) /\ down[d] \in Seq(Bytes) /\ down'[d] = Front1(down[d], k)
        BY <1>2, <3>4 DEF Arrive, ConnectionsOK
      <3>6. sEnd'[d] # "rst" => k = Len(down[d])
        BY <1>1, <1>2, <2>3, <3>4 DEF Arrive, ConnectionsOK
      <3>7. Gotten(d)' = Gotten(d) /\ Gotten(d) \in Seq(Bytes) /\ Pending(d) = <<>>
        <4>1. got[d] \in Seq(Bytes) \cup {NULL} /\ <<>> \in Seq(Bytes)
          BY DEF TypeInv, TypeOK, ClientsOK
        <4> QED BY <1>1, <4>1 DEF Gotten, Pending
      <3>8. PICK g, s, a, b \in Seq(Bytes) :
              g = Gotten(d) /\ s = down[d] /\ a = Front1(s, k) /\ b = Behind(s, k)
        BY <3>5, <3>7, Split
      <3>9. /\ g \o a \in Seq(Bytes) /\ g \o s \in Seq(Bytes) /\ (g \o a) \o b = g \o s
            /\ (g \o a) \o <<>> = g \o a /\ (g \o s) \o <<>> = g \o s
        <4>1. (g \o a) \o b = g \o s
          BY <3>5, <3>8, Passed
        <4>2. g \o a \in Seq(Bytes) /\ g \o s \in Seq(Bytes)
          BY Joined
        <4>3. \A x \in Seq(Bytes) : x \o <<>> = x
          BY ConcatEmptySeq
        <4> QED BY <4>1, <4>2, <4>3
      <3>10. sEnd'[d] # "rst" => b = <<>>
        <4>1. sEnd'[d] # "rst" => Len(b) = 0
          BY <3>5, <3>6, <3>8, Split
        <4> QED BY <3>8, <4>1
      <3>11. ASSUME Begins(d, (Gotten(d) \o down[d]) \o Pending(d))
             PROVE  Begins(d, (Gotten(d) \o down[d]) \o Pending(d))'
        <4>1. Begins(d, g \o s)
          BY <3>7, <3>8, <3>9, <3>11
        <4>2. PICK l \in Seq(Bytes) : (g \o s) \o l = served[d].data /\ l = <<>>
          BY <3>3, <4>1 DEF Begins
        <4>3. g \o s = served[d].data
          BY <3>9, <4>2
        <4>4. (Gotten(d)' \o down'[d]) \o Pending(d)' = g \o a
          BY <2>1, <3>5, <3>7, <3>8, <3>9
        <4> QED BY <1>1, <3>8, <3>9, <3>10, <4>3, <4>4 DEF Begins
      <3>12. d \notin Uploaders => phase[d] # "done"
        BY <1>2, <3>3 DEF Progress
      <3>13. down[d] = <<>> => down'[d] = <<>>
        <4>1. Len(down'[d]) = k /\ down'[d] \in Seq(Bytes)
          BY <3>5, Split
        <4> QED BY <3>5, <4>1
      <3>14. served[d] = NULL => down'[d] = <<>> /\ Gotten(d)' = <<>>
        BY <1>2, <3>7, <3>13 DEF Serves
      <3>15. ASSUME served[d] # NULL, d \notin Uploaders, phase[d] \notin Ended
             PROVE  Begins(d, (Gotten(d) \o down[d]) \o Pending(d))'
        BY <1>2, <3>11, <3>15 DEF Serves
      <3>16. Serves(d)'
        BY <1>1, <1>2, <1>3, <2>3, <3>12, <3>14, <3>15 DEF Serves
      <3> QED BY <3>2, <3>16
    <2> QED BY <2>2, <2>3
  <1>7. Records'
    BY <1>1, <1>2, <1>3, ServerRecords
  <1>8. Stored'
    BY <1>1, <1>2, <1>3, ServerStored
  <1> QED BY <1>5, <1>6, <1>7, <1>8 DEF DataInv

\* The invariant holds at the start.
LEMMA InitData == Init => DataInv
  <1> SUFFICES ASSUME Init PROVE DataInv
    OBVIOUS
  <1>1. NULL \notin Clients /\ BUFFSIZE \in Nat
    BY TransferAssumption
  <1>2. /\ pc = "accept" /\ cur = NULL /\ backlog = <<>> /\ files = InitialFiles
        /\ owner = [n \in DOMAIN InitialFiles |-> NULL]
        /\ \A c \in Clients : /\ phase[c] = "idle" /\ off[c] = 0 /\ got[c] = NULL /\ up[c] = <<>>
                              /\ down[c] = <<>> /\ cEnd[c] = "open" /\ sEnd[c] = "open"
                              /\ served[c] = NULL
    BY DEF Init
  <1>3. Places
    BY <1>1, <1>2 DEF Places, Queued
  <1>4. ASSUME NEW c \in Clients PROVE Progress(c) /\ Serves(c)
    BY <1>1, <1>2 DEF Progress, Serves, Gotten, Ended
  <1>5. Records
    <2>1. ASSUME NEW c \in Clients PROVE OnTheWay(c, 0)
      <3>1. up[c] = <<>> /\ Len(up[c]) = 0 /\ 0 + Len(up[c]) = 0
        BY <1>2
      <3> QED BY <1>2, <3>1 DEF OnTheWay, Sent, Piece
    <2> QED BY <1>2, <2>1 DEF Records
  <1>6. Stored
    BY <1>1, <1>2 DEF Stored
  <1> QED BY <1>3, <1>4, <1>5, <1>6 DEF DataInv

\* Every step keeps the invariant.
LEMMA DataStep == TypeInv /\ DataInv /\ [Next]_vars => DataInv'
  <1> SUFFICES ASSUME TypeInv, DataInv, [Next]_vars PROVE DataInv'
    OBVIOUS
  <1>1. CASE UNCHANGED vars
    <2>1. UNCHANGED <<phase, off, got, up, down, cEnd, sEnd, backlog, pc, cur, filename, rest,
                      files, owner, served>>
      BY <1>1 DEF vars
    <2>2. Places'
      BY <2>1 DEF DataInv, Places, Queued
    <2>3. ASSUME NEW c \in Clients PROVE Progress(c)' /\ Serves(c)'
      BY <2>1 DEF DataInv, Progress, Serves, Begins, Gotten, Pending, Queued
    <2>4. Records'
      BY <2>1 DEF DataInv, Records, OpRead, OnTheWay, Sent, Piece, Queued
    <2>5. Stored'
      <3>1. ASSUME NEW n, NEW c, NEW t, Upload(n, c, t) PROVE Upload(n, c, t)'
        BY <2>1, <3>1 DEF Upload, OnTheWay, Sent, Piece
      <3>2. ASSUME NEW n \in DOMAIN owner, NEW c \in Clients, owner[n] = c
            PROVE  \E t \in 0..(2 * BUFFSIZE) : Upload(n, c, t)'
        BY <3>1, <3>2 DEF DataInv, Stored
      <3> QED BY <2>1, <3>2 DEF DataInv, Stored, Queued
    <2> QED BY <2>2, <2>3, <2>4, <2>5 DEF DataInv
  <1>2. ASSUME NEW c \in Clients, Connect(c) PROVE DataInv'
    BY <1>2, ConnectKeeps
  <1>3. ASSUME NEW c \in Clients, ClientProgram(c) \/ Kill(c) PROVE DataInv'
    <2>1. Moves(c)
      BY <1>3, SendOpMoves, SendNameMoves, OpenMoves, SendFileMoves, SendFailsMoves,
         WriteFileMoves, FinishMoves, KillMoves DEF ClientProgram
    <2> QED BY <2>1, MovesKeep
  <1>4. CASE Server
    BY <1>4, AcceptKeeps, RecvOperationKeeps, RecvUploadNameKeeps, RecvFileKeeps,
       RecvDownloadNameKeeps, SendBlockKeeps, SendEndKeeps, CloseKeeps DEF Server
  <1> QED BY <1>1, <1>2, <1>3, <1>4 DEF Next

LEMMA DataAlways == Spec => [](TypeInv /\ DataInv)
  <1>1. Init => TypeInv /\ DataInv
    BY InitType, InitData
  <1>2. (TypeInv /\ DataInv) /\ [Next]_vars => (TypeInv /\ DataInv)'
    BY TypeStep, DataStep
  <1> QED BY <1>1, <1>2, PTL DEF Spec

-----------------------------------------------------------------------------
(* Uploads.                                                                *)

\* A sequence another one ends with.
LEMMA SuffixIs ==
  ASSUME NEW S, NEW s \in Seq(S), NEW f \in Seq(S), Len(s) <= Len(f),
         \A i \in 1..Len(s) : s[i] = f[(Len(f) - Len(s)) + i]
  PROVE  IsSuffix(s, f)
  <1>1. ASSUME NEW q \in Seq(S)
        PROVE  /\ Reverse(q) \in Seq(S) /\ Len(Reverse(q)) = Len(q)
               /\ \A i \in 1..Len(q) : Reverse(q)[i] = q[(Len(q) - i) + 1]
    <2>1. Len(q) \in Nat /\ \A i \in 1..Len(q) : q[i] \in S
      OBVIOUS
    <2>2. \A i \in 1..Len(q) : (Len(q) - i) + 1 \in 1..Len(q)
      BY <2>1
    <2> QED BY <2>1, <2>2 DEF Reverse
  <1>2. Len(s) \in Nat /\ Len(f) \in Nat
    OBVIOUS
  <1>3. ASSUME NEW i \in 1..Len(s) PROVE Reverse(s)[i] = Reverse(f)[i]
    <2>0. (Len(s) - i) + 1 \in Nat
      BY <1>2
    <2>1. PICK j \in Nat : j = (Len(s) - i) + 1
      BY <2>0
    <2>2. j \in 1..Len(s) /\ (Len(f) - Len(s)) + j = (Len(f) - i) + 1 /\ i \in 1..Len(f)
      BY <1>2, <2>1
    <2>3. s[j] = f[(Len(f) - i) + 1]
      BY <2>2
    <2> QED BY <1>1, <2>1, <2>2, <2>3
  <1>4. /\ Reverse(s) \in Seq(S) /\ Reverse(f) \in Seq(S)
        /\ Len(Reverse(s)) = Len(s) /\ Len(Reverse(f)) = Len(f)
    BY <1>1
  <1> QED BY <1>3, <1>4, PrefixIs DEF IsSuffix

\* What an upload says of the file, whoever it is of.
LEMMA UploadRight ==
  ASSUME TypeInv, DataInv, NEW n \in DOMAIN owner, NEW c \in Clients, owner[n] = c
  PROVE  /\ Clean(c) => n = Name[c] /\ IsPrefix(files[n], Local[c])
         /\ c # cur \/ pc # "writefile" =>
              /\ phase[c] \in Ended
              /\ phase[c] \in {"done", "crashed"} => IsSuffix(Local[c], files[n])
              /\ phase[c] \in {"done", "crashed"} /\ Clean(c) => files[n] = Local[c]
  <1>1. PICK t \in 0..(2 * BUFFSIZE) : Upload(n, c, t)
    BY DEF DataInv, Stored
  <1>2. files[n] \in Seq(Bytes) /\ Local[c] \in Seq(Bytes) /\ BUFFSIZE \in Nat \ {0} /\ Progress(c)
    BY Sendings DEF TypeInv, TypeOK, FilesOK, DataInv
  <1>3. PICK f \in Seq(Bytes), s \in Seq(Bytes), B \in Nat :
          f = files[n] /\ s = Local[c] /\ B = 2 * BUFFSIZE
    BY <1>2
  <1>4. Len(f) \in Nat /\ Len(s) \in Nat /\ B \in Nat /\ t \in Nat /\ t <= B
    BY <1>2, <1>3
  <1>5. \A k \in Nat : k # 0 => Byte(c, B + k) = s[k]
    BY <1>3, ByteParts
  <1>6. \A k \in 1..Len(f) : f[k] = Byte(c, t + k)
    BY <1>1, <1>3 DEF Upload, Piece
  <1>7. Clean(c) => n = Name[c] /\ t = B
    BY <1>1, <1>3 DEF Upload, Clean
  <1>8. t + Len(f) <= B + Len(s)
    <2>1. ASSUME NEW m, Sent(c, m) PROVE m \in Nat /\ m <= B + Len(s)
      <3>1. m \in Nat /\ m <= 2 * BUFFSIZE + off[c] /\ off[c] \in Nat /\ off[c] <= Len(Local[c])
        BY <2>1, SentRange
      <3>2. off[c] <= Len(s) /\ m <= B + off[c]
        BY <1>3, <3>1
      <3> QED BY <1>4, <3>1, <3>2
    <2>2. CASE c = cur /\ pc = "writefile"
      <3>1. Sent(c, (t + Len(f)) + Len(up[c]))
        BY <1>1, <1>3, <2>2 DEF Upload, OnTheWay
      <3>2. up[c] \in Seq(Bytes)
        BY DEF TypeInv, TypeOK, ConnectionsOK
      <3>3. PICK u \in Nat : u = Len(up[c])
        BY <3>2
      <3>4. PICK m : m = (t + Len(f)) + u
        OBVIOUS
      <3>5. m \in Nat /\ m <= B + Len(s)
        BY <2>1, <3>1, <3>3, <3>4
      <3>6. \A p, q, r \in Nat : p + r <= q => p <= q
        OBVIOUS
      <3>7. t + Len(f) \in Nat /\ B + Len(s) \in Nat
        BY <1>4
      <3>8. (t + Len(f)) + u <= B + Len(s)
        BY <3>4, <3>5
      <3> QED BY <3>6, <3>7, <3>8
    <2>3. CASE ~(c = cur /\ pc = "writefile")
      BY <1>1, <1>3, <2>1, <2>3 DEF Upload
    <2> QED BY <2>2, <2>3
  <1>9. Clean(c) => IsPrefix(f, s)
    <2> SUFFICES ASSUME t = B PROVE IsPrefix(f, s)
      BY <1>7
    <2>1. \A k \in 1..Len(f) : f[k] = s[k]
      BY <1>4, <1>5, <1>6
    <2> QED BY <1>4, <1>8, <2>1, PrefixIs
  <1>10. ASSUME ~(c = cur /\ pc = "writefile")
         PROVE  /\ phase[c] \in Ended
                /\ phase[c] \in {"done", "crashed"} => IsSuffix(s, f)
                /\ phase[c] \in {"done", "crashed"} /\ Clean(c) => f = s
    <2>1. phase[c] \in Ended /\ Sent(c, t + Len(f))
          /\ (c \notin Uploaders => phase[c] \notin {"done", "crashed"})
      BY <1>1, <1>3, <1>10 DEF Upload
    <2>2. ASSUME phase[c] \in {"done", "crashed"}
          PROVE  IsSuffix(s, f) /\ (Clean(c) => f = s)
      <3>1. t + Len(f) = B + Len(s)
        BY <1>2, <1>3, <2>1, <2>2 DEF Sent, Progress
      <3>2. Len(s) <= Len(f)
        BY <1>4, <3>1
      <3>3. ASSUME NEW k \in 1..Len(s) PROVE s[k] = f[(Len(f) - Len(s)) + k]
        <4>0. (Len(f) - Len(s)) + k \in Nat /\ k \in Nat /\ k # 0
          BY <1>4, <3>2
        <4>1. PICK j \in Nat : j = (Len(f) - Len(s)) + k
          BY <4>0
        <4>2. j \in 1..Len(f) /\ t + j = B + k
          BY <1>4, <3>1, <4>1
        <4> QED BY <1>5, <1>6, <4>0, <4>1, <4>2
      <3>4. IsSuffix(s, f)
        BY <3>2, <3>3, SuffixIs
      <3>5. Clean(c) => f = s
        <4> SUFFICES ASSUME t = B PROVE f = s
          BY <1>7
        <4>1. Len(f) = Len(s)
          BY <1>4, <3>1
        <4>2. \A k \in 1..Len(f) : f[k] = s[k]
          BY <1>4, <1>5, <1>6
        <4> QED BY <4>1, <4>2, SeqEqual
      <3> QED BY <3>4, <3>5
    <2> QED BY <2>1, <2>2
  <1> QED BY <1>3, <1>7, <1>9, <1>10

\* An upload that ran to its end is stored whole, at the end of its file, and
\* if its records came in one piece each and its name covers the operation,
\* under that name and as nothing else; of one that was cut off a first part
\* is stored.
THEOREM UploadsStored == Spec => []StoredRight
  <1>1. TypeInv /\ DataInv => StoredRight
    <2> SUFFICES ASSUME TypeInv, DataInv, NEW n \in DOMAIN owner, NEW c \in Uploaders, c = owner[n]
                 PROVE  /\ phase[c] \in {"done", "crashed"} /\ sEnd[c] # "open" =>
                             /\ IsSuffix(Local[c], files[n])
                             /\ Clean(c) => n = Name[c] /\ files[n] = Local[c]
                        /\ Clean(c) => IsPrefix(files[n], Local[c])
      BY DEF StoredRight, LastUploadWins, StoredPrefix
    <2>1. c \in Clients
      BY TransferAssumption
    <2>2. sEnd[c] # "open" => c # cur \/ pc # "writefile"
      BY DEF DataInv, Places
    <2> QED BY <2>1, <2>2, UploadRight
  <1> QED BY <1>1, DataAlways, PTL

-----------------------------------------------------------------------------
(* Downloads.                                                              *)

\* Who has ended stays as it is.
LEMMA EndedStays ==
  ASSUME TypeInv, NEW d \in Clients, phase[d] \in Ended, [Next]_vars
  PROVE  phase'[d] = phase[d]
  <1>1. phase \in [Clients -> {"idle", "connected", "asked", "named", "moving"} \cup Ended]
    BY DEF TypeInv, TypeOK, ClientsOK
  <1>2. ASSUME NEW c \in Clients, Connect(c) \/ ClientProgram(c) \/ Kill(c)
        PROVE  phase'[d] = phase[d]
    <2>1. c # d
      BY <1>2 DEF Ended, Connect, ClientProgram, SendOp, SendName, Open, SendFile, SendFails,
                  WriteFile, Finish, Kill
    <2>2. UNCHANGED phase \/ \E p : phase' = [phase EXCEPT ![c] = p]
      BY <1>2 DEF Connect, ClientProgram, SendOp, SendName, Open, SendFile, SendFails,
                  WriteFile, Finish, Kill, Leave
    <2> QED BY <1>1, <2>1, <2>2
  <1>3. Server => UNCHANGED phase
    BY DEF Server, Accept, RecvOperation, RecvUploadName, RecvFile, RecvDownloadName,
           SendBlock, SendEnd, Close
  <1> QED BY <1>2, <1>3 DEF Next, vars

\* While a file is sent, it is the one asked for unless more is to be read.
AtHand ==
  pc \in {"sendfile", "close"} /\ served[cur] # NULL /\ Usual(cur) /\ up[cur] = <<>> =>
    served[cur].name = Name[cur]

\* What is sent to a client is what it asked for, a finished file.
OpenedRight == AskedFor /\ AtHand /\ DownloadServesUpload

\* Nobody's connection is closed in order by exit but that of cur.
LEMMA ExitAsked ==
  ASSUME ConnectionsOK, AskedFor, cur \in Clients, Exit, UNCHANGED <<served, cur>>,
         served[cur] # NULL /\ Usual(cur) /\ up'[cur] = <<>> => served[cur].name = Name[cur]
  PROVE  AskedFor'
  <1> SUFFICES ASSUME NEW c \in Clients, served[c] # NULL,
                      Clean(c) \/ (Usual(c) /\ sEnd'[c] = "fin")
               PROVE  served[c].name = Name[c]
    BY DEF AskedFor, Clean, Usual
  <1>1. CASE Clean(c)
    BY <1>1 DEF AskedFor
  <1>2. CASE Usual(c) /\ sEnd'[c] = "fin"
    <2>1. CASE c = cur
      BY <1>2, <2>1 DEF Exit, ServerEnd
    <2>2. CASE c # cur
      BY <1>2, <2>2 DEF Exit, AskedFor
    <2> QED BY <2>1, <2>2
  <1> QED BY <1>1, <1>2

\* Clients only add to what is under way to the server.
LEMMA ClientsAdd ==
  ASSUME TypeInv, NEW c \in Clients, Connect(c) \/ ClientProgram(c) \/ Kill(c), NEW d \in Clients
  PROVE  /\ up'[d] = <<>> => up[d] = <<>>
         /\ UNCHANGED <<sEnd, pc, cur, served>>
  <1>1. up \in [Clients -> Seq(Bytes)]
    BY DEF TypeInv, TypeOK, ConnectionsOK
  <1>2. ASSUME NEW bytes \in Seq(Bytes), Send(c, bytes) PROVE up'[d] = <<>> => up[d] = <<>>
    <2>1. PICK s \in Seq(Bytes) : s = up[d]
      BY <1>1
    <2>2. s \o bytes = <<>> => s = <<>>
      <3>1. Len(s \o bytes) = Len(s) + Len(bytes) /\ Len(s) \in Nat /\ Len(bytes) \in Nat
        BY Joined
      <3> QED BY <3>1
    <2>3. up'[d] = s \/ up'[d] = s \o bytes
      BY <1>1, <1>2, <2>1 DEF Send
    <2> QED BY <2>1, <2>2, <2>3
  <1>3. CASE SendOp(c)
    BY <1>2, <1>3, Sendings DEF SendOp
  <1>4. CASE SendName(c)
    BY <1>2, <1>4, Sendings DEF SendName
  <1>5. CASE SendFile(c)
    <2> DEFINE n == Least(BUFFSIZE, Len(Local[c]) - off[c])
               part == SubSeq(Local[c], off[c] + 1, off[c] + n)
    <2>1. part \in Seq(Bytes)
      BY <1>5, FilePart DEF SendFile, TypeInv
    <2>2. Send(c, part) /\ UNCHANGED <<sEnd, pc, cur, served>>
      BY <1>5 DEF SendFile
    <2> HIDE DEF part
    <2> QED BY <1>2, <2>1, <2>2
  <1>6. CASE ~(SendOp(c) \/ SendName(c) \/ SendFile(c))
    <2>1. UNCHANGED <<up, sEnd, pc, cur, served>>
      BY <1>6 DEF Connect, ClientProgram, Open, SendFails, WriteFile, Finish, Kill
    <2> QED BY <2>1
  <1> QED BY <1>3, <1>4, <1>5, <1>6

\* RecvDownloadName opens a finished file, the one that is asked for.
LEMMA OpensRight == ASSUME TypeInv, DataInv, OpenedRight, RecvDownloadName PROVE OpenedRight'
  <1>1. /\ pc = "download"
        /\ UNCHANGED <<phase, off, got, down, cEnd, cur, files, owner>>
    BY DEF RecvDownloadName
  <1>2. PICK k \in Received :
          /\ Recv(k)
          /\ LET n == StringIn(Padded(Front1(up[cur], k))) IN
             IF n \notin DOMAIN files THEN Exit /\ UNCHANGED <<filename, rest, served>>
             ELSE /\ filename' = n
                  /\ rest' = files[n]
                  /\ served' = [served EXCEPT ![cur] = [name |-> n, data |-> files[n]]]
                  /\ pc' = "sendfile"
                  /\ UNCHANGED <<sEnd, backlog>>
    BY DEF RecvDownloadName
  <1>3. /\ FilesOK /\ ConnectionsOK /\ cur \in Clients /\ NULL \notin Clients /\ Stored /\ Places
        /\ \A d \in Clients : Serves(d)
    BY <1>1, TransferAssumption DEF TypeInv, TypeOK, MainOK, DataInv
  <1>4. PICK c \in Clients : c = cur /\ c = cur'
    BY <1>1, <1>3
  <1>4a. served[c] = NULL
    BY <1>1, <1>3, <1>4 DEF Serves
  <1>5. PICK n : n = StringIn(Padded(Front1(up[c], k)))
    OBVIOUS
  <1>6. CASE n \notin DOMAIN files
    <2>1. UNCHANGED <<served, phase>> /\ Exit
      BY <1>1, <1>2, <1>4, <1>5, <1>6
    <2>2. AskedFor'
      BY <1>3, <1>4, <1>4a, <2>1, ExitAsked DEF OpenedRight
    <2>3. AtHand'
      BY <2>1 DEF AtHand, Exit
    <2> QED BY <2>1, <2>2, <2>3 DEF OpenedRight, DownloadServesUpload, Clean
  <1>7. CASE n \in DOMAIN files
    <2>1. /\ served' = [served EXCEPT ![c] = [name |-> n, data |-> files[n]]]
          /\ UNCHANGED sEnd
      BY <1>2, <1>4, <1>5, <1>7
    <2>2. /\ served'[c].name = n /\ served'[c].data = files[n]
          /\ \A d \in Clients : d # c => served'[d] = served[d]
      BY <1>3, <2>1 DEF FilesOK
    <2>3. Clean(c) \/ (Usual(c) /\ up'[c] = <<>>) => n = Name[c]
      <3>1. n # <<>>
        BY <1>3, <1>7 DEF FilesOK
      <3> QED BY <1>1, <1>2, <1>4, <1>5, <3>1, NameReceived
    <2>4. \/ n \in DOMAIN InitialFiles /\ files[n] = InitialFiles[n]
          \/ \E d \in Clients : /\ phase[d] \in Ended
                                /\ phase[d] \in {"done", "crashed"} => IsSuffix(Local[d], files[n])
                                /\ Clean(d) => n = Name[d] /\ IsPrefix(files[n], Local[d])
      <3>1. n \in DOMAIN owner /\ owner[n] \in Clients \cup {NULL}
        BY <1>3, <1>7 DEF FilesOK
      <3>2. CASE owner[n] = NULL
        BY <1>3, <3>1, <3>2 DEF Stored
      <3>3. CASE owner[n] # NULL
        <4>1. PICK d \in Clients : owner[n] = d
          BY <3>1, <3>3
        <4>2. pc # "writefile"
          BY <1>1
        <4>3. /\ Clean(d) => n = Name[d] /\ IsPrefix(files[n], Local[d])
              /\ phase[d] \in Ended
              /\ phase[d] \in {"done", "crashed"} => IsSuffix(Local[d], files[n])
          BY <3>1, <4>1, <4>2, UploadRight
        <4> QED BY <4>3
      <3> QED BY <3>2, <3>3
    <2>5. AskedFor'
      <3>1. sEnd'[c] = "open"
        BY <1>1, <1>3, <1>4, <2>1 DEF Places
      <3> QED BY <2>1, <2>2, <2>3, <3>1 DEF AskedFor, OpenedRight, Clean, Usual
    <2>6. DownloadServesUpload'
      BY <1>1, <2>2, <2>4 DEF DownloadServesUpload, OpenedRight, Clean
    <2>7. AtHand'
      BY <1>4, <2>2, <2>3 DEF AtHand, Usual
    <2> QED BY <2>5, <2>6, <2>7 DEF OpenedRight
  <1> QED BY <1>6, <1>7

\* What every other step says of the file that was opened.
LEMMA OpenedStays ==
  ASSUME TypeInv, DataInv, OpenedRight, [Next]_vars, ~RecvDownloadName
  PROVE  AskedFor' /\ AtHand'
  <1>1. /\ AskedFor /\ AtHand /\ Places /\ NULL \notin Clients /\ ConnectionsOK
        /\ cur \in Clients \cup {NULL} /\ (pc \notin {"accept", "exited"} => cur # NULL)
        /\ \A d \in Clients : Serves(d)
    BY TransferAssumption DEF OpenedRight, DataInv, TypeInv, TypeOK, MainOK
  <1>2. CASE UNCHANGED vars
    BY <1>1, <1>2 DEF vars, AskedFor, AtHand, Clean, Usual
  <1>3. ASSUME NEW c \in Clients, Connect(c) \/ ClientProgram(c) \/ Kill(c)
        PROVE  AskedFor' /\ AtHand'
    <2>1. \A d \in Clients : up'[d] = <<>> => up[d] = <<>>
      BY <1>3, ClientsAdd
    <2>2. UNCHANGED <<sEnd, pc, cur, served>>
      BY <1>3, ClientsAdd
    <2>3. AskedFor'
      BY <1>1, <2>2 DEF AskedFor, Clean, Usual
    <2>4. AtHand'
      BY <1>1, <2>1, <2>2 DEF AtHand, Usual
    <2> QED BY <2>3, <2>4
  <1>4. ASSUME UNCHANGED <<served, sEnd>>,
               pc' \notin {"sendfile", "close"} \/ (UNCHANGED cur /\ served[cur] = NULL)
        PROVE  AskedFor' /\ AtHand'
    BY <1>1, <1>4 DEF AskedFor, AtHand, Clean, Usual
  <1>5. CASE Accept
    BY <1>4, <1>5 DEF Accept
  <1>6. CASE RecvOperation \/ RecvFile
    <2>1. served[cur] = NULL
      BY <1>1, <1>6 DEF RecvOperation, RecvFile, Serves
    <2> QED BY <1>4, <1>6, <2>1 DEF RecvOperation, RecvFile
  <1>7. CASE RecvUploadName
    <2>1. served[cur] = NULL /\ cur \in Clients /\ UNCHANGED <<served, cur>>
      BY <1>1, <1>7 DEF RecvUploadName, Serves
    <2>2. CASE UNCHANGED sEnd /\ pc' = "writefile"
      BY <1>4, <2>1, <2>2
    <2>3. CASE Exit
      BY <1>1, <2>1, <2>3, ExitAsked DEF AtHand, Exit
    <2> QED BY <1>7, <2>2, <2>3 DEF RecvUploadName
  <1>8. CASE SendBlock
    <2>1. cur \in Clients /\ UNCHANGED <<served, cur, up>> /\ pc = "sendfile"
      BY <1>1, <1>8 DEF SendBlock
    <2>2. CASE UNCHANGED <<sEnd, pc>>
      BY <1>1, <2>1, <2>2 DEF AskedFor, AtHand, Clean, Usual
    <2>3. CASE Exit
      <3>1. AskedFor'
        BY <1>1, <2>1, <2>3, ExitAsked DEF AtHand
      <3> QED BY <2>3, <3>1 DEF AtHand, Exit
    <2> QED BY <1>8, <2>2, <2>3 DEF SendBlock
  <1>9. CASE SendEnd
    BY <1>1, <1>9 DEF SendEnd, AskedFor, AtHand, Clean, Usual
  <1>10. CASE Close
    <2>1. /\ cur \in Clients /\ UNCHANGED <<served, cur, up>> /\ pc = "close" /\ pc' = "accept"
          /\ sEnd' = [sEnd EXCEPT ![cur] = ServerEnd(cur)]
      BY <1>1, <1>10 DEF Close
    <2>2. \A d \in Clients : sEnd'[d] = "fin" => sEnd[d] = "fin" \/ (d = cur /\ up[cur] = <<>>)
      BY <1>1, <2>1 DEF ConnectionsOK, ServerEnd
    <2>3. AskedFor'
      BY <1>1, <2>1, <2>2 DEF AskedFor, AtHand, Clean, Usual
    <2> QED BY <2>1, <2>3 DEF AtHand
  <1> QED BY <1>2, <1>3, <1>5, <1>6, <1>7, <1>8, <1>9, <1>10 DEF Next, Server

\* Every other step leaves what was opened, and who has ended, as it is.
LEMMA OpenedStep ==
  ASSUME TypeInv, DataInv, OpenedRight, [Next]_vars PROVE OpenedRight'
  <1>1. CASE RecvDownloadName
    BY <1>1, OpensRight
  <1>2. CASE ~RecvDownloadName
    <2>1. UNCHANGED served
      BY <1>2 DEF Next, vars, Connect, ClientProgram, SendOp, SendName, Open, SendFile, SendFails,
                  WriteFile, Finish, Kill, Server, Accept, RecvOperation, RecvUploadName, RecvFile,
                  SendBlock, SendEnd, Close
    <2>2. \A d \in Clients : phase[d] \in Ended => phase'[d] = phase[d]
      BY EndedStays
    <2>3. AskedFor' /\ AtHand'
      BY <1>2, OpenedStays
    <2>4. ASSUME NEW c \in Clients, served[c] # NULL
          PROVE  LET s == served[c] IN
                 \/ s.name \in DOMAIN InitialFiles /\ s.data = InitialFiles[s.name]
                 \/ \E d \in Clients : /\ phase'[d] \in Ended
                                       /\ phase'[d] \in {"done", "crashed"} => IsSuffix(Local[d], s.data)
                                       /\ Clean(d) => s.name = Name[d] /\ IsPrefix(s.data, Local[d])
      BY <2>2, <2>4 DEF DownloadServesUpload, OpenedRight
    <2>5. DownloadServesUpload'
      BY <2>1, <2>4 DEF DownloadServesUpload, Clean
    <2> QED BY <2>3, <2>5 DEF OpenedRight
  <1> QED BY <1>1, <1>2

\* Who asks for a file is sent the one of that name, if its records came in
\* one piece each or if the server closed with nothing unread; it is a file of
\* the start or an upload that has ended, never one still under way.  Who
\* comes to the end of the stream without being killed or crashing has a first
\* part of it, and all of it unless the server's close was a reset.
THEOREM DownloadsRight == Spec => []DownloadRight
  <1>1. Init => OpenedRight
    BY DEF Init, OpenedRight, AskedFor, AtHand, DownloadServesUpload
  <1>2. TypeInv /\ DataInv /\ OpenedRight /\ [Next]_vars => OpenedRight'
    BY OpenedStep
  <1>3. TypeInv /\ DataInv /\ OpenedRight => DownloadRight
    <2> SUFFICES ASSUME TypeInv, DataInv, NEW c \in Clients \ Uploaders, phase[c] = "done",
                        served[c] # NULL
                 PROVE  /\ IsPrefix(got[c], served[c].data)
                        /\ sEnd[c] = "fin" => got[c] = served[c].data
      BY DEF DownloadRight, OpenedRight, DownloadComplete
    <2>1. Begins(c, got[c])
      BY DEF DataInv, Serves
    <2>2. PICK s, l \in Seq(Bytes) : /\ s = got[c] /\ s \o l = served[c].data
                                     /\ sEnd[c] # "rst" => l = <<>>
      BY <2>1 DEF Begins
    <2>3. IsPrefix(s, s \o l)
      <3>1. /\ s \o l \in Seq(Bytes) /\ Len(s \o l) = Len(s) + Len(l)
            /\ Len(s) \in Nat /\ Len(l) \in Nat /\ \A i \in 1..Len(s) : (s \o l)[i] = s[i]
        BY Joined
      <3>2. Len(s) <= Len(s \o l)
        BY <3>1
      <3> QED BY <3>1, <3>2, PrefixIs
    <2>4. s \o <<>> = s
      BY ConcatEmptySeq
    <2> QED BY <2>2, <2>3, <2>4
  <1>4. Spec => []OpenedRight
    BY <1>1, <1>2, DataAlways, PTL DEF Spec
  <1> QED BY <1>3, <1>4, DataAlways, PTL
=============================================================================

---------------------------- MODULE JavaChatProofs ----------------------------
(***************************************************************************)
(* What TLAPS proves of JavaChat, for any clients, ports, lines and        *)
(* buffers.                                                                *)
(***************************************************************************)
EXTENDS JavaChat, SequenceTheorems, TLAPS

USE DEF Over, clientVars, mainVars, threadVars

-----------------------------------------------------------------------------
(* Types.                                                                  *)

\* A sequence with one more element: what is where.
LEMMA Appended ==
  ASSUME NEW S, NEW s \in Seq(S), NEW e \in S
  PROVE  /\ Append(s, e) \in Seq(S) /\ Len(Append(s, e)) = Len(s) + 1 /\ Len(s) \in Nat
         /\ DOMAIN s = 1..Len(s) /\ DOMAIN Append(s, e) = 1..(Len(s) + 1)
         /\ \A k \in 1..Len(s) : Append(s, e)[k] = s[k]
         /\ Append(s, e)[Len(s) + 1] = e
  OBVIOUS

\* A sequence without its first element: what is where.
LEMMA HeadTail ==
  ASSUME NEW S, NEW s \in Seq(S), s # <<>>
  PROVE  /\ Head(s) \in S /\ Head(s) = s[1] /\ Tail(s) \in Seq(S)
         /\ Len(s) \in Nat /\ Len(s) >= 1 /\ Len(Tail(s)) = Len(s) - 1
         /\ DOMAIN s = 1..Len(s) /\ DOMAIN Tail(s) = 1..(Len(s) - 1)
         /\ \A k \in 1..(Len(s) - 1) : Tail(s)[k] = s[k + 1]
  OBVIOUS

\* The elements of a sequence.
LEMMA InSeq ==
  ASSUME NEW S, NEW s \in Seq(S)
  PROVE  DOMAIN s = 1..Len(s) /\ Len(s) \in Nat /\ \A k \in DOMAIN s : s[k] \in S
  OBVIOUS

\* The chat starts with values of the right types.
LEMMA InitType == Init => TypeOK
  <1> SUFFICES ASSUME Init PROVE TypeOK
    OBVIOUS
  <1> USE DEF Init
  <1>1. ClientsOK
    BY DEF ClientsOK
  <1>2. MainOK
    BY DEF MainOK
  <1>3. ThreadsOK
    BY DEF ThreadsOK
  <1> QED BY <1>1, <1>2, <1>3 DEF TypeOK

LEMMA ConnectType == ASSUME TypeOK, NEW c \in Clients, Connect(c) PROVE TypeOK'
  <1> USE DEF TypeOK, Connect
  <1>1. ClientsOK'
    BY DEF ClientsOK
  <1>2. MainOK'
    BY DEF MainOK
  <1>3. ThreadsOK'
    BY DEF ThreadsOK
  <1> QED BY <1>1, <1>2, <1>3

\* The name or a line.
LEMMA WriteUTFType == ASSUME TypeOK, NEW c \in Clients, WriteUTF(c) PROVE TypeOK'
  <1> USE DEF TypeOK, WriteUTF
  <1>1. ClientsOK'
    <2>1. sent[c] \in Nat /\ Append(up[c], sent[c]) \in Seq(Nat)
      BY DEF ClientsOK
    <2> QED BY <2>1 DEF ClientsOK
  <1>2. MainOK'
    BY DEF MainOK
  <1>3. ThreadsOK'
    BY DEF ThreadsOK
  <1> QED BY <1>1, <1>2, <1>3

LEMMA ReceiveType == ASSUME TypeOK, NEW c \in Clients, Receive(c) PROVE TypeOK'
  <1> USE DEF TypeOK, Receive
  <1>1. ClientsOK'
    <2>1. nread[c] + 1 \in Nat
      BY DEF ClientsOK
    <2>2. [nread EXCEPT ![c] = @ + 1] \in [Clients -> Nat]
      BY <2>1 DEF ClientsOK
    <2> QED BY <2>2 DEF ClientsOK
  <1>2. MainOK'
    BY DEF MainOK
  <1>3. ThreadsOK'
    BY DEF ThreadsOK
  <1> QED BY <1>1, <1>2, <1>3

LEMMA LeaveType == ASSUME TypeOK, NEW c \in Clients, Leave(c) PROVE TypeOK'
  <1> USE DEF TypeOK, Leave
  <1>1. ClientsOK'
    BY DEF ClientsOK
  <1>2. MainOK'
    BY DEF MainOK
  <1>3. ThreadsOK'
    BY DEF ThreadsOK
  <1> QED BY <1>1, <1>2, <1>3

LEMMA AcceptType == ASSUME TypeOK, Accept PROVE TypeOK'
  <1> USE DEF TypeOK, Accept
  <1>1. ClientsOK'
    BY DEF ClientsOK
  <1>2. MainOK'
    <2>1. Head(backlog) \in Clients /\ Tail(backlog) \in Seq(Clients)
      BY HeadTail DEF MainOK
    <2> QED BY <2>1, JavaAssumption DEF MainOK
  <1>3. ThreadsOK'
    BY DEF ThreadsOK
  <1> QED BY <1>1, <1>2, <1>3

LEMMA AddClientType == ASSUME TypeOK, AddClient PROVE TypeOK'
  <1> USE DEF TypeOK, AddClient
  <1>1. mcur \in Clients /\ clientList \in Seq(Clients)
    BY DEF MainOK
  <1>2. ClientsOK'
    <2>1. Tail(up[mcur]) \in Seq(Nat)
      BY <1>1, HeadTail DEF ClientsOK
    <2> QED BY <1>1, <2>1 DEF ClientsOK
  <1>3. MainOK'
    BY <1>1 DEF MainOK
  <1>4. ThreadsOK'
    <2>1. Len(clientList') = Len(clientList) + 1 /\ Len(clientList) \in Nat
      BY <1>1
    <2>2. Started \in Nat /\ Started = Len(clientList')
      BY <2>1 DEF Started
    <2> QED BY <1>1, <2>1, <2>2 DEF ThreadsOK
  <1> QED BY <1>2, <1>3, <1>4

LEMMA NoNameType == ASSUME TypeOK, NoName PROVE TypeOK'
  <1> USE DEF TypeOK, NoName
  <1>1. ClientsOK'
    BY DEF ClientsOK
  <1>2. MainOK'
    BY DEF MainOK
  <1>3. ThreadsOK'
    BY DEF ThreadsOK
  <1> QED BY <1>1, <1>2, <1>3

LEMMA ReadUTFType == ASSUME TypeOK, NEW c \in Clients, ReadUTF(c) PROVE TypeOK'
  <1> USE DEF TypeOK, ReadUTF
  <1>1. Head(up[c]) \in Nat /\ Tail(up[c]) \in Seq(Nat)
    BY HeadTail DEF ClientsOK
  <1>2. ClientsOK'
    BY <1>1 DEF ClientsOK
  <1>3. MainOK'
    BY DEF MainOK
  <1>4. ThreadsOK'
    <2>1. Len(clientList) \in Nat
      BY DEF MainOK
    <2> QED BY <1>1, <2>1 DEF ThreadsOK
  <1> QED BY <1>2, <1>3, <1>4

LEMMA ReadFailsType == ASSUME TypeOK, NEW c \in Clients, ReadFails(c) PROVE TypeOK'
  <1> USE DEF TypeOK, ReadFails
  <1>1. ClientsOK'
    BY DEF ClientsOK
  <1>2. MainOK'
    BY DEF MainOK
  <1>3. ThreadsOK'
    BY DEF ThreadsOK
  <1> QED BY <1>1, <1>2, <1>3

LEMMA LoopEndsType == ASSUME TypeOK, NEW c \in Clients, LoopEnds(c) PROVE TypeOK'
  <1> USE DEF TypeOK, LoopEnds
  <1>1. ClientsOK'
    BY DEF ClientsOK
  <1>2. MainOK'
    BY DEF MainOK
  <1>3. ThreadsOK'
    BY DEF ThreadsOK
  <1> QED BY <1>1, <1>2, <1>3

LEMMA GetType == ASSUME TypeOK, NEW c \in Clients, Get(c) PROVE TypeOK'
  <1> USE DEF TypeOK, Get
  <1>1. ClientsOK'
    BY DEF ClientsOK
  <1>2. MainOK'
    BY DEF MainOK
  <1>3. ThreadsOK'
    <2>1. DOMAIN clientList = 1..Len(clientList) /\ Len(clientList) \in Nat
      BY DEF MainOK
    <2>2. InSight(c) \in Nat /\ InSight(c) >= i[c] /\ InSight(c) <= Len(clientList)
      BY <2>1 DEF ThreadsOK, InSight
    <2>3. i[c] + 1 \in Nat \ {0} /\ i[c] + 1 <= Len(clientList) + 1
      BY <2>1 DEF ThreadsOK
    <2>4. CASE Skipped(c, clientList[i[c]])
      BY <2>2, <2>3, <2>4 DEF ThreadsOK
    <2>5. CASE ~Skipped(c, clientList[i[c]])
      BY <2>2, <2>5 DEF ThreadsOK
    <2> QED BY <2>4, <2>5
  <1> QED BY <1>1, <1>2, <1>3

LEMMA GetFailsType == ASSUME TypeOK, NEW c \in Clients, GetFails(c) PROVE TypeOK'
  <1> USE DEF TypeOK, GetFails
  <1>1. ClientsOK'
    BY DEF ClientsOK
  <1>2. MainOK'
    BY DEF MainOK
  <1>3. ThreadsOK'
    BY DEF ThreadsOK
  <1> QED BY <1>1, <1>2, <1>3

LEMMA WriteType == ASSUME TypeOK, NEW c \in Clients, Write(c) PROVE TypeOK'
  <1> USE DEF TypeOK, Write
  <1>1. i[c] \in DOMAIN clientList /\ clientList[i[c]] \in Clients /\ Len(clientList) \in Nat
    <2>1. clientList \in Seq(Clients) /\ DOMAIN clientList = 1..Len(clientList)
          /\ Len(clientList) \in Nat
      BY DEF MainOK
    <2>2. i[c] \in 1..Len(clientList)
      BY <2>1 DEF ThreadsOK
    <2> QED BY <2>1, <2>2
  <1> DEFINE d == clientList[i[c]]
  <1>2. ClientsOK'
    <2>1. CASE phase[d] = "left"
      BY <1>1, <2>1 DEF ClientsOK
    <2>2. CASE phase[d] # "left"
      <3>1. Append(down[d], [from |-> c, n |-> msg[c]]) \in Seq([from : Clients, n : Nat])
        BY <1>1 DEF ClientsOK, ThreadsOK
      <3> QED BY <1>1, <2>2, <3>1 DEF ClientsOK
    <2> QED BY <2>1, <2>2
  <1>3. MainOK'
    BY DEF MainOK
  <1>4. ThreadsOK'
    <2>1. tpc' = [tpc EXCEPT ![c] = "next"]
      BY DEF AfterFailure
    <2>2. i[c] + 1 \in Nat \ {0} /\ i[c] + 1 <= Len(clientList) + 1
      BY <1>1 DEF ThreadsOK
    <2> QED BY <2>1, <2>2 DEF ThreadsOK
  <1> QED BY <1>2, <1>3, <1>4

\* Every step keeps the types.
LEMMA TypeStep == TypeOK /\ [Next]_vars => TypeOK'
  <1> SUFFICES ASSUME TypeOK, [Next]_vars PROVE TypeOK'
    OBVIOUS
  <1>1. ASSUME NEW c \in Clients,
               Connect(c) \/ SendName(c) \/ SendLine(c) \/ Receive(c) \/ Leave(c)
        PROVE  TypeOK'
    BY <1>1, ConnectType, WriteUTFType, ReceiveType, LeaveType DEF SendName, SendLine
  <1>2. ASSUME NEW c \in Clients, Thread(c) PROVE TypeOK'
    BY <1>2, ReadUTFType, ReadFailsType, LoopEndsType, GetType, GetFailsType, WriteType
    DEF Thread
  <1>3. CASE Main
    BY <1>3, AcceptType, AddClientType, NoNameType DEF Main
  <1>4. CASE UNCHANGED vars
    BY <1>4 DEF vars, TypeOK, ClientsOK, MainOK, ThreadsOK
  <1> QED BY <1>1, <1>2, <1>3, <1>4 DEF Next

\* Every variable keeps its type: no loop runs out of the list, though the list
\* grows under it, and what is written to has been got from it.
THEOREM ChatTypeCorrect == Spec => []TypeOK
  BY InitType, TypeStep, PTL DEF Spec

-----------------------------------------------------------------------------
(* The inductive invariant.                                                *)

Queued(c) == \E k \in DOMAIN backlog : backlog[k] = c

Listed(c) == \E k \in DOMAIN clientList : clientList[k] = c

\* A client is in one place: not there yet, in the queue, asked for its name,
\* or in the list, once, and then it has a thread.
Places ==
  /\ \A j, k \in DOMAIN backlog : j # k => backlog[j] # backlog[k]
  /\ \A j, k \in DOMAIN clientList : j # k => clientList[j] # clientList[k]
  /\ \A c \in Clients : /\ Queued(c) => phase[c] # "idle" /\ ~Listed(c)
                        /\ Listed(c) <=> tpc[c] # "none"
                        /\ Listed(c) => phase[c] # "idle"
  /\ mpc = "name" => phase[mcur] # "idle" /\ ~Queued(mcur) /\ ~Listed(mcur)

\* The record of c that comes next: the name, or the line after the last read.
NextRecord(c) == IF tpc[c] = "none" THEN NAME ELSE msg[c] + 1

\* The records of c on their way are the next ones, without a gap.
InSequence(c) ==
  /\ sent[c] = NextRecord(c) + Len(up[c])
  /\ \A k \in 1..Len(up[c]) : up[c][k] = NextRecord(c) + k - 1
  /\ tpc[c] = "none" => msg[c] = 0
  /\ tpc[c] \in {"next", "write"} => msg[c] > 0

\* A thread sees the list up to its own client, and writes to other ports.
Sight(c) ==
  /\ \A k \in DOMAIN clientList : clientList[k] = c => seen[c] >= k
  /\ tpc[c] = "write" => Port[clientList[i[c]]] # Port[c]

\* r was sent line n of s.
Heard(r, s, n) == \E k \in DOMAIN down[r] : down[r][k] = [from |-> s, n |-> n]

\* The last line of s that is through the part of the list where position j is.
LastThrough(s, j) == IF tpc[s] \in {"next", "write", "thrown"} /\ i[s] <= j THEN msg[s] - 1 ELSE msg[s]

\* Only who is in the list hears, and only others that are in it.
HeardInList ==
  \A r, s \in Clients : \A n \in Nat :
    Heard(r, s, n) => Listed(r) /\ tpc[s] # "none" /\ Port[r] # Port[s]

\* Nobody is ahead; who has heard s and is there is not behind, as its place
\* in the list is in sight of s.
UpToDate ==
  \A s \in Clients, j \in DOMAIN clientList : LET r == clientList[j] IN
    \A n \in Nat : Heard(r, s, n) =>
      /\ n <= LastThrough(s, j)
      /\ phase[r] # "left" => seen[s] >= j /\ Heard(r, s, LastThrough(s, j))

\* Who was in the list before s was sent all lines.
EarlierHeard ==
  \A j, k \in DOMAIN clientList :
    LET r == clientList[j]
        s == clientList[k]
    IN j < k /\ Port[r] # Port[s] /\ phase[r] # "left" =>
         \A n \in 1..LastThrough(s, j) : Heard(r, s, n)

OrderInv == Places /\ \A c \in Clients : InSequence(c) /\ Sight(c)

HearInv == HeardInList /\ UpToDate /\ EarlierHeard
-----------------------------------------------------------------------------
(* Where clients are, and which of their records come next.                *)

\* One more in the queue or in the list, or the first one gone.
LEMMA AppendedOnce ==
  ASSUME NEW s \in Seq(Clients), NEW c \in Clients, NEW t, t = Append(s, c)
  PROVE  /\ \A d : (\E k \in DOMAIN t : t[k] = d) <=> (\E k \in DOMAIN s : s[k] = d) \/ d = c
         /\ (\A j, k \in DOMAIN s : j # k => s[j] # s[k]) /\ ~(\E k \in DOMAIN s : s[k] = c) =>
              \A j, k \in DOMAIN t : j # k => t[j] # t[k]
  <1>1. /\ DOMAIN s = 1..Len(s) /\ DOMAIN t = 1..(Len(s) + 1) /\ Len(s) \in Nat
        /\ \A k \in 1..Len(s) : t[k] = s[k]
        /\ t[Len(s) + 1] = c
    BY Appended
  <1>2. DOMAIN t = DOMAIN s \cup {Len(s) + 1} /\ Len(s) + 1 \in DOMAIN t
    BY <1>1
  <1> QED BY <1>1, <1>2

LEMMA TailOnce ==
  ASSUME NEW s \in Seq(Clients), s # <<>>, NEW t, t = Tail(s),
         \A j, k \in DOMAIN s : j # k => s[j] # s[k]
  PROVE  /\ \E k \in DOMAIN s : s[k] = Head(s)
         /\ \A d : (\E k \in DOMAIN t : t[k] = d)
                     <=> (\E k \in DOMAIN s : s[k] = d) /\ d # Head(s)
         /\ \A j, k \in DOMAIN t : j # k => t[j] # t[k]
  <1>1. /\ Len(s) \in Nat /\ Len(s) >= 1 /\ Head(s) = s[1]
        /\ DOMAIN s = 1..Len(s) /\ DOMAIN t = 1..(Len(s) - 1)
        /\ \A k \in 1..(Len(s) - 1) : t[k] = s[k + 1]
    BY HeadTail
  <1>2. 1 \in DOMAIN s /\ s[1] = Head(s)
    BY <1>1
  <1>3. \A j, k \in DOMAIN t : j # k => t[j] # t[k]
    BY <1>1
  <1>4. ASSUME NEW d, NEW k \in DOMAIN t, t[k] = d
        PROVE  (\E n \in DOMAIN s : s[n] = d) /\ d # Head(s)
    <2>1. k + 1 \in DOMAIN s /\ s[k + 1] = d /\ k + 1 # 1
      BY <1>1, <1>4
    <2> QED BY <1>2, <2>1
  <1>5. ASSUME NEW d, NEW k \in DOMAIN s, s[k] = d, d # Head(s)
        PROVE  \E n \in DOMAIN t : t[n] = d
    <2>1. k - 1 \in DOMAIN t /\ t[k - 1] = d
      BY <1>1, <1>5
    <2> QED BY <2>1
  <1> QED BY <1>2, <1>3, <1>4, <1>5

LEMMA ConnectOrder ==
  ASSUME TypeOK, OrderInv, NEW c \in Clients, Connect(c) PROVE OrderInv'
  <1>1. /\ backlog \in Seq(Clients) /\ backlog' = Append(backlog, c)
        /\ phase[c] = "idle" /\ phase' = [phase EXCEPT ![c] = "connected"]
        /\ UNCHANGED <<sent, nread, rst, up, down, mpc, mcur, clientList, threadVars>>
    BY DEF Connect, TypeOK, MainOK
  <1>2. ~Queued(c) /\ ~Listed(c) /\ (mpc = "name" => mcur # c)
    BY <1>1 DEF OrderInv, Places
  <1>3. /\ \A d : Queued(d)' <=> Queued(d) \/ d = c
        /\ \A j, k \in DOMAIN backlog' : j # k => backlog'[j] # backlog'[k]
    BY <1>1, <1>2, AppendedOnce DEF Queued, OrderInv, Places
  <1>4. \A d : Listed(d)' <=> Listed(d)
    BY <1>1 DEF Listed
  <1>5. \A d \in Clients : phase[d] # "idle" => phase'[d] # "idle"
    BY <1>1 DEF TypeOK, ClientsOK
  <1>6. phase'[c] # "idle"
    BY <1>1 DEF TypeOK, ClientsOK
  <1>7. mpc = "name" => mcur \in Clients
    BY DEF TypeOK, MainOK
  <1>8. Places'
    BY <1>1, <1>2, <1>3, <1>4, <1>5, <1>6, <1>7 DEF OrderInv, Places
  <1>9. ASSUME NEW d \in Clients PROVE InSequence(d)' /\ Sight(d)'
    BY <1>1 DEF OrderInv, InSequence, NextRecord, Sight
  <1> QED BY <1>8, <1>9 DEF OrderInv

\* A record that is sent is the next one.
LEMMA WriteUTFOrder ==
  ASSUME TypeOK, OrderInv, NEW c \in Clients, WriteUTF(c) PROVE OrderInv'
  <1>1. Places'
    BY DEF WriteUTF, OrderInv, Places, Queued, Listed
  <1>2. ASSUME NEW d \in Clients PROVE InSequence(d)'
    <2>1. CASE d # c
      <3>1. sent'[d] = sent[d] /\ up'[d] = up[d]
        BY <2>1 DEF WriteUTF, TypeOK, ClientsOK
      <3> QED BY <3>1 DEF WriteUTF, OrderInv, InSequence, NextRecord
    <2>2. CASE d = c
      <3>1. sent'[c] = sent[c] + 1 /\ up'[c] = Append(up[c], sent[c]) /\ UNCHANGED threadVars
        BY DEF WriteUTF, TypeOK, ClientsOK
      <3>2. up[c] \in Seq(Nat) /\ sent[c] \in Nat /\ msg[c] \in Nat
        BY DEF TypeOK, ClientsOK, ThreadsOK
      <3>3. NextRecord(c) \in Nat /\ NextRecord(c)' = NextRecord(c)
        BY <3>1, <3>2 DEF NextRecord, NAME
      <3>4. /\ Len(up'[c]) = Len(up[c]) + 1 /\ Len(up[c]) \in Nat
            /\ \A k \in 1..Len(up[c]) : up'[c][k] = up[c][k]
            /\ up'[c][Len(up[c]) + 1] = sent[c]
        BY <3>1, <3>2
      <3>5. InSequence(c)
        BY DEF OrderInv
      <3>6. \A k \in 1..Len(up'[c]) : up'[c][k] = NextRecord(c) + k - 1
        BY <3>3, <3>4, <3>5 DEF InSequence
      <3>7. sent'[c] = NextRecord(c) + Len(up'[c])
        BY <3>1, <3>2, <3>3, <3>4, <3>5 DEF InSequence
      <3>8. InSequence(c)'
        BY <3>1, <3>3, <3>5, <3>6, <3>7 DEF InSequence
      <3> QED BY <2>2, <3>8
    <2> QED BY <2>1, <2>2
  <1>3. ASSUME NEW d \in Clients PROVE Sight(d)'
    BY DEF WriteUTF, OrderInv, Sight
  <1> QED BY <1>1, <1>2, <1>3 DEF OrderInv

LEMMA OtherOrder ==
  ASSUME TypeOK, OrderInv, NEW c \in Clients, Receive(c) \/ Leave(c) \/ NoName PROVE OrderInv'
  <1>1. UNCHANGED <<sent, up, backlog, clientList, threadVars>> /\ (mpc' = "name" => UNCHANGED <<mpc, mcur>>)
    BY DEF Receive, Leave, NoName
  <1>2. \A d \in Clients : phase[d] # "idle" => phase'[d] # "idle"
    BY DEF Receive, Leave, NoName, TypeOK, ClientsOK
  <1>3. Places'
    BY <1>1, <1>2 DEF OrderInv, Places, Queued, Listed, TypeOK, MainOK
  <1>4. ASSUME NEW d \in Clients PROVE InSequence(d)' /\ Sight(d)'
    BY <1>1 DEF OrderInv, InSequence, NextRecord, Sight
  <1> QED BY <1>3, <1>4 DEF OrderInv

LEMMA AcceptOrder == ASSUME TypeOK, OrderInv, Accept PROVE OrderInv'
  <1> PICK c \in Clients : c = Head(backlog)
    BY HeadTail DEF Accept, TypeOK, MainOK
  <1>1. /\ backlog \in Seq(Clients) /\ backlog # <<>> /\ backlog' = Tail(backlog)
        /\ mcur' = c /\ mpc' = "name"
        /\ UNCHANGED <<clientVars, up, down, clientList, threadVars>>
    BY DEF Accept, TypeOK, MainOK
  <1>2. /\ Queued(c)
        /\ \A d : Queued(d)' <=> Queued(d) /\ d # c
        /\ \A j, k \in DOMAIN backlog' : j # k => backlog'[j] # backlog'[k]
    <2>1. \A j, k \in DOMAIN backlog : j # k => backlog[j] # backlog[k]
      BY DEF OrderInv, Places
    <2>2. /\ \E k \in DOMAIN backlog : backlog[k] = Head(backlog)
          /\ \A d : (\E k \in DOMAIN backlog' : backlog'[k] = d)
                      <=> (\E k \in DOMAIN backlog : backlog[k] = d) /\ d # Head(backlog)
          /\ \A j, k \in DOMAIN backlog' : j # k => backlog'[j] # backlog'[k]
      BY <1>1, <2>1, TailOnce
    <2> QED BY <2>2 DEF Queued
  <1>3. \A d : Listed(d)' <=> Listed(d)
    BY <1>1 DEF Listed
  <1>4. Places'
    BY <1>1, <1>2, <1>3 DEF OrderInv, Places
  <1>5. ASSUME NEW d \in Clients PROVE InSequence(d)' /\ Sight(d)'
    BY <1>1 DEF OrderInv, InSequence, NextRecord, Sight
  <1> QED BY <1>4, <1>5 DEF OrderInv

\* The next record after the first one is read.
LEMMA ReadNext ==
  ASSUME TypeOK, NEW c \in Clients, InSequence(c), up[c] # <<>>, up'[c] = Tail(up[c])
  PROVE  /\ Head(up[c]) = NextRecord(c) /\ NextRecord(c) \in Nat
         /\ sent[c] = NextRecord(c) + 1 + Len(up'[c])
         /\ \A k \in 1..Len(up'[c]) : up'[c][k] = NextRecord(c) + 1 + k - 1
  <1>1. up[c] \in Seq(Nat) /\ msg[c] \in Nat
    BY DEF TypeOK, ClientsOK, ThreadsOK
  <1>2. NextRecord(c) \in Nat
    BY <1>1 DEF NextRecord, NAME
  <1>3. /\ Len(up[c]) \in Nat /\ Len(up[c]) >= 1 /\ Head(up[c]) = up[c][1]
        /\ Len(up'[c]) = Len(up[c]) - 1
        /\ \A k \in 1..(Len(up[c]) - 1) : up'[c][k] = up[c][k + 1]
    BY <1>1, HeadTail
  <1>4. Head(up[c]) = NextRecord(c) /\ sent[c] = NextRecord(c) + 1 + Len(up'[c])
    BY <1>2, <1>3 DEF InSequence
  <1>5. ASSUME NEW k \in 1..Len(up'[c]) PROVE up'[c][k] = NextRecord(c) + 1 + k - 1
    <2>1. k + 1 \in 1..Len(up[c]) /\ up'[c][k] = up[c][k + 1]
      BY <1>3
    <2>2. up[c][k + 1] = NextRecord(c) + (k + 1) - 1
      BY <2>1 DEF InSequence
    <2> QED BY <1>2, <2>1, <2>2
  <1> QED BY <1>2, <1>4, <1>5

LEMMA AddClientOrder == ASSUME TypeOK, OrderInv, AddClient PROVE OrderInv'
  <1>1. /\ mpc = "name" /\ mcur \in Clients /\ clientList \in Seq(Clients)
        /\ clientList' = Append(clientList, mcur) /\ mpc' = "accept"
        /\ tpc' = [tpc EXCEPT ![mcur] = "read"]
        /\ seen' = [seen EXCEPT ![mcur] = Len(clientList) + 1]
        /\ up[mcur] # <<>> /\ up' = [up EXCEPT ![mcur] = Tail(@)]
        /\ UNCHANGED <<clientVars, down, backlog, mcur, msg, i>>
    BY DEF AddClient, Started, TypeOK, MainOK
  <1>2. ~Listed(mcur) /\ ~Queued(mcur) /\ phase[mcur] # "idle"
    BY <1>1 DEF OrderInv, Places
  <1>3. /\ \A d : Listed(d)' <=> Listed(d) \/ d = mcur
        /\ \A j, k \in DOMAIN clientList' : j # k => clientList'[j] # clientList'[k]
    <2>1. /\ \A j, k \in DOMAIN clientList : j # k => clientList[j] # clientList[k]
          /\ ~(\E k \in DOMAIN clientList : clientList[k] = mcur)
      BY <1>2 DEF OrderInv, Places, Listed
    <2>2. /\ \A d : (\E k \in DOMAIN clientList' : clientList'[k] = d)
                      <=> (\E k \in DOMAIN clientList : clientList[k] = d) \/ d = mcur
          /\ \A j, k \in DOMAIN clientList' : j # k => clientList'[j] # clientList'[k]
      <3> DEFINE s == clientList
                 t == Append(clientList, mcur)
      <3>1. s \in Seq(Clients) /\ mcur \in Clients /\ t = Append(s, mcur) /\ clientList' = t
        BY <1>1
      <3>2. /\ \A d : (\E k \in DOMAIN t : t[k] = d) <=> (\E k \in DOMAIN s : s[k] = d) \/ d = mcur
            /\ \A j, k \in DOMAIN t : j # k => t[j] # t[k]
        <4> HIDE DEF s, t
        <4> QED BY <2>1, <3>1, AppendedOnce DEF s
      <3> HIDE DEF t
      <3> QED BY <3>1, <3>2
    <2> QED BY <2>2 DEF Listed
  <1>4. \A d : Queued(d)' <=> Queued(d)
    BY <1>1 DEF Queued
  <1>5. \A d \in Clients : tpc'[d] # "none" <=> tpc[d] # "none" \/ d = mcur
    BY <1>1 DEF TypeOK, ThreadsOK
  <1>6. Places'
    BY <1>1, <1>2, <1>3, <1>4, <1>5 DEF OrderInv, Places
  <1>7. ASSUME NEW d \in Clients PROVE InSequence(d)'
    <2>1. CASE d # mcur
      <3>1. up'[d] = up[d] /\ tpc'[d] = tpc[d]
        BY <1>1, <2>1 DEF TypeOK, ClientsOK, ThreadsOK
      <3> QED BY <1>1, <3>1 DEF OrderInv, InSequence, NextRecord
    <2>2. CASE d = mcur
      <3>1. tpc[d] = "none" /\ tpc'[d] = "read" /\ InSequence(d)
        BY <1>1, <1>2, <2>2 DEF OrderInv, Places, TypeOK, ThreadsOK
      <3>2. up'[d] = Tail(up[d])
        BY <1>1, <2>2 DEF TypeOK, ClientsOK
      <3>3. NextRecord(d) = 0 /\ NextRecord(d)' = 1 /\ msg[d] = 0
        BY <1>1, <3>1 DEF NextRecord, InSequence, NAME
      <3>4. /\ sent[d] = NextRecord(d) + 1 + Len(up'[d])
            /\ \A k \in 1..Len(up'[d]) : up'[d][k] = NextRecord(d) + 1 + k - 1
        BY <1>1, <2>2, <3>1, <3>2, ReadNext
      <3>5. NextRecord(d)' = NextRecord(d) + 1
        BY <3>3
      <3> QED BY <1>1, <3>1, <3>3, <3>4, <3>5 DEF InSequence
    <2> QED BY <2>1, <2>2
  <1>8. ASSUME NEW d \in Clients PROVE Sight(d)'
    <2>1. /\ DOMAIN clientList = 1..Len(clientList) /\ Len(clientList) \in Nat
          /\ DOMAIN clientList' = 1..(Len(clientList) + 1)
          /\ \A k \in 1..Len(clientList) : clientList'[k] = clientList[k]
          /\ clientList'[Len(clientList) + 1] = mcur
      BY <1>1, Appended
    <2>2. CASE d # mcur
      <3>1. seen'[d] = seen[d] /\ tpc'[d] = tpc[d] /\ Sight(d)
        BY <1>1, <2>2 DEF TypeOK, ThreadsOK, OrderInv
      <3>2. \A k \in DOMAIN clientList' : clientList'[k] = d => k \in 1..Len(clientList)
        BY <2>1, <2>2
      <3>3. tpc[d] = "write" => i[d] \in 1..Len(clientList)
        BY <2>1 DEF TypeOK, ThreadsOK
      <3> QED BY <1>1, <2>1, <3>1, <3>2, <3>3 DEF Sight
    <2>3. CASE d = mcur
      <3>1. seen'[d] = Len(clientList) + 1 /\ tpc'[d] = "read"
        BY <1>1, <2>3 DEF TypeOK, ThreadsOK
      <3> QED BY <2>1, <3>1 DEF Sight
    <2> QED BY <2>2, <2>3
  <1> QED BY <1>6, <1>7, <1>8 DEF OrderInv

\* A thread stays a thread, and keeps who is where.
LEMMA ThreadPlaces ==
  ASSUME TypeOK, OrderInv, NEW c \in Clients, Thread(c)
  PROVE  /\ Places' /\ tpc[c] # "none" /\ tpc'[c] # "none"
         /\ UNCHANGED <<phase, sent, nread, mainVars>>
         /\ \A d \in Clients \ {c} : /\ tpc'[d] = tpc[d] /\ msg'[d] = msg[d] /\ i'[d] = i[d]
                                     /\ seen'[d] = seen[d] /\ up'[d] = up[d]
                                     /\ InSequence(d)' /\ Sight(d)'
  <1>1. UNCHANGED <<phase, sent, nread, mainVars>>
    BY DEF Thread, ReadUTF, ReadFails, LoopEnds, Get, GetFails, Write
  <1>2. tpc[c] # "none" /\ tpc'[c] # "none"
    BY DEF Thread, ReadUTF, ReadFails, LoopEnds, Get, GetFails, Write, AfterFailure,
           TypeOK, ThreadsOK
  <1>3. \A d \in Clients \ {c} : /\ tpc'[d] = tpc[d] /\ msg'[d] = msg[d] /\ i'[d] = i[d]
                                 /\ seen'[d] = seen[d] /\ up'[d] = up[d]
    BY DEF Thread, ReadUTF, ReadFails, LoopEnds, Get, GetFails, Write,
           TypeOK, ThreadsOK, ClientsOK
  <1>4. Places'
    BY <1>1, <1>2, <1>3 DEF OrderInv, Places, Queued, Listed
  <1>5. ASSUME NEW d \in Clients \ {c} PROVE InSequence(d)' /\ Sight(d)'
    BY <1>1, <1>3 DEF OrderInv, InSequence, NextRecord, Sight
  <1> QED BY <1>1, <1>2, <1>3, <1>4, <1>5

LEMMA ThreadOrder == ASSUME TypeOK, OrderInv, NEW c \in Clients, Thread(c) PROVE OrderInv'
  <1>1. InSequence(c) /\ Sight(c)
    BY DEF OrderInv
  <1>2. InSequence(c)'
    <2>1. CASE ReadUTF(c)
      <3>1. /\ tpc[c] = "read" /\ tpc'[c] = "next" /\ up[c] # <<>> /\ up'[c] = Tail(up[c])
            /\ msg'[c] = Head(up[c]) /\ UNCHANGED sent
        BY <2>1 DEF ReadUTF, TypeOK, ClientsOK, ThreadsOK
      <3>2. msg[c] \in Nat /\ NextRecord(c) = msg[c] + 1
        BY <3>1 DEF NextRecord, TypeOK, ThreadsOK
      <3>3. msg'[c] = msg[c] + 1 /\ NextRecord(c)' = msg[c] + 2
        BY <1>1, <3>1, <3>2, ReadNext DEF NextRecord
      <3>4. /\ sent[c] = NextRecord(c) + 1 + Len(up'[c])
            /\ \A k \in 1..Len(up'[c]) : up'[c][k] = NextRecord(c) + 1 + k - 1
        BY <1>1, <3>1, ReadNext
      <3>5. NextRecord(c)' = NextRecord(c) + 1
        BY <3>2, <3>3
      <3> QED BY <3>1, <3>2, <3>3, <3>4, <3>5 DEF InSequence
    <2>2. CASE ~ReadUTF(c)
      <3>1. UNCHANGED <<sent, up, msg>>
        BY <2>2 DEF Thread, ReadFails, LoopEnds, Get, GetFails, Write
      <3>2. tpc'[c] \in {"next", "write"} => tpc[c] \in {"next", "write"}
        BY <2>2 DEF Thread, ReadFails, LoopEnds, Get, GetFails, Write, AfterFailure,
                    TypeOK, ThreadsOK
      <3> QED BY <1>1, <3>1, <3>2, ThreadPlaces DEF InSequence, NextRecord
    <2> QED BY <2>1, <2>2
  <1>3. Sight(c)'
    <2>1. CASE Get(c)
      <3>1. i[c] \in Nat /\ seen[c] \in Nat /\ UNCHANGED clientList
        BY <2>1 DEF Get, TypeOK, ThreadsOK
      <3>2. seen'[c] >= seen[c] /\ seen'[c] \in Nat
        BY <2>1, <3>1 DEF Get, InSight, TypeOK, ThreadsOK
      <3>3. tpc'[c] = "write" => i'[c] = i[c] /\ Port[clientList[i[c]]] # Port[c]
        BY <2>1 DEF Get, Skipped, TypeOK, ThreadsOK
      <3>4. \A k \in DOMAIN clientList : k \in Nat
        BY DEF TypeOK, MainOK
      <3> QED BY <1>1, <3>1, <3>2, <3>3, <3>4 DEF Sight
    <2>2. CASE ~Get(c)
      <3>1. UNCHANGED <<clientList, seen>> /\ tpc'[c] # "write"
        BY <2>2 DEF Thread, ReadUTF, ReadFails, LoopEnds, GetFails, Write, AfterFailure,
                    TypeOK, ThreadsOK
      <3> QED BY <1>1, <3>1 DEF Sight
    <2> QED BY <2>1, <2>2
  <1>4. \A d \in Clients : InSequence(d)' /\ Sight(d)'
    BY <1>2, <1>3, ThreadPlaces
  <1> QED BY <1>4, ThreadPlaces DEF OrderInv

LEMMA OrderStep == TypeOK /\ OrderInv /\ [Next]_vars => OrderInv'
  <1> SUFFICES ASSUME TypeOK, OrderInv, [Next]_vars PROVE OrderInv'
    OBVIOUS
  <1>1. ASSUME NEW c \in Clients,
               Connect(c) \/ SendName(c) \/ SendLine(c) \/ Receive(c) \/ Leave(c)
        PROVE  OrderInv'
    BY <1>1, ConnectOrder, WriteUTFOrder, OtherOrder DEF SendName, SendLine
  <1>2. ASSUME NEW c \in Clients, Thread(c) PROVE OrderInv'
    BY <1>2, ThreadOrder
  <1>3. CASE Main
    <2>1. NoName => mcur \in Clients
      BY DEF NoName, TypeOK, MainOK
    <2> QED BY <1>3, <2>1, AcceptOrder, AddClientOrder, OtherOrder DEF Main
  <1>4. CASE UNCHANGED vars
    BY <1>4 DEF vars, OrderInv, Places, Queued, Listed, InSequence, NextRecord, Sight
  <1> QED BY <1>1, <1>2, <1>3, <1>4 DEF Next

LEMMA InitOrder == Init => OrderInv
  BY DEF Init, OrderInv, Places, Queued, Listed, InSequence, NextRecord, Sight, NAME
-----------------------------------------------------------------------------
(* Who has heard whom.                                                     *)

\* Line m of c is sent to d.
Sends(c, d, m) == down' = [down EXCEPT ![d] = Append(@, [from |-> c, n |-> m])]

\* One more line that was sent.
LEMMA HeardAppend ==
  ASSUME TypeOK, NEW d \in Clients, NEW c \in Clients, NEW m \in Nat, Sends(c, d, m)
  PROVE  \A r, s \in Clients : \A n \in Nat :
           Heard(r, s, n)' <=> Heard(r, s, n) \/ (r = d /\ s = c /\ n = m)
  <1> USE DEF Sends
  <1>1. ASSUME NEW r \in Clients, r # d PROVE down'[r] = down[r]
    BY <1>1 DEF TypeOK, ClientsOK
  <1>2. down[d] \in Seq([from : Clients, n : Nat]) /\ down'[d] = Append(down[d], [from |-> c, n |-> m])
    BY DEF TypeOK, ClientsOK
  <1>3. [from |-> c, n |-> m] \in [from : Clients, n : Nat]
    OBVIOUS
  <1>4. /\ DOMAIN down[d] = 1..Len(down[d]) /\ DOMAIN down'[d] = 1..(Len(down[d]) + 1)
        /\ \A k \in 1..Len(down[d]) : down'[d][k] = down[d][k]
        /\ down'[d][Len(down[d]) + 1] = [from |-> c, n |-> m] /\ Len(down[d]) \in Nat
    BY <1>2, <1>3, Appended
  <1>5. DOMAIN down'[d] = DOMAIN down[d] \cup {Len(down[d]) + 1}
    BY <1>4
  <1>6. ASSUME NEW s \in Clients, NEW n \in Nat
        PROVE  Heard(d, s, n)' <=> Heard(d, s, n) \/ (s = c /\ n = m)
    BY <1>4, <1>5 DEF Heard
  <1>7. ASSUME NEW r \in Clients, NEW s \in Clients, NEW n \in Nat, r # d
        PROVE  Heard(r, s, n)' <=> Heard(r, s, n)
    BY <1>1, <1>7 DEF Heard
  <1> QED BY <1>6, <1>7

\* Steps that touch neither the list, nor a thread, nor what was sent.
LEMMA QuietHear ==
  ASSUME HearInv, OrderInv, UNCHANGED <<down, clientList, threadVars>>,
         \A c \in Clients : phase'[c] # "left" => phase[c] # "left", TypeOK
  PROVE  HearInv'
  <1>1. \A r, s, n : Heard(r, s, n)' <=> Heard(r, s, n)
    BY DEF Heard
  <1>2. \A s, j : LastThrough(s, j)' = LastThrough(s, j)
    BY DEF LastThrough
  <1>3. \A j \in DOMAIN clientList : clientList[j] \in Clients
    BY DEF TypeOK, MainOK
  <1>4. HeardInList'
    BY <1>1 DEF HearInv, HeardInList, Listed
  <1>5. UpToDate'
    BY <1>1, <1>2, <1>3 DEF HearInv, UpToDate
  <1>6. EarlierHeard'
    BY <1>1, <1>2, <1>3 DEF HearInv, EarlierHeard
  <1> QED BY <1>4, <1>5, <1>6 DEF HearInv

\* A newcomer has neither heard nor been heard.
LEMMA AddClientHear == ASSUME TypeOK, OrderInv, HearInv, AddClient PROVE HearInv'
  <1>1. /\ mpc = "name" /\ mcur \in Clients /\ clientList \in Seq(Clients)
        /\ clientList' = Append(clientList, mcur)
        /\ tpc' = [tpc EXCEPT ![mcur] = "read"]
        /\ seen' = [seen EXCEPT ![mcur] = Len(clientList) + 1]
        /\ UNCHANGED <<clientVars, down, backlog, mcur, msg, i>>
    BY DEF AddClient, Started, TypeOK, MainOK
  <1>2. /\ DOMAIN clientList = 1..Len(clientList) /\ Len(clientList) \in Nat
        /\ DOMAIN clientList' = 1..(Len(clientList) + 1)
        /\ \A k \in 1..Len(clientList) : clientList'[k] = clientList[k]
        /\ clientList'[Len(clientList) + 1] = mcur
        /\ \A k \in 1..Len(clientList) : clientList[k] \in Clients
    BY <1>1, Appended
  <1>3. ~Listed(mcur) /\ tpc[mcur] = "none" /\ msg[mcur] = 0
    BY <1>1 DEF OrderInv, Places, InSequence
  <1>4. \A r, s, n : Heard(r, s, n)' <=> Heard(r, s, n)
    BY <1>1 DEF Heard
  <1>5. \A r, s \in Clients : \A n \in Nat : Heard(r, s, n) =>
          Listed(r) /\ r # mcur /\ s # mcur /\ tpc[s] # "none" /\ Port[r] # Port[s]
    BY <1>3 DEF HearInv, HeardInList
  <1>6. \A s \in Clients \ {mcur} : tpc'[s] = tpc[s] /\ seen'[s] = seen[s]
    BY <1>1 DEF TypeOK, ThreadsOK
  <1>7. \A s \in Clients \ {mcur} : \A j : LastThrough(s, j)' = LastThrough(s, j)
    BY <1>1, <1>6 DEF LastThrough
  <1>8. \A r \in Clients : Listed(r) => Listed(r)'
    BY <1>2 DEF Listed
  <1>9. HeardInList'
    BY <1>4, <1>5, <1>6, <1>8 DEF HeardInList
  <1>10. UpToDate'
    <2> SUFFICES ASSUME NEW s \in Clients, NEW j \in DOMAIN clientList', NEW n \in Nat,
                        Heard(clientList[j], s, n)'
                 PROVE  /\ n <= LastThrough(s, j)'
                        /\ phase'[clientList'[j]] # "left" =>
                             /\ seen'[s] >= j
                             /\ Heard(clientList[j], s, LastThrough(s, j))'
      BY DEF UpToDate
    <2>1. clientList'[j] \in Clients /\ Heard(clientList'[j], s, n)
      <3>1. j \in 1..(Len(clientList) + 1)
        BY <1>2
      <3>2. clientList'[j] \in Clients
        BY <1>1, <1>2, <3>1
      <3> QED BY <1>1, <3>2 DEF Heard
    <2>2. clientList'[j] # mcur /\ s # mcur
      BY <1>5, <2>1
    <2>3. j \in DOMAIN clientList /\ clientList'[j] = clientList[j]
      BY <1>2, <2>2
    <2>4. /\ n <= LastThrough(s, j)
          /\ phase[clientList[j]] # "left" =>
               seen[s] >= j /\ Heard(clientList[j], s, LastThrough(s, j))
      BY <2>1, <2>3 DEF HearInv, UpToDate
    <2>5. LastThrough(s, j)' = LastThrough(s, j) /\ seen'[s] = seen[s]
      BY <1>6, <1>7, <2>2
    <2> QED BY <1>1, <2>3, <2>4, <2>5 DEF Heard
  <1>11. EarlierHeard'
    <2> SUFFICES ASSUME NEW j \in DOMAIN clientList', NEW k \in DOMAIN clientList', j < k,
                        Port[clientList'[j]] # Port[clientList'[k]],
                        phase'[clientList'[j]] # "left",
                        NEW n \in 1..LastThrough(clientList[k], j)'
                 PROVE  Heard(clientList[j], clientList[k], n)'
      BY DEF EarlierHeard
    <2>1. CASE k = Len(clientList) + 1
      <3>1. clientList'[k] = mcur /\ tpc'[mcur] = "read" /\ msg'[mcur] = 0
        BY <1>1, <1>2, <1>3, <2>1 DEF TypeOK, ThreadsOK
      <3>2. LastThrough(clientList[k], j)' = 0
        BY <3>1 DEF LastThrough
      <3> QED BY <3>2
    <2>2. CASE k # Len(clientList) + 1
      <3>1. /\ k \in DOMAIN clientList /\ j \in DOMAIN clientList
            /\ clientList'[k] = clientList[k] /\ clientList'[j] = clientList[j]
        BY <1>2, <2>2
      <3>2. clientList[k] \in Clients \ {mcur}
        BY <1>2, <1>3, <3>1 DEF Listed
      <3>3. LastThrough(clientList[k], j)' = LastThrough(clientList[k], j)
        BY <1>1, <3>1, <3>2, <1>6 DEF LastThrough
      <3>4. Heard(clientList[j], clientList[k], n)
        BY <1>1, <3>1, <3>3 DEF HearInv, EarlierHeard
      <3> QED BY <1>1, <3>1, <3>4 DEF Heard
    <2> QED BY <2>1, <2>2
  <1> QED BY <1>9, <1>10, <1>11 DEF HearInv

\* Steps of a thread that sends nothing: it may lose sight of nobody, and what
\* it has brought to those in its sight stays the same.
LEMMA SilentHear ==
  ASSUME TypeOK, TypeOK', OrderInv, HearInv, NEW c \in Clients,
         UNCHANGED <<phase, down, clientList>>, tpc[c] # "none",
         tpc'[c] # "none", seen'[c] >= seen[c],
         \A d \in Clients \ {c} : tpc'[d] = tpc[d] /\ msg'[d] = msg[d] /\ i'[d] = i[d]
                                  /\ seen'[d] = seen[d],
         \A j \in DOMAIN clientList :
           \/ LastThrough(c, j)' = LastThrough(c, j)
           \/ Port[clientList[j]] = Port[c]
           \/ seen[c] < j /\ LastThrough(c, j)' >= LastThrough(c, j)
  PROVE  HearInv'
  <1>1. \A r, s, n : Heard(r, s, n)' <=> Heard(r, s, n)
    BY DEF Heard
  <1>2. \A j \in DOMAIN clientList : clientList[j] \in Clients /\ j \in Nat
    BY DEF TypeOK, MainOK
  <1>3. \A s \in Clients \ {c} : \A j : LastThrough(s, j)' = LastThrough(s, j)
    BY DEF LastThrough
  <1>4. HeardInList'
    BY <1>1 DEF HearInv, HeardInList, Listed
  <1>5. UpToDate'
    <2> SUFFICES ASSUME NEW s \in Clients, NEW j \in DOMAIN clientList, NEW n \in Nat,
                        Heard(clientList[j], s, n)
                 PROVE  /\ n <= LastThrough(s, j)'
                        /\ phase[clientList[j]] # "left" =>
                             /\ seen'[s] >= j
                             /\ Heard(clientList[j], s, LastThrough(s, j)')
      BY <1>1 DEF UpToDate, Heard
    <2>1. /\ n <= LastThrough(s, j)
          /\ phase[clientList[j]] # "left" =>
               seen[s] >= j /\ Heard(clientList[j], s, LastThrough(s, j))
      BY DEF HearInv, UpToDate
    <2>2. CASE s # c
      BY <1>3, <2>1, <2>2
    <2>3. CASE s = c
      <3>1. Port[clientList[j]] # Port[c]
        BY <1>2, <2>3 DEF HearInv, HeardInList
      <3>2. msg[c] \in Nat /\ msg'[c] \in Nat /\ seen[c] \in Nat /\ seen'[c] \in Nat
            /\ i[c] \in Nat /\ i'[c] \in Nat /\ LastThrough(c, j) \in Int /\ LastThrough(c, j)' \in Int
        <4>1. msg[c] \in Nat /\ msg'[c] \in Nat /\ seen[c] \in Nat /\ seen'[c] \in Nat
              /\ i[c] \in Nat /\ i'[c] \in Nat
          BY DEF TypeOK, ThreadsOK
        <4> QED BY <4>1 DEF LastThrough
      <3>3. CASE LastThrough(c, j)' = LastThrough(c, j)
        BY <1>2, <2>1, <2>3, <3>2, <3>3
      <3>4. CASE seen[c] < j /\ LastThrough(c, j)' >= LastThrough(c, j)
        BY <1>2, <2>1, <2>3, <3>2, <3>4
      <3> QED BY <3>1, <3>3, <3>4
    <2> QED BY <2>2, <2>3
  <1>6. EarlierHeard'
    <2> SUFFICES ASSUME NEW j \in DOMAIN clientList, NEW k \in DOMAIN clientList, j < k,
                        Port[clientList[j]] # Port[clientList[k]],
                        phase[clientList[j]] # "left",
                        NEW n \in 1..LastThrough(clientList[k], j)'
                 PROVE  Heard(clientList[j], clientList[k], n)
      BY <1>1 DEF EarlierHeard, Heard
    <2>1. LastThrough(clientList[k], j)' = LastThrough(clientList[k], j)
      <3>1. CASE clientList[k] # c
        BY <1>2, <1>3, <3>1
      <3>2. CASE clientList[k] = c
        <4>1. seen[c] >= k /\ seen[c] \in Nat
          BY <3>2 DEF OrderInv, Sight, TypeOK, ThreadsOK
        <4> QED BY <1>2, <3>2, <4>1
      <3> QED BY <3>1, <3>2
    <2> QED BY <2>1 DEF HearInv, EarlierHeard
  <1> QED BY <1>4, <1>5, <1>6 DEF HearInv
\* Reading a line, finding the end of the list, getting from it.
LEMMA SilentThreadHear ==
  ASSUME TypeOK, TypeOK', OrderInv, HearInv, NEW c \in Clients,
         ReadUTF(c) \/ ReadFails(c) \/ LoopEnds(c) \/ Get(c) \/ GetFails(c)
  PROVE  HearInv'
  <1>1. /\ UNCHANGED <<phase, down, clientList>> /\ tpc[c] # "none" /\ tpc'[c] # "none"
        /\ \A d \in Clients \ {c} : tpc'[d] = tpc[d] /\ msg'[d] = msg[d] /\ i'[d] = i[d]
                                    /\ seen'[d] = seen[d]
    <2>1. UNCHANGED down
      BY DEF ReadUTF, ReadFails, LoopEnds, Get, GetFails
    <2> QED BY <2>1, ThreadPlaces DEF Thread
  <1>2. msg[c] \in Nat /\ seen[c] \in Nat /\ i[c] \in Nat
    BY DEF TypeOK, ThreadsOK
  <1>3. \A j \in DOMAIN clientList : j \in Nat /\ j >= 1
    BY DEF TypeOK, MainOK
  <1>4. seen'[c] >= seen[c]
    BY <1>2 DEF ReadUTF, ReadFails, LoopEnds, Get, GetFails, InSight, TypeOK, ThreadsOK
  <1>5. ASSUME NEW j \in DOMAIN clientList
        PROVE  \/ LastThrough(c, j)' = LastThrough(c, j)
               \/ Port[clientList[j]] = Port[c]
               \/ seen[c] < j /\ LastThrough(c, j)' >= LastThrough(c, j)
    <2>1. CASE ReadUTF(c)
      <3>1. /\ tpc[c] = "read" /\ tpc'[c] = "next" /\ i'[c] = 1 /\ msg'[c] = Head(up[c])
            /\ up[c] # <<>> /\ up'[c] = Tail(up[c])
        BY <2>1 DEF ReadUTF, TypeOK, ThreadsOK, ClientsOK
      <3>2. msg'[c] = msg[c] + 1
        BY <3>1, ReadNext DEF OrderInv, NextRecord
      <3> QED BY <1>2, <1>3, <3>1, <3>2 DEF LastThrough
    <2>2. CASE ReadFails(c)
      BY <2>2 DEF ReadFails, LastThrough, TypeOK, ThreadsOK
    <2>5. CASE GetFails(c)
      <3>1. tpc[c] = "next" /\ tpc'[c] = "thrown" /\ UNCHANGED <<msg, i>>
        BY <2>5 DEF GetFails, TypeOK, ThreadsOK
      <3> QED BY <3>1 DEF LastThrough
    <2>3. CASE LoopEnds(c)
      <3>1. /\ tpc[c] = "next" /\ tpc'[c] = "read" /\ i[c] > seen[c]
            /\ UNCHANGED <<msg, i>>
        BY <2>3 DEF LoopEnds, MayStop, TypeOK, ThreadsOK
      <3>2. LastThrough(c, j)' = msg[c]
        BY <3>1 DEF LastThrough
      <3>3. LastThrough(c, j) = IF i[c] <= j THEN msg[c] - 1 ELSE msg[c]
        BY <3>1 DEF LastThrough
      <3> QED BY <1>2, <1>3, <3>1, <3>2, <3>3
    <2>4. CASE Get(c)
      <3>1. CASE Skipped(c, clientList[i[c]])
        <4>1. /\ tpc[c] = "next" /\ tpc'[c] = "next" /\ i'[c] = i[c] + 1 /\ UNCHANGED msg
          BY <2>4, <3>1 DEF Get, TypeOK, ThreadsOK
        <4>2. Port[clientList[i[c]]] = Port[c]
          BY <3>1 DEF Skipped
        <4>3. j # i[c] => (i[c] <= j <=> i[c] + 1 <= j)
          BY <1>2, <1>3
        <4> QED BY <4>1, <4>2, <4>3 DEF LastThrough
      <3>2. CASE ~Skipped(c, clientList[i[c]])
        <4>1. tpc[c] = "next" /\ tpc'[c] = "write" /\ UNCHANGED <<msg, i>>
          BY <2>4, <3>2 DEF Get, TypeOK, ThreadsOK
        <4> QED BY <4>1 DEF LastThrough
      <3> QED BY <3>1, <3>2
    <2> QED BY <2>1, <2>2, <2>3, <2>4, <2>5
  <1> QED BY <1>1, <1>4, <1>5, SilentHear

\* The state of a thread that is about to write.
LEMMA BeforeWrite ==
  ASSUME TypeOK, OrderInv, NEW c \in Clients, tpc[c] = "write"
  PROVE  /\ i[c] \in DOMAIN clientList /\ i[c] <= seen[c] /\ clientList[i[c]] \in Clients
         /\ Port[clientList[i[c]]] # Port[c]
         /\ msg[c] \in Nat /\ msg[c] > 0 /\ i[c] \in Nat /\ seen[c] \in Nat
         /\ LastThrough(c, i[c]) = msg[c] - 1
  <1>1. clientList \in Seq(Clients) /\ DOMAIN clientList = 1..Len(clientList)
        /\ Len(clientList) \in Nat
    BY DEF TypeOK, MainOK
  <1>2. /\ i[c] \in Nat \ {0} /\ seen[c] \in Nat /\ msg[c] \in Nat
        /\ i[c] <= seen[c] /\ seen[c] <= Len(clientList)
    BY DEF TypeOK, ThreadsOK
  <1>3. i[c] \in 1..Len(clientList)
    BY <1>1, <1>2
  <1>4. msg[c] > 0 /\ Port[clientList[i[c]]] # Port[c]
    BY DEF OrderInv, InSequence, Sight
  <1>5. LastThrough(c, i[c]) = msg[c] - 1
    BY <1>2 DEF LastThrough
  <1> QED BY <1>1, <1>2, <1>3, <1>4, <1>5

\* Passing on a line brings one client up to date.
LEMMA WriteHear ==
  ASSUME TypeOK, OrderInv, HearInv, NEW c \in Clients, Write(c) PROVE HearInv'
  <1> PICK d \in Clients : d = clientList[i[c]]
    BY BeforeWrite DEF Write
  <1> PICK m \in Nat : m = msg[c]
    BY BeforeWrite DEF Write
  <1> PICK p \in DOMAIN clientList : p = i[c]
    BY BeforeWrite DEF Write
  <1>1. /\ p <= seen[c] /\ Port[d] # Port[c] /\ d = clientList[p]
        /\ m > 0 /\ p \in Nat /\ seen[c] \in Nat
        /\ LastThrough(c, p) = m - 1
    BY BeforeWrite DEF Write
  <1>2. /\ tpc[c] = "write" /\ tpc'[c] = "next" /\ i'[c] = p + 1
        /\ UNCHANGED <<phase, msg, seen, clientList>>
        /\ \A s \in Clients \ {c} : tpc'[s] = tpc[s] /\ i'[s] = i[s]
    BY DEF Write, AfterFailure, TypeOK, ThreadsOK
  <1>3. \A j \in DOMAIN clientList : clientList[j] \in Clients /\ j \in Nat
    BY DEF TypeOK, MainOK
  <1>4. \A s \in Clients \ {c} : \A j : LastThrough(s, j)' = LastThrough(s, j)
    BY <1>2 DEF LastThrough
  <1>5. \A j \in DOMAIN clientList : j # p => LastThrough(c, j)' = LastThrough(c, j)
    <2> SUFFICES ASSUME NEW j \in DOMAIN clientList, j # p
                 PROVE  LastThrough(c, j)' = LastThrough(c, j)
      OBVIOUS
    <2>1. p <= j <=> p + 1 <= j
      BY <1>1, <1>3
    <2> QED BY <1>2, <2>1 DEF LastThrough
  <1>6. LastThrough(c, p)' = m
    BY <1>1, <1>2 DEF LastThrough
  <1>7. \A r, s \in Clients : \A n \in Nat :
          Heard(r, s, n)' <=> Heard(r, s, n) \/ (phase[d] # "left" /\ r = d /\ s = c /\ n = m)
    <2>1. CASE phase[d] = "left"
      BY <2>1 DEF Write, Heard
    <2>2. CASE phase[d] # "left"
      <3>1. Sends(c, d, m)
        BY <2>2 DEF Write, Sends
      <3>2. \A r, s \in Clients : \A n \in Nat :
              Heard(r, s, n)' <=> Heard(r, s, n) \/ (r = d /\ s = c /\ n = m)
        BY <3>1, HeardAppend
      <3> QED BY <2>2, <3>2
    <2> QED BY <2>1, <2>2
  <1>8. \A j \in DOMAIN clientList : clientList[j] = d => j = p
    BY <1>1 DEF OrderInv, Places
  <1>9. HeardInList'
    <2>1. Listed(d) /\ \A r : Listed(r)' <=> Listed(r)
      BY <1>1, <1>2 DEF Listed
    <2> QED BY <1>1, <1>2, <1>7, <2>1 DEF HearInv, HeardInList
  <1>10. UpToDate'
    <2> SUFFICES ASSUME NEW s \in Clients, NEW j \in DOMAIN clientList, NEW n \in Nat,
                        Heard(clientList[j], s, n)'
                 PROVE  /\ n <= LastThrough(s, j)'
                        /\ phase[clientList[j]] # "left" =>
                             seen[s] >= j /\ Heard(clientList[j], s, LastThrough(s, j))'
      BY <1>2 DEF UpToDate
    <2> PICK r \in Clients : r = clientList[j]
      BY <1>3
    <2>1. Heard(r, s, n)'
      BY <1>2 DEF Heard
    <2> SUFFICES /\ n <= LastThrough(s, j)'
                 /\ phase[r] # "left" => seen[s] >= j /\ Heard(r, s, LastThrough(s, j))'
      BY <1>2 DEF Heard
    <2>2. Heard(r, s, n) =>
            /\ n <= LastThrough(s, j)
            /\ phase[r] # "left" => seen[s] >= j /\ Heard(r, s, LastThrough(s, j))
      BY DEF HearInv, UpToDate
    <2>3. CASE s = c /\ j = p
      <3>1. r = d
        BY <1>1, <2>3
      <3>2. n <= m
        BY <1>1, <1>7, <2>1, <2>2, <2>3
      <3>3. phase[d] # "left" => Heard(d, c, m)'
        BY <1>7
      <3>4. phase[d] # "left" => Heard(r, s, LastThrough(s, j))'
        BY <1>6, <2>3, <3>1, <3>3 DEF Heard
      <3> QED BY <1>1, <1>6, <2>3, <3>1, <3>2, <3>4
    <2>4. CASE ~(s = c /\ j = p)
      <3>1. LastThrough(s, j)' = LastThrough(s, j)
        BY <1>4, <1>5, <2>4
      <3>2. Heard(r, s, n)
        BY <1>7, <1>8, <2>1, <2>4
      <3>3. \A x : Heard(r, s, x) => Heard(r, s, x)'
        <4>1. CASE phase[d] = "left"
          BY <4>1 DEF Write, Heard
        <4>2. CASE phase[d] # "left"
          <5>1. down' = [down EXCEPT ![d] = Append(@, [from |-> c, n |-> m])]
            BY <4>2 DEF Write
          <5>2. \A k \in DOMAIN down[r] : k \in DOMAIN down'[r] /\ down'[r][k] = down[r][k]
            <6>1. down[r] \in Seq([from : Clients, n : Nat])
              BY DEF TypeOK, ClientsOK
            <6>2. down'[r] = down[r] \/ down'[r] = Append(down[r], [from |-> c, n |-> m])
              BY <5>1 DEF TypeOK, ClientsOK
            <6> QED BY <6>1, <6>2
          <5> QED BY <5>2 DEF Heard
        <4> QED BY <4>1, <4>2
      <3>4. phase[r] # "left" => Heard(r, s, LastThrough(s, j))'
        BY <2>2, <3>1, <3>2, <3>3 DEF Heard
      <3> QED BY <2>2, <3>1, <3>2, <3>4
    <2> QED BY <2>3, <2>4
  <1>11. EarlierHeard'
    <2> SUFFICES ASSUME NEW j \in DOMAIN clientList, NEW k \in DOMAIN clientList, j < k,
                        Port[clientList[j]] # Port[clientList[k]],
                        phase[clientList[j]] # "left",
                        NEW n \in 1..LastThrough(clientList[k], j)'
                 PROVE  Heard(clientList[j], clientList[k], n)'
      BY <1>2 DEF EarlierHeard
    <2> PICK r \in Clients : r = clientList[j]
      BY <1>3
    <2> PICK s \in Clients : s = clientList[k]
      BY <1>3
    <2>1. LastThrough(s, j)' = LastThrough(clientList[k], j)'
      BY <1>2 DEF LastThrough
    <2>2. LastThrough(s, j) \in Int /\ LastThrough(s, j)' \in Int /\ n \in Nat
      <3>1. msg[s] \in Nat /\ msg'[s] \in Nat
        BY <1>2 DEF TypeOK, ThreadsOK
      <3>2. LastThrough(s, j) \in Int /\ LastThrough(s, j)' \in Int
        BY <3>1 DEF LastThrough
      <3> QED BY <2>1, <3>2
    <2>3. n \in 1..LastThrough(s, j) => Heard(r, s, n)
      BY DEF HearInv, EarlierHeard
    <2> SUFFICES Heard(r, s, n)'
      BY <1>2 DEF Heard
    <2>4. CASE s = c /\ j = p
      <3>1. r = d /\ LastThrough(s, j)' = m /\ LastThrough(s, j) = m - 1
        BY <1>1, <1>6, <2>4
      <3> QED BY <1>7, <2>1, <2>2, <2>3, <2>4, <3>1
    <2>5. CASE ~(s = c /\ j = p)
      <3>1. LastThrough(s, j)' = LastThrough(s, j)
        BY <1>4, <1>5, <2>5
      <3> QED BY <1>7, <2>1, <2>2, <2>3, <3>1
    <2> QED BY <2>4, <2>5
  <1> QED BY <1>9, <1>10, <1>11 DEF HearInv

LEMMA HearStep == TypeOK /\ OrderInv /\ HearInv /\ [Next]_vars => HearInv'
  <1> SUFFICES ASSUME TypeOK, OrderInv, HearInv, [Next]_vars PROVE HearInv'
    OBVIOUS
  <1>1. ASSUME NEW c \in Clients,
               Connect(c) \/ SendName(c) \/ SendLine(c) \/ Receive(c) \/ Leave(c)
        PROVE  HearInv'
    <2>1. UNCHANGED <<down, clientList, threadVars>>
      BY <1>1 DEF Connect, SendName, SendLine, WriteUTF, Receive, Leave
    <2>2. \A d \in Clients : phase'[d] # "left" => phase[d] # "left"
      BY <1>1 DEF Connect, SendName, SendLine, WriteUTF, Receive, Leave, TypeOK, ClientsOK
    <2> QED BY <2>1, <2>2, QuietHear
  <1>2. ASSUME NEW c \in Clients, Thread(c) PROVE HearInv'
    BY <1>2, TypeStep, SilentThreadHear, WriteHear DEF Thread
  <1>3. CASE Main
    <2>1. CASE Accept \/ NoName
      BY <2>1, QuietHear DEF Accept, NoName
    <2> QED BY <1>3, <2>1, AddClientHear DEF Main
  <1>4. CASE UNCHANGED vars
    BY <1>4, QuietHear DEF vars
  <1> QED BY <1>1, <1>2, <1>3, <1>4 DEF Next

LEMMA InitHear == Init => HearInv
  <1> SUFFICES ASSUME Init PROVE HearInv
    OBVIOUS
  <1>1. \A r, s \in Clients, n \in Nat : ~Heard(r, s, n)
    BY DEF Init, Heard
  <1>2. DOMAIN clientList = {}
    BY DEF Init
  <1> QED BY <1>1, <1>2 DEF HearInv, HeardInList, UpToDate, EarlierHeard
-----------------------------------------------------------------------------
(* What the chat does.                                                     *)

\* A thread that is ended early had a later place of the list in view.
LEMMA CutOffStep ==
  ASSUME TypeOK, OrderInv, OrderInv', CutOffByNewcomer, [Next]_vars PROVE CutOffByNewcomer'
  <1> SUFFICES ASSUME NEW c \in Clients, tpc'[c] \in Over, phase'[c] # "left"
               PROVE  clientList'[Len(clientList')] # c
    BY DEF CutOffByNewcomer
  <1> USE DEF CutOffByNewcomer
  <1>1. clientList \in Seq(Clients) /\ DOMAIN clientList = 1..Len(clientList)
        /\ Len(clientList) \in Nat
    BY DEF TypeOK, MainOK
  <1>2. CASE GetFails(c)
    <2>1. UNCHANGED clientList /\ i[c] \in 1..Len(clientList)
      BY <1>1, <1>2 DEF GetFails
    <2>2. seen[c] \in Nat /\ i[c] \in Nat /\ Len(clientList) \in DOMAIN clientList
      BY <1>1, <2>1 DEF TypeOK, ThreadsOK
    <2>3. CASE i[c] > seen[c]
      <3>1. clientList[Len(clientList)] = c => seen[c] >= Len(clientList)
        BY <2>2 DEF OrderInv, Sight
      <3> QED BY <1>1, <2>1, <2>2, <2>3, <3>1
    <2>4. CASE Moved(c)
      <3>1. PICK k \in DOMAIN clientList, n \in Capacities :
              clientList[k] = c /\ k <= n /\ n < Len(clientList)
        BY <2>4 DEF Moved
      <3>2. n \in Nat
        BY JavaAssumption
      <3>3. k # Len(clientList)
        BY <1>1, <3>1, <3>2
      <3>4. clientList[Len(clientList)] # clientList[k]
        BY <2>2, <3>3 DEF OrderInv, Places
      <3> QED BY <2>1, <3>1, <3>4
    <2> QED BY <1>2, <2>3, <2>4 DEF GetFails, Missing
  <1>3. CASE AddClient
    <2>1. clientList' = Append(clientList, mcur) /\ tpc'[mcur] = "read"
      BY <1>3 DEF AddClient, TypeOK, MainOK, ThreadsOK
    <2>2. clientList'[Len(clientList')] = mcur
      BY <1>1, <1>3, <2>1 DEF AddClient, TypeOK, MainOK
    <2> QED BY <2>1, <2>2
  <1>4. CASE ~GetFails(c) /\ ~AddClient
    <2>1. UNCHANGED clientList /\ (phase[c] = "left" => phase'[c] = "left")
      BY <1>4 DEF Next, vars, Connect, SendName, SendLine, WriteUTF, Receive, Leave, Thread,
         ReadUTF, ReadFails, LoopEnds, Get, GetFails, Write, Main, Accept, NoName,
         TypeOK, ClientsOK
    <2>2. tpc[c] \in Over
      <3>1. ASSUME NEW d \in Clients, Thread(d), d # c PROVE tpc[c] \in Over
        BY <3>1, ThreadPlaces
      <3>2. CASE Thread(c)
        BY <1>4, <3>2 DEF Thread, ReadUTF, ReadFails, LoopEnds, Get, Write, AfterFailure, Ends,
           TypeOK, ThreadsOK, ClientsOK
      <3>3. CASE ~\E d \in Clients : Thread(d)
        BY <1>4, <3>3 DEF Next, vars, Connect, SendName, SendLine, WriteUTF, Receive, Leave,
           Main, Accept, NoName
      <3> QED BY <3>1, <3>2, <3>3
    <2> QED BY <2>1, <2>2
  <1> QED BY <1>2, <1>3, <1>4

LEMMA HeardUnlessCutOffHolds == TypeOK /\ HearInv => EarlierHearsAll
  <1> SUFFICES ASSUME TypeOK, HearInv,
                      NEW j \in DOMAIN clientList, NEW k \in DOMAIN clientList, j < k,
                      Port[clientList[j]] # Port[clientList[k]],
                      phase[clientList[j]] # "left", NEW n \in Through(clientList[k], j)
               PROVE  Contains(down[clientList[j]], [from |-> clientList[k], n |-> n])
    BY DEF EarlierHearsAll
  <1>1. clientList[j] \in Clients
    BY DEF TypeOK, MainOK
  <1>2. Through(clientList[k], j) = 1..LastThrough(clientList[k], j)
    BY DEF Through, LastThrough
  <1>3. Heard(clientList[j], clientList[k], n)
    BY <1>2 DEF HearInv, EarlierHeard
  <1>4. DOMAIN down[clientList[j]] = 1..Len(down[clientList[j]])
    BY <1>1 DEF TypeOK, ClientsOK
  <1> QED BY <1>3, <1>4 DEF Heard, Contains

\* For any number of clients that come, talk and go in any order, any part of the
\* list a thread may see, and any lengths at which the list moves: whoever was in
\* the list before a client, has another port and is there was sent every line
\* the server has read from it, but for the one its thread is passing on or was
\* when it lost sight of the list; and a client that is there is cut off only
\* when somebody came after it.
THEOREM EarlierAlwaysHear == Spec => []HeardUnlessCutOff
  <1>1. Init => CutOffByNewcomer
    BY DEF Init, CutOffByNewcomer
  <1>2. TypeOK /\ OrderInv /\ HearInv /\ CutOffByNewcomer /\ [Next]_vars
          => (TypeOK /\ OrderInv /\ HearInv /\ CutOffByNewcomer)'
    BY TypeStep, OrderStep, HearStep, CutOffStep
  <1>3. TypeOK /\ HearInv /\ CutOffByNewcomer => HeardUnlessCutOff
    BY HeardUnlessCutOffHolds DEF HeardUnlessCutOff
  <1> QED BY <1>1, <1>2, <1>3, InitType, InitOrder, InitHear, PTL DEF Spec

\* Lines that were heard are those that are known in the relay.
LEMMA KnownHeard ==
  ASSUME TypeOK, NEW r \in Clients, NEW s \in Clients, NEW n \in Nat
  PROVE  n \in Chat!Known(r, s) <=> Heard(r, s, n)
  <1>1. down[r] \in Seq([from : Clients, n : Nat])
    BY DEF TypeOK, ClientsOK
  <1>2. \A k \in DOMAIN down[r] : down[r][k] \in [from : Clients, n : Nat]
    BY <1>1, InSeq
  <1>3. \A k \in DOMAIN down[r] :
          down[r][k] = [from |-> s, n |-> n] <=> down[r][k].from = s /\ down[r][k].n = n
    BY <1>2
  <1> QED BY <1>3 DEF Chat!Known, Heard

LEMMA RelayStep ==
  ASSUME TypeOK, OrderInv, HearInv, [Next]_vars PROVE [Chat!Next]_(Chat!relayVars)
  <1>1. CASE UNCHANGED <<msg, down>>
    BY <1>1 DEF Chat!relayVars
  <1>2. ASSUME NEW c \in Clients, ReadUTF(c) PROVE Chat!Take(c)
    <2>1. /\ tpc[c] = "read" /\ up[c] # <<>> /\ up'[c] = Tail(up[c])
          /\ msg' = [msg EXCEPT ![c] = Head(up[c])] /\ UNCHANGED down
      BY <1>2 DEF ReadUTF, TypeOK, ClientsOK
    <2>2. Head(up[c]) = msg[c] + 1
      BY <2>1, ReadNext DEF OrderInv, NextRecord
    <2> QED BY <2>1, <2>2 DEF Chat!Take
  <1>3. ASSUME NEW c \in Clients, Write(c), ~UNCHANGED <<msg, down>>
        PROVE  \E r \in Clients : Chat!Pass(c, r)
    <2> PICK d \in Clients : d = clientList[i[c]]
      BY <1>3, BeforeWrite DEF Write
    <2>1. /\ down' = [down EXCEPT ![d] = Append(@, [from |-> c, n |-> msg[c]])]
          /\ UNCHANGED msg /\ phase[d] # "left" /\ tpc[c] = "write"
      BY <1>3 DEF Write
    <2>2. /\ i[c] \in DOMAIN clientList /\ Port[d] # Port[c]
          /\ msg[c] \in Nat /\ msg[c] > 0 /\ LastThrough(c, i[c]) = msg[c] - 1
      BY <2>1, BeforeWrite
    <2>3. \A n \in Nat : Heard(d, c, n) =>
            n <= LastThrough(c, i[c]) /\ Heard(d, c, LastThrough(c, i[c]))
      BY <2>1, <2>2 DEF HearInv, UpToDate
    <2>4. \A n \in Nat : Heard(d, c, n) => n <= msg[c] - 1 /\ Heard(d, c, msg[c] - 1)
      BY <2>2, <2>3
    <2>5. msg[c] - 1 \in Nat
      BY <2>2
    <2>6. msg[c] \notin Chat!Known(d, c)
      BY <2>2, <2>4, KnownHeard
    <2>7. Chat!Known(d, c) = {} \/ msg[c] - 1 \in Chat!Known(d, c)
      <3>1. \A x \in Chat!Known(d, c) : x \in Nat
        <4>1. down[d] \in Seq([from : Clients, n : Nat])
          BY DEF TypeOK, ClientsOK
        <4>2. \A k \in DOMAIN down[d] : down[d][k] \in [from : Clients, n : Nat]
          BY <4>1, InSeq
        <4>3. \A k \in DOMAIN down[d] : down[d][k].n \in Nat
          BY <4>2
        <4> QED BY <4>3 DEF Chat!Known
      <3> QED BY <2>4, <2>5, <3>1, KnownHeard
    <2>8. c # d
      BY <2>2
    <2> QED BY <2>1, <2>2, <2>6, <2>7, <2>8 DEF Chat!Pass, Chat!Line
  <1>4. ASSUME NEW c \in Clients, Thread(c) PROVE [Chat!Next]_(Chat!relayVars)
    <2>1. CASE ReadFails(c) \/ LoopEnds(c) \/ Get(c) \/ GetFails(c)
      BY <1>1, <2>1 DEF ReadFails, LoopEnds, Get, GetFails
    <2> QED BY <1>1, <1>2, <1>3, <1>4, <2>1 DEF Thread, Chat!Next
  <1>5. ASSUME NEW c \in Clients,
               Connect(c) \/ SendName(c) \/ SendLine(c) \/ Receive(c) \/ Leave(c)
        PROVE  UNCHANGED <<msg, down>>
    BY <1>5 DEF Connect, SendName, SendLine, WriteUTF, Receive, Leave
  <1>6. CASE Main
    BY <1>6, <1>1 DEF Main, Accept, AddClient, NoName
  <1>7. CASE UNCHANGED vars
    BY <1>1, <1>7 DEF vars
  <1> QED BY <1>1, <1>4, <1>5, <1>6, <1>7 DEF Next

\* The chat relays: who has heard a client misses no later line of it and
\* hears none twice, and nobody hears itself, though the list is read with no
\* lock while main adds to it.
THEOREM ImplementsRelay == Spec => RelaySpec
  <1>1. Init => Chat!Init
    BY DEF Init, Chat!Init
  <1>2. TypeOK /\ OrderInv /\ HearInv /\ [Next]_vars
          => (TypeOK /\ OrderInv /\ HearInv)' /\ [Chat!Next]_(Chat!relayVars)
    BY TypeStep, OrderStep, HearStep, RelayStep
  <1> QED BY <1>1, <1>2, InitType, InitOrder, InitHear, PTL DEF Spec, RelaySpec, Chat!Spec
=============================================================================

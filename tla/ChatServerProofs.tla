-------------------------- MODULE ChatServerProofs --------------------------
(***************************************************************************)
(* What TLAPS proves of ChatServer, for any number of clients, addresses,  *)
(* cids, table entries and descriptors; in its second half, of the         *)
(* histories, the room and the file logs.txt: every visit has its shape,   *)
(* no line is lost to the order or said twice, and the log follows the     *)
(* room.                                                                   *)
(***************************************************************************)
EXTENDS ChatServer, SequenceTheorems, FiniteSetTheorems, TLAPS

-----------------------------------------------------------------------------
(* The inductive invariant.  TypeOK is not inductive: that a broadcast comes *)
(* from a client and a log record has a number rests on which descriptors a *)
(* thread may use, and when.                                               *)

\* A chat message is in the buffer while it is logged.
LogsChat == \A p \in Ptrs : pc[p] \in {"log", "logging"} => buf[p].kind = "chat"

\* A CLIENT is allocated exactly while main or a thread works with it.
Threads ==
  /\ newCli # NULL => newCli \in live /\ pc[newCli] = "idle"
  /\ \A p \in Ptrs : pc[p] # "idle" => p \in live

\* A client has at most one connection: either not yet accepted or behind
\* one descriptor.
Connections ==
  /\ \A i, j \in DOMAIN backlog : i # j => backlog[i] # backlog[j]
  /\ \A i \in DOMAIN backlog : phase[backlog[i]] # "idle"
  /\ \A f \in Fds : fdtab[f] \in Clients =>
       /\ phase[fdtab[f]] # "idle"
       /\ \A i \in DOMAIN backlog : fdtab[f] # backlog[i]
       /\ \A g \in Fds : f # g => fdtab[f] # fdtab[g]

IInv == TypeOK /\ LogsChat /\ Threads /\ Connections /\ OwnConnection

\* The program starts in the invariant.
LEMMA InitIInv == Init => IInv
  <1> SUFFICES ASSUME Init PROVE IInv
    OBVIOUS
  <1> USE ChatAssumption DEF Init
  <1>1. PeersOK
    BY DEF PeersOK
  <1>2. KernelOK
    BY DEF KernelOK
  <1>3. ServerOK
    <2>1. collided \in BOOLEAN
      BY Zenon
    <2> QED BY <2>1 DEF ServerOK
  <1>4. ThreadsOK
    <2>1. Zeroed \in Message
      BY DEF Zeroed, Message, Kinds
    <2>2. Zeroed.kind # "chat"
      BY DEF Zeroed
    <2> QED BY <2>1, <2>2 DEF ThreadsOK, PCs
  <1>5. HistoryOK
    BY DEF HistoryOK
  <1>6. LogsChat /\ Threads /\ Connections
    BY DEF LogsChat, Threads, Connections
  <1>7. OwnConnection
    BY DEF OwnConnection, HasSocket, Peer, File
  <1> QED BY <1>1, <1>2, <1>3, <1>4, <1>5, <1>6, <1>7 DEF IInv, TypeOK

USE DEF peerVars, kernelVars, heapVars, tableVars, mainVars, threadVars

-----------------------------------------------------------------------------
(* Lemmas about sequences.                                                 *)

\* What recv leaves in a stream is a stream.
LEMMA SuffixOfSeq ==
  ASSUME NEW S, NEW s \in Seq(S), NEW k \in Nat
  PROVE  SubSeq(s, k + 1, Len(s)) \in Seq(S)
  BY SubSeqProperties

\* What recv takes from a stream is a stream, and not empty.
LEMMA PrefixOfSeq ==
  ASSUME NEW S, NEW s \in Seq(S), NEW k \in 1..Len(s)
  PROVE  SubSeq(s, 1, k) \in Seq(S) /\ SubSeq(s, 1, k) # <<>>
  <1>1. SubSeq(s, 1, k) \in Seq(S) /\ Len(SubSeq(s, 1, k)) = k
    BY SubSeqProperties
  <1> QED BY <1>1

-----------------------------------------------------------------------------
(* Two consequences of the invariant.                                      *)

\* A thread at work has a client behind its descriptor, or descriptor -1.
LEMMA PeerIsClient ==
  ASSUME IInv, NEW p \in Ptrs, pc[p] \notin {"idle", "remove"}
  PROVE  Peer(p) \in Clients \cup {NULL}
  <1>1. CASE sockfd[p] = BadFd
    BY <1>1, ChatAssumption DEF Peer, File, BadFd, Fds
  <1>2. CASE sockfd[p] # BadFd
    BY <1>2 DEF IInv, Threads, OwnConnection, HasSocket
  <1> QED BY <1>1, <1>2

\* After send_msg a thread goes on according to the kind of its message.
LEMMA AfterSendIn ==
  ASSUME IInv, NEW p \in Ptrs
  PROVE  /\ AfterSend(p) \in {"recv", "log", "close"}
         /\ AfterSend(p) = "log" => buf[p].kind = "chat"
  <1>1. buf[p].kind \in {"join", "chat", "left"}
    BY DEF IInv, TypeOK, ThreadsOK, Message, Kinds
  <1> QED BY <1>1 DEF AfterSend

-----------------------------------------------------------------------------
(* Every action keeps the invariant.                                       *)

\* Connect keeps the invariant.
LEMMA ConnectStep == ASSUME IInv, NEW c \in Clients, Connect(c) PROVE IInv'
  <1> USE ChatAssumption DEF IInv, TypeOK
  <1>1. PeersOK'
    BY DEF PeersOK, KernelOK, ServerOK, Connect
  <1>2. KernelOK'
    BY DEF PeersOK, KernelOK, ServerOK, Connect
  <1>3. Connections'
    <2>1. /\ DOMAIN backlog' = 1..(Len(backlog) + 1)
          /\ \A i \in DOMAIN backlog : backlog'[i] = backlog[i]
          /\ backlog'[Len(backlog) + 1] = c
      BY DEF KernelOK, Connect
    <2>2. DOMAIN backlog = 1..Len(backlog) /\ Len(backlog) \in Nat
      BY DEF KernelOK
    <2>3. \A i \in DOMAIN backlog : backlog[i] # c
      BY DEF Connections, Connect
    <2>4. \A d \in Clients : phase'[d] # "idle" <=> phase[d] # "idle" \/ d = c
      BY DEF Connect, PeersOK
    <2>5. \A i \in DOMAIN backlog : backlog[i] \in Clients
      BY DEF KernelOK
    <2>6. /\ \A i, j \in DOMAIN backlog' : i # j => backlog'[i] # backlog'[j]
          /\ \A i \in DOMAIN backlog' : phase'[backlog'[i]] # "idle"
      BY <2>1, <2>2, <2>3, <2>4, <2>5 DEF Connections
    <2>7. ASSUME NEW f \in Fds, fdtab'[f] \in Clients
          PROVE  /\ phase'[fdtab'[f]] # "idle"
                 /\ \A i \in DOMAIN backlog' : fdtab'[f] # backlog'[i]
                 /\ \A g \in Fds : f # g => fdtab'[f] # fdtab'[g]
      BY <2>1, <2>2, <2>4, <2>7 DEF Connections, Connect
    <2> QED BY <2>6, <2>7 DEF Connections
  <1>4. UNCHANGED <<fdtab, live, sockfd, cid, clients, mutex, newCli, acceptErrors, collided, pc, buf, msg, slot, logfd, room, log>>
    BY DEF Connect
  <1>5. ServerOK' /\ ThreadsOK' /\ HistoryOK' /\ LogsChat' /\ Threads' /\ OwnConnection'
    BY <1>4 DEF ServerOK, ThreadsOK, HistoryOK, LogsChat, Threads, OwnConnection, HasSocket, Peer, File
  <1> QED BY <1>1, <1>2, <1>3, <1>4, <1>5

\* SendName keeps the invariant.
LEMMA SendNameStep == ASSUME IInv, NEW c \in Clients, SendName(c) PROVE IInv'
  <1> USE ChatAssumption DEF IInv, TypeOK
  <1>1. PeersOK'
    <2>1. <<NAME, PAD>> \in Seq(Tokens)
      BY DEF Tokens
    <2> QED BY <2>1 DEF PeersOK, SendName
  <1>2. Connections'
    BY DEF Connections, KernelOK, PeersOK, SendName
  <1>3. UNCHANGED <<backlog, fdtab, live, sockfd, cid, clients, mutex, newCli, acceptErrors, collided, pc, buf, msg, slot, logfd, room, log>>
    BY DEF SendName
  <1>4. KernelOK' /\ ServerOK' /\ ThreadsOK' /\ HistoryOK' /\ LogsChat' /\ Threads' /\ OwnConnection'
    BY <1>3 DEF KernelOK, ServerOK, ThreadsOK, HistoryOK, LogsChat, Threads, OwnConnection, HasSocket, Peer, File
  <1> QED BY <1>1, <1>2, <1>3, <1>4

\* SendLine keeps the invariant.
LEMMA SendLineStep == ASSUME IInv, NEW c \in Clients, SendLine(c) PROVE IInv'
  <1> USE ChatAssumption DEF IInv, TypeOK
  <1>1. PeersOK'
    <2>1. sent[c] + 1 \in 1..MaxMsgs
      BY DEF PeersOK, SendLine
    <2>2. Append(up[c], sent[c] + 1) \in Seq(Tokens)
      BY <2>1, AppendProperties DEF PeersOK, Tokens
    <2> QED BY <2>1, <2>2 DEF PeersOK, SendLine
  <1>2. UNCHANGED <<phase, backlog, fdtab, live, sockfd, cid, clients, mutex, newCli, acceptErrors, collided, pc, buf, msg, slot, logfd, room, log>>
    BY DEF SendLine
  <1>3. KernelOK' /\ ServerOK' /\ ThreadsOK' /\ HistoryOK' /\ LogsChat' /\ Threads' /\ Connections' /\ OwnConnection'
    BY <1>2 DEF KernelOK, ServerOK, ThreadsOK, HistoryOK, LogsChat, Threads, Connections, OwnConnection, HasSocket, Peer, File
  <1> QED BY <1>1, <1>2, <1>3

\* Receive keeps the invariant.
LEMMA ReceiveStep == ASSUME IInv, NEW c \in Clients, Receive(c) PROVE IInv'
  <1> USE ChatAssumption DEF IInv, TypeOK
  <1>1. PeersOK'
    BY DEF PeersOK, KernelOK, ServerOK, Receive
  <1>2. UNCHANGED <<phase, backlog, fdtab, live, sockfd, cid, clients, mutex, newCli, acceptErrors, collided, pc, buf, msg, slot, logfd, room, log>>
    BY DEF Receive
  <1>3. KernelOK' /\ ServerOK' /\ ThreadsOK' /\ HistoryOK' /\ LogsChat' /\ Threads' /\ Connections' /\ OwnConnection'
    BY <1>2 DEF KernelOK, ServerOK, ThreadsOK, HistoryOK, LogsChat, Threads, Connections, OwnConnection, HasSocket, Peer, File
  <1> QED BY <1>1, <1>2, <1>3

\* Exit keeps the invariant.
LEMMA ExitStep == ASSUME IInv, NEW c \in Clients, Exit(c) PROVE IInv'
  <1> USE ChatAssumption DEF IInv, TypeOK
  <1>1. PeersOK'
    BY DEF PeersOK, KernelOK, ServerOK, Exit
  <1>2. Connections'
    BY DEF Connections, KernelOK, PeersOK, Exit
  <1>3. UNCHANGED <<backlog, fdtab, live, sockfd, cid, clients, mutex, newCli, acceptErrors, collided, pc, buf, msg, slot, logfd, room, log>>
    BY DEF Exit
  <1>4. KernelOK' /\ ServerOK' /\ ThreadsOK' /\ HistoryOK' /\ LogsChat' /\ Threads' /\ OwnConnection'
    BY <1>3 DEF KernelOK, ServerOK, ThreadsOK, HistoryOK, LogsChat, Threads, OwnConnection, HasSocket, Peer, File
  <1> QED BY <1>1, <1>2, <1>3, <1>4

\* Accept keeps the invariant.
LEMMA AcceptStep == ASSUME IInv, Accept PROVE IInv'
  <1> USE ChatAssumption DEF IInv, TypeOK
  <1>1. KernelOK'
    BY DEF PeersOK, KernelOK, ServerOK, Accept, IsLowestFree, FreeFds, NewClient
  <1>2. ServerOK'
    BY DEF ServerOK, KernelOK, Accept, IsLowestFree, FreeFds, NewClient
  <1>3. Threads'
    BY DEF Threads, ThreadsOK, ServerOK, Accept, IsLowestFree, FreeFds, NewClient
  <1>4. Connections'
    <2> DEFINE h == Head(backlog)
    <2>1. backlog \in Seq(Clients) /\ backlog # <<>>
      BY DEF KernelOK, Accept
    <2>2. /\ h = backlog[1] /\ h \in Clients
          /\ DOMAIN backlog = 1..Len(backlog)
          /\ Len(backlog) \in Nat /\ Len(backlog) >= 1
          /\ DOMAIN backlog' = 1..(Len(backlog) - 1)
          /\ \A i \in DOMAIN backlog' : backlog'[i] = backlog[i + 1]
      BY <2>1, HeadTailProperties DEF Accept
    <2>3. \A i \in DOMAIN backlog' : i + 1 \in DOMAIN backlog /\ backlog'[i] # h
      BY <2>2 DEF Connections
    <2>4. PICK f \in Fds : fdtab' = [fdtab EXCEPT ![f] = h]
      BY DEF Accept
    <2>5. \A g \in Fds : fdtab'[g] = IF g = f THEN h ELSE fdtab[g]
      BY <2>4 DEF KernelOK
    <2>6. \A g \in Fds : fdtab[g] \in Clients => fdtab[g] # h
      BY <2>2 DEF Connections
    <2>7. phase' = phase
      BY DEF Accept
    <2>8. /\ \A i, j \in DOMAIN backlog' : i # j => backlog'[i] # backlog'[j]
          /\ \A i \in DOMAIN backlog' : phase'[backlog'[i]] # "idle"
      BY <2>2, <2>3, <2>7 DEF Connections
    <2>9. ASSUME NEW g \in Fds, fdtab'[g] \in Clients
          PROVE  /\ phase'[fdtab'[g]] # "idle"
                 /\ \A i \in DOMAIN backlog' : fdtab'[g] # backlog'[i]
                 /\ \A k \in Fds : g # k => fdtab'[g] # fdtab'[k]
      BY <2>2, <2>3, <2>5, <2>6, <2>7, <2>9 DEF Connections
    <2> QED BY <2>8, <2>9 DEF Connections
  <1>5. OwnConnection'
    BY DEF OwnConnection, HasSocket, Peer, File, ServerOK, KernelOK, ThreadsOK, Threads, Connections, Accept, IsLowestFree, FreeFds, NewClient
  <1>6. UNCHANGED <<phase, sent, nread, rst, up, down, pc, buf, msg, slot, logfd, room, log>>
    BY DEF Accept
  <1>7. PeersOK' /\ ThreadsOK' /\ HistoryOK' /\ LogsChat'
    BY <1>6 DEF PeersOK, ThreadsOK, HistoryOK, LogsChat
  <1> QED BY <1>1, <1>2, <1>3, <1>4, <1>5, <1>6, <1>7

\* AcceptError keeps the invariant.
LEMMA AcceptErrorStep == ASSUME IInv, AcceptError PROVE IInv'
  <1> USE ChatAssumption DEF IInv, TypeOK
  <1>1. ServerOK'
    BY DEF ServerOK, KernelOK, AcceptError, NewClient, BadFd
  <1>2. Threads'
    BY DEF Threads, ThreadsOK, ServerOK, AcceptError, NewClient, BadFd
  <1>3. OwnConnection'
    BY DEF OwnConnection, HasSocket, Peer, File, ServerOK, KernelOK, ThreadsOK, Threads, Connections, AcceptError, NewClient, BadFd
  <1>4. UNCHANGED <<phase, sent, nread, rst, up, down, backlog, fdtab, pc, buf, msg, slot, logfd, room, log>>
    BY DEF AcceptError
  <1>5. PeersOK' /\ KernelOK' /\ ThreadsOK' /\ HistoryOK' /\ LogsChat' /\ Connections'
    BY <1>4 DEF PeersOK, KernelOK, ThreadsOK, HistoryOK, LogsChat, Connections
  <1> QED BY <1>1, <1>2, <1>3, <1>4, <1>5

\* AddClient keeps the invariant.
LEMMA AddClientStep == ASSUME IInv, AddClient PROVE IInv'
  <1> USE ChatAssumption DEF IInv, TypeOK
  <1>1. ServerOK'
    BY DEF ServerOK, KernelOK, AddClient
  <1>2. ThreadsOK'
    BY DEF ThreadsOK, ServerOK, PCs, AddClient
  <1>3. LogsChat'
    BY DEF LogsChat, ThreadsOK, PCs, AddClient
  <1>4. Threads'
    BY DEF Threads, ThreadsOK, ServerOK, AddClient
  <1>5. OwnConnection'
    BY DEF OwnConnection, HasSocket, Peer, File, ServerOK, KernelOK, ThreadsOK, Threads, Connections, AddClient
  <1>6. UNCHANGED <<phase, sent, nread, rst, up, down, backlog, fdtab, room, log>>
    BY DEF AddClient
  <1>7. PeersOK' /\ KernelOK' /\ HistoryOK' /\ Connections'
    BY <1>6 DEF PeersOK, KernelOK, HistoryOK, Connections
  <1> QED BY <1>1, <1>2, <1>3, <1>4, <1>5, <1>6, <1>7

\* RecvName keeps the invariant.
LEMMA RecvNameStep == ASSUME IInv, NEW p \in Ptrs, RecvName(p) PROVE IInv'
  <1> USE ChatAssumption DEF IInv, TypeOK
  <1>1. PeersOK'
    <2>1. \A c \in Clients : \A k \in 0..Len(up[c]) :
            SubSeq(up[c], k + 1, Len(up[c])) \in Seq(Tokens)
      BY SuffixOfSeq DEF PeersOK
    <2>2. CASE UNCHANGED up
      BY <2>2, PeerIsClient DEF PeersOK, RecvName, ErrorReported
    <2>3. CASE /\ Peer(p) # NULL /\ up[Peer(p)] # <<>>
               /\ \E k \in 1..2 :
                    up' = [up EXCEPT ![Peer(p)] = SubSeq(@, k + 1, Len(@))]
               /\ UNCHANGED rst
      <3>1. Peer(p) \in Clients
        BY <2>3, PeerIsClient DEF RecvName
      <3>2. PICK k \in 1..2 :
              up' = [up EXCEPT ![Peer(p)] = SubSeq(@, k + 1, Len(@))]
        BY <2>3
      <3>3. SubSeq(up[Peer(p)], k + 1, Len(up[Peer(p)])) \in Seq(Tokens)
        BY <3>1, SuffixOfSeq DEF PeersOK
      <3> QED BY <3>1, <3>2, <3>3, <2>3 DEF PeersOK, RecvName
    <2> QED BY <2>2, <2>3 DEF RecvName
  <1>2. ThreadsOK'
    <2>1. [kind |-> "join", text |-> <<NAME>>] \in Message
      BY DEF Message, Kinds, Tokens
    <2>2. Zeroed \in Message /\ Zeroed.kind = "join"
      BY DEF Zeroed, Message, Kinds
    <2>3. \/ buf' = [buf EXCEPT ![p] = [kind |-> "join", text |-> <<NAME>>]]
          \/ buf' = [buf EXCEPT ![p] = Zeroed]
      BY DEF RecvName
    <2>4. buf' \in [Ptrs -> Message] /\ (buf'[p].kind = "join")
      <3>1. buf \in [Ptrs -> Message]
        BY DEF ThreadsOK
      <3>2. [kind |-> "join", text |-> <<NAME>>].kind = "join"
        OBVIOUS
      <3> QED BY <2>1, <2>2, <2>3, <3>1, <3>2
    <2>5. \A q \in Ptrs \ {p} : buf'[q] = buf[q]
      BY <2>3 DEF ThreadsOK
    <2> QED BY <2>4, <2>5 DEF ThreadsOK, PCs, RecvName
  <1>3. LogsChat'
    BY DEF LogsChat, ThreadsOK, PCs, RecvName, ErrorReported
  <1>4. Threads'
    BY DEF Threads, ThreadsOK, ServerOK, RecvName, ErrorReported
  <1>5. OwnConnection'
    BY DEF OwnConnection, HasSocket, Peer, File, ServerOK, KernelOK, ThreadsOK, Threads, Connections, RecvName, ErrorReported
  <1>6. UNCHANGED <<phase, backlog, fdtab, live, sockfd, cid, clients, mutex, newCli, acceptErrors, collided, room, log>>
    BY DEF RecvName
  <1>7. KernelOK' /\ ServerOK' /\ HistoryOK' /\ Connections'
    BY <1>6 DEF KernelOK, ServerOK, HistoryOK, Connections
  <1> QED BY <1>1, <1>2, <1>3, <1>4, <1>5, <1>6, <1>7

\* RecvData keeps the invariant.
LEMMA RecvDataStep == ASSUME IInv, NEW p \in Ptrs, RecvData(p) PROVE IInv'
  <1> USE ChatAssumption DEF IInv, TypeOK
  <1>1. PeersOK'
    <2>1. Peer(p) \in Clients
      BY PeerIsClient DEF RecvData
    <2>2. PICK k \in 1..Len(up[Peer(p)]) :
            up' = [up EXCEPT ![Peer(p)] = SubSeq(@, k + 1, Len(@))]
      BY DEF RecvData
    <2>3. SubSeq(up[Peer(p)], k + 1, Len(up[Peer(p)])) \in Seq(Tokens)
      BY <2>1, SuffixOfSeq DEF PeersOK
    <2> QED BY <2>1, <2>2, <2>3 DEF PeersOK, RecvData
  <1>2. ThreadsOK'
    <2>1. Peer(p) \in Clients
      BY PeerIsClient DEF RecvData
    <2>2. CASE UNCHANGED <<buf, pc>>
      BY <2>2 DEF ThreadsOK, RecvData
    <2>3. ASSUME NEW k \in 1..Len(up[Peer(p)]),
                 buf' = [buf EXCEPT ![p] =
                   [kind |-> "chat", text |-> SubSeq(up[Peer(p)], 1, k)]],
                 pc' = [pc EXCEPT ![p] = "lock"]
          PROVE  ThreadsOK'
      <3>1. /\ SubSeq(up[Peer(p)], 1, k) \in Seq(Tokens)
            /\ SubSeq(up[Peer(p)], 1, k) # <<>>
        BY <2>1, PrefixOfSeq DEF PeersOK
      <3>2. [kind |-> "chat", text |-> SubSeq(up[Peer(p)], 1, k)] \in Message
        BY <3>1 DEF Message, Kinds
      <3> QED BY <2>3, <3>1, <3>2 DEF ThreadsOK, PCs, RecvData
    <2> QED BY <2>2, <2>3 DEF RecvData
  <1>3. LogsChat'
    BY DEF LogsChat, ThreadsOK, PCs, RecvData
  <1>4. Threads'
    BY DEF Threads, ThreadsOK, ServerOK, RecvData
  <1>5. OwnConnection'
    <2>1. \A q \in Ptrs : /\ HasSocket(q)' <=> HasSocket(q)
                          /\ pc'[q] = "logging" <=> pc[q] = "logging"
      BY DEF HasSocket, ThreadsOK, RecvData
    <2>2. /\ \A q \in Ptrs : Peer(q)' = Peer(q)
          /\ \A f : File(f)' = File(f)
      BY DEF Peer, File, RecvData
    <2> QED BY <2>1, <2>2 DEF OwnConnection, RecvData
  <1>6. UNCHANGED <<phase, backlog, fdtab, live, sockfd, cid, clients, mutex, newCli, acceptErrors, collided, room, log>>
    BY DEF RecvData
  <1>7. KernelOK' /\ ServerOK' /\ HistoryOK' /\ Connections'
    BY <1>6 DEF KernelOK, ServerOK, HistoryOK, Connections
  <1> QED BY <1>1, <1>2, <1>3, <1>4, <1>5, <1>6, <1>7

\* RecvEnd keeps the invariant.
LEMMA RecvEndStep == ASSUME IInv, NEW p \in Ptrs, RecvEnd(p) PROVE IInv'
  <1> USE ChatAssumption DEF IInv, TypeOK
  <1>1. ThreadsOK'
    <2>1. [kind |-> "left", text |-> <<>>] \in Message
      BY DEF Message, Kinds
    <2> QED BY <2>1 DEF ThreadsOK, PCs, RecvEnd
  <1>2. LogsChat'
    BY DEF LogsChat, ThreadsOK, PCs, RecvEnd
  <1>3. Threads'
    BY DEF Threads, ThreadsOK, ServerOK, RecvEnd
  <1>4. OwnConnection'
    BY DEF OwnConnection, HasSocket, Peer, File, ServerOK, KernelOK, ThreadsOK, Threads, Connections, RecvEnd
  <1>5. UNCHANGED <<phase, sent, nread, rst, up, down, backlog, fdtab, live, sockfd, cid, clients, mutex, newCli, acceptErrors, collided, room, log>>
    BY DEF RecvEnd
  <1>6. PeersOK' /\ KernelOK' /\ ServerOK' /\ HistoryOK' /\ Connections'
    BY <1>5 DEF PeersOK, KernelOK, ServerOK, HistoryOK, Connections
  <1> QED BY <1>1, <1>2, <1>3, <1>4, <1>5, <1>6

\* RecvError keeps the invariant.
LEMMA RecvErrorStep == ASSUME IInv, NEW p \in Ptrs, RecvError(p) PROVE IInv'
  <1> USE ChatAssumption DEF IInv, TypeOK
  <1>1. PeersOK'
    BY DEF PeersOK, KernelOK, ServerOK, RecvError, ErrorReported
  <1>2. ThreadsOK'
    BY DEF ThreadsOK, ServerOK, PCs, RecvError, ErrorReported
  <1>3. LogsChat'
    BY DEF LogsChat, ThreadsOK, PCs, RecvError, ErrorReported
  <1>4. Threads'
    BY DEF Threads, ThreadsOK, ServerOK, RecvError, ErrorReported
  <1>5. OwnConnection'
    BY DEF OwnConnection, HasSocket, Peer, File, ServerOK, KernelOK, ThreadsOK, Threads, Connections, RecvError, ErrorReported
  <1>6. UNCHANGED <<phase, backlog, fdtab, live, sockfd, cid, clients, mutex, newCli, acceptErrors, collided, room, log>>
    BY DEF RecvError
  <1>7. KernelOK' /\ ServerOK' /\ HistoryOK' /\ Connections'
    BY <1>6 DEF KernelOK, ServerOK, HistoryOK, Connections
  <1> QED BY <1>1, <1>2, <1>3, <1>4, <1>5, <1>6, <1>7

\* SendLock keeps the invariant.
LEMMA SendLockStep == ASSUME IInv, NEW p \in Ptrs, SendLock(p) PROVE IInv'
  <1> USE ChatAssumption DEF IInv, TypeOK
  <1>1. ServerOK'
    BY DEF ServerOK, KernelOK, SendLock, CanLock
  <1>2. ThreadsOK'
    <2>1. Len(room) + 1 \in Nat
      BY DEF HistoryOK
    <2> QED BY <2>1 DEF ThreadsOK, PCs, SendLock
  <1>3. HistoryOK'
    <2>1. Peer(p) \in Clients \cup {NULL}
      BY PeerIsClient DEF SendLock
    <2>2. [kind |-> buf[p].kind, text |-> buf[p].text, from |-> Peer(p)] \in Entry
      BY <2>1 DEF ThreadsOK, Message, Entry
    <2> QED BY <2>2, AppendProperties DEF HistoryOK, SendLock
  <1>4. LogsChat'
    BY DEF LogsChat, ThreadsOK, PCs, SendLock, CanLock
  <1>5. Threads'
    BY DEF Threads, ThreadsOK, ServerOK, SendLock, CanLock
  <1>6. OwnConnection'
    BY DEF OwnConnection, HasSocket, Peer, File, ServerOK, KernelOK, ThreadsOK, Threads, Connections, SendLock, CanLock
  <1>7. UNCHANGED <<phase, sent, nread, rst, up, down, backlog, fdtab>>
    BY DEF SendLock
  <1>8. PeersOK' /\ KernelOK' /\ Connections'
    BY <1>7 DEF PeersOK, KernelOK, Connections
  <1> QED BY <1>1, <1>2, <1>3, <1>4, <1>5, <1>6, <1>7, <1>8

\* SendSkip keeps the invariant.
LEMMA SendSkipStep == ASSUME IInv, NEW p \in Ptrs, SendSkip(p) PROVE IInv'
  <1> USE ChatAssumption DEF IInv, TypeOK
  <1>1. ThreadsOK'
    <2>1. slot[p] + 1 \in 1..(MAX_CONNECTIONS + 1)
      BY DEF ThreadsOK, EndOfLoop, SendSkip
    <2> QED BY <2>1 DEF ThreadsOK, SendSkip
  <1>2. UNCHANGED <<phase, sent, nread, rst, up, down, backlog, fdtab, live, sockfd, cid, clients, mutex, newCli, acceptErrors, collided, pc, buf, logfd, room, log>>
    BY DEF SendSkip
  <1>3. PeersOK' /\ KernelOK' /\ ServerOK' /\ HistoryOK' /\ LogsChat' /\ Threads' /\ Connections' /\ OwnConnection'
    BY <1>2 DEF PeersOK, KernelOK, ServerOK, HistoryOK, LogsChat, Threads, Connections, OwnConnection, HasSocket, Peer, File
  <1> QED BY <1>1, <1>2, <1>3

\* SendWrite keeps the invariant.
LEMMA SendWriteStep == ASSUME IInv, NEW p \in Ptrs, SendWrite(p) PROVE IInv'
  <1> USE ChatAssumption DEF IInv, TypeOK
  <1>1. PeersOK'
    <2>1. msg[p] \in Nat
      BY DEF ThreadsOK
    <2>2. \A c \in Clients : Append(down[c], msg[p]) \in Seq(Nat)
      BY <2>1, AppendProperties DEF PeersOK
    <2> QED BY <2>2 DEF PeersOK, SendWrite
  <1>2. ThreadsOK'
    <2>1. slot[p] + 1 \in 1..(MAX_CONNECTIONS + 1)
      BY DEF ThreadsOK, EndOfLoop, SendWrite
    <2> QED BY <2>1 DEF ThreadsOK, SendWrite
  <1>3. HistoryOK'
    <2>1. Peer(p) \in Clients \cup {NULL}
      BY PeerIsClient DEF SendWrite
    <2>2. [raw |-> TRUE, from |-> Peer(p), n |-> msg[p]] \in LogEntry
      <3>1. msg[p] \in Int
        BY DEF ThreadsOK
      <3>2. TRUE \in BOOLEAN
        BY Zenon
      <3> QED BY <2>1, <3>1, <3>2, Zenon DEF LogEntry
    <2>3. log' = log \/ log' = Append(log, [raw |-> TRUE, from |-> Peer(p), n |-> msg[p]])
      BY DEF SendWrite
    <2> QED BY <2>2, <2>3, AppendProperties DEF HistoryOK, SendWrite
  <1>4. UNCHANGED <<phase, backlog, fdtab, live, sockfd, cid, clients, mutex, newCli, acceptErrors, collided, pc, buf, logfd>>
    BY DEF SendWrite
  <1>5. KernelOK' /\ ServerOK' /\ LogsChat' /\ Threads' /\ Connections' /\ OwnConnection'
    BY <1>4 DEF KernelOK, ServerOK, LogsChat, Threads, Connections, OwnConnection, HasSocket, Peer, File
  <1> QED BY <1>1, <1>2, <1>3, <1>4, <1>5

\* SendFail keeps the invariant.
LEMMA SendFailStep == ASSUME IInv, NEW p \in Ptrs, SendFail(p) PROVE IInv'
  <1> USE ChatAssumption DEF IInv, TypeOK
  <1>1. PeersOK'
    BY DEF PeersOK, KernelOK, ServerOK, SendFail, ErrorReported
  <1>2. ThreadsOK'
    BY DEF ThreadsOK, ServerOK, PCs, SendFail, ErrorReported
  <1>3. LogsChat'
    BY DEF LogsChat, ThreadsOK, PCs, SendFail, ErrorReported
  <1>4. Threads'
    BY DEF Threads, ThreadsOK, ServerOK, SendFail, ErrorReported
  <1>5. OwnConnection'
    BY DEF OwnConnection, HasSocket, Peer, File, ServerOK, KernelOK, ThreadsOK, Threads, Connections, SendFail, ErrorReported
  <1>6. UNCHANGED <<phase, backlog, fdtab, live, sockfd, cid, clients, mutex, newCli, acceptErrors, collided, room, log>>
    BY DEF SendFail
  <1>7. KernelOK' /\ ServerOK' /\ HistoryOK' /\ Connections'
    BY <1>6 DEF KernelOK, ServerOK, HistoryOK, Connections
  <1> QED BY <1>1, <1>2, <1>3, <1>4, <1>5, <1>6, <1>7

\* SendUnlock keeps the invariant.
LEMMA SendUnlockStep == ASSUME IInv, NEW p \in Ptrs, SendUnlock(p) PROVE IInv'
  <1> USE ChatAssumption DEF IInv, TypeOK
  <1>1. ServerOK'
    BY DEF ServerOK, KernelOK, SendUnlock
  <1>2. ThreadsOK'
    <2>1. 1 \in 1..(MAX_CONNECTIONS + 1)
      OBVIOUS
    <2>2. Zeroed \in Message /\ Zeroed.kind = "join"
      BY DEF Zeroed, Message, Kinds
    <2> QED BY <2>1, <2>2, AfterSendIn DEF ThreadsOK, PCs, SendUnlock
  <1>3. LogsChat'
    BY AfterSendIn DEF LogsChat, ThreadsOK, SendUnlock
  <1>4. Threads'
    BY DEF Threads, ThreadsOK, ServerOK, SendUnlock
  <1>5. OwnConnection'
    <2>1. \A q \in Ptrs : /\ HasSocket(q)' <=> HasSocket(q)
                          /\ pc'[q] = "logging" <=> pc[q] = "logging"
      <3>1. pc[p] \in {"send", "unlock"} /\ AfterSend(p) \in {"recv", "log", "close"}
        BY AfterSendIn DEF SendUnlock
      <3> QED BY <3>1 DEF HasSocket, ThreadsOK, SendUnlock
    <2>2. /\ \A q \in Ptrs : Peer(q)' = Peer(q)
          /\ \A f : File(f)' = File(f)
      BY DEF Peer, File, SendUnlock
    <2> QED BY <2>1, <2>2 DEF OwnConnection, SendUnlock
  <1>6. UNCHANGED <<phase, sent, nread, rst, up, down, backlog, fdtab, room, log>>
    BY DEF SendUnlock
  <1>7. PeersOK' /\ KernelOK' /\ HistoryOK' /\ Connections'
    BY <1>6 DEF PeersOK, KernelOK, HistoryOK, Connections
  <1> QED BY <1>1, <1>2, <1>3, <1>4, <1>5, <1>6, <1>7

\* LogOpen keeps the invariant.
LEMMA LogOpenStep == ASSUME IInv, NEW p \in Ptrs, LogOpen(p) PROVE IInv'
  <1> USE ChatAssumption DEF IInv, TypeOK
  <1>1. KernelOK'
    BY DEF PeersOK, KernelOK, ServerOK, LogOpen, IsLowestFree, FreeFds
  <1>2. ThreadsOK'
    BY DEF ThreadsOK, ServerOK, PCs, LogOpen, IsLowestFree, FreeFds
  <1>3. LogsChat'
    BY DEF LogsChat, ThreadsOK, PCs, LogOpen, IsLowestFree, FreeFds
  <1>4. Threads'
    BY DEF Threads, ThreadsOK, ServerOK, LogOpen, IsLowestFree, FreeFds
  <1>5. Connections'
    BY DEF Connections, KernelOK, PeersOK, LogOpen, IsLowestFree, FreeFds
  <1>6. OwnConnection'
    BY DEF OwnConnection, HasSocket, Peer, File, ServerOK, KernelOK, ThreadsOK, Threads, Connections, LogOpen, IsLowestFree, FreeFds
  <1>7. UNCHANGED <<phase, sent, nread, rst, up, down, live, sockfd, cid, clients, mutex, newCli, acceptErrors, collided, room, log>>
    BY DEF LogOpen
  <1>8. PeersOK' /\ ServerOK' /\ HistoryOK'
    BY <1>7 DEF PeersOK, ServerOK, HistoryOK
  <1> QED BY <1>1, <1>2, <1>3, <1>4, <1>5, <1>6, <1>7, <1>8

\* LogClose keeps the invariant.
LEMMA LogCloseStep == ASSUME IInv, NEW p \in Ptrs, LogClose(p) PROVE IInv'
  <1> USE ChatAssumption DEF IInv, TypeOK
  <1>1. KernelOK'
    BY DEF PeersOK, KernelOK, ServerOK, LogClose
  <1>2. ThreadsOK'
    <2>1. Zeroed \in Message /\ Zeroed.kind = "join"
      BY DEF Zeroed, Message, Kinds
    <2> QED BY <2>1 DEF ThreadsOK, PCs, LogClose
  <1>3. HistoryOK'
    <2>1. Peer(p) \in Clients \cup {NULL}
      BY PeerIsClient DEF LogClose
    <2>2. buf[p].text \in Seq(Tokens) /\ buf[p].text # <<>>
      BY DEF LogsChat, ThreadsOK, Message, LogClose
    <2>3. Trimmed(buf[p].text) \in Int
      BY <2>2, HeadTailProperties DEF Trimmed, Tokens, NAME, PAD
    <2>4. [raw |-> FALSE, from |-> Peer(p), n |-> Trimmed(buf[p].text)] \in LogEntry
      <3>1. FALSE \in BOOLEAN
        BY Zenon
      <3> QED BY <2>1, <2>3, <3>1, Zenon DEF LogEntry
    <2> QED BY <2>4, AppendProperties DEF HistoryOK, LogClose
  <1>4. LogsChat'
    BY DEF LogsChat, ThreadsOK, PCs, LogClose
  <1>5. Threads'
    BY DEF Threads, ThreadsOK, ServerOK, LogClose
  <1>6. Connections'
    BY DEF Connections, KernelOK, PeersOK, LogClose
  <1>7. OwnConnection'
    BY DEF OwnConnection, HasSocket, Peer, File, ServerOK, KernelOK, ThreadsOK, Threads, Connections, LogClose
  <1>8. UNCHANGED <<phase, sent, nread, rst, up, down, live, sockfd, cid, clients, mutex, newCli, acceptErrors, collided>>
    BY DEF LogClose
  <1>9. PeersOK' /\ ServerOK'
    BY <1>8 DEF PeersOK, ServerOK
  <1> QED BY <1>1, <1>2, <1>3, <1>4, <1>5, <1>6, <1>7, <1>8, <1>9

\* CloseSock keeps the invariant.
LEMMA CloseSockStep == ASSUME IInv, NEW p \in Ptrs, CloseSock(p) PROVE IInv'
  <1> USE ChatAssumption DEF IInv, TypeOK
  <1>1. KernelOK'
    BY DEF PeersOK, KernelOK, ServerOK, CloseSock
  <1>2. ThreadsOK'
    BY DEF ThreadsOK, ServerOK, PCs, CloseSock
  <1>3. LogsChat'
    BY DEF LogsChat, ThreadsOK, PCs, CloseSock
  <1>4. Threads'
    BY DEF Threads, ThreadsOK, ServerOK, CloseSock
  <1>5. Connections'
    BY DEF Connections, KernelOK, PeersOK, CloseSock
  <1>6. OwnConnection'
    <2>1. \A q \in Ptrs : HasSocket(q)' <=> HasSocket(q) /\ q # p
      BY DEF HasSocket, ThreadsOK, CloseSock
    <2>2. \A q \in Ptrs : pc'[q] = "logging" => pc[q] = "logging" /\ q # p
      BY DEF ThreadsOK, CloseSock
    <2>3. \A f \in Fds : f # sockfd[p] => fdtab'[f] = fdtab[f]
      BY DEF KernelOK, CloseSock
    <2>4. p \in live /\ pc[p] # "remove"
      BY DEF Threads, CloseSock
    <2>5. \A q \in Ptrs : HasSocket(q)' => sockfd[q] # sockfd[p]
      BY <2>1, <2>4 DEF OwnConnection, HasSocket
    <2>6. \A q \in Ptrs : pc'[q] = "logging" => logfd[q] # sockfd[p]
      <3>1. Peer(p) # LOG
        BY PeerIsClient DEF CloseSock
      <3> QED BY <3>1, <2>2 DEF OwnConnection, Peer
    <2>7. UNCHANGED <<sockfd, logfd>>
      BY DEF CloseSock
    <2>8. \A q \in Ptrs : HasSocket(q)' => Peer(q)' = Peer(q)
      BY <2>3, <2>5, <2>7 DEF Peer, File
    <2>9. \A q \in Ptrs : pc'[q] = "logging" => File(logfd[q])' = File(logfd[q])
      BY <2>3, <2>6, <2>7 DEF File
    <2> QED BY <2>1, <2>2, <2>7, <2>8, <2>9 DEF OwnConnection
  <1>7. UNCHANGED <<phase, sent, nread, rst, up, down, live, sockfd, cid, clients, mutex, newCli, acceptErrors, collided, room, log>>
    BY DEF CloseSock
  <1>8. PeersOK' /\ ServerOK' /\ HistoryOK'
    BY <1>7 DEF PeersOK, ServerOK, HistoryOK
  <1> QED BY <1>1, <1>2, <1>3, <1>4, <1>5, <1>6, <1>7, <1>8

\* RemoveClient keeps the invariant.
LEMMA RemoveClientStep == ASSUME IInv, NEW p \in Ptrs, RemoveClient(p) PROVE IInv'
  <1> USE ChatAssumption DEF IInv, TypeOK
  <1>1. ServerOK'
    BY DEF ServerOK, KernelOK, RemoveClient
  <1>2. ThreadsOK'
    BY DEF ThreadsOK, ServerOK, PCs, RemoveClient
  <1>3. LogsChat'
    BY DEF LogsChat, ThreadsOK, PCs, RemoveClient
  <1>4. Threads'
    BY DEF Threads, ThreadsOK, ServerOK, RemoveClient
  <1>5. OwnConnection'
    BY DEF OwnConnection, HasSocket, Peer, File, ServerOK, KernelOK, ThreadsOK, Threads, Connections, RemoveClient
  <1>6. UNCHANGED <<phase, sent, nread, rst, up, down, backlog, fdtab, room, log>>
    BY DEF RemoveClient
  <1>7. PeersOK' /\ KernelOK' /\ HistoryOK' /\ Connections'
    BY <1>6 DEF PeersOK, KernelOK, HistoryOK, Connections
  <1> QED BY <1>1, <1>2, <1>3, <1>4, <1>5, <1>6, <1>7

-----------------------------------------------------------------------------
(* Type correctness and the use of descriptors.                            *)

\* Every step keeps the invariant.
LEMMA IInvStep == IInv /\ [Next]_vars => IInv'
  <1> SUFFICES ASSUME IInv, [Next]_vars PROVE IInv'
    OBVIOUS
  <1>1. ASSUME NEW c \in Clients, ClientStep(c) PROVE IInv'
    BY <1>1, ConnectStep, SendNameStep, SendLineStep, ReceiveStep, ExitStep DEF ClientStep
  <1>2. ASSUME MainStep PROVE IInv'
    BY <1>2, AcceptStep, AcceptErrorStep, AddClientStep DEF MainStep
  <1>3. ASSUME NEW p \in Ptrs, HandlerStep(p) PROVE IInv'
    BY <1>3, RecvNameStep, RecvDataStep, RecvEndStep, RecvErrorStep, SendLockStep,
       SendSkipStep, SendWriteStep, SendFailStep, SendUnlockStep, LogOpenStep,
       LogCloseStep, CloseSockStep, RemoveClientStep DEF HandlerStep
  <1>4. ASSUME UNCHANGED vars PROVE IInv'
    <2>1. UNCHANGED <<phase, sent, nread, rst, up, down, backlog, fdtab, live, sockfd,
                      cid, clients, mutex, newCli, acceptErrors, collided, pc, buf,
                      msg, slot, logfd, room, log>>
      BY <1>4 DEF vars
    <2> QED BY <2>1 DEF IInv, TypeOK, PeersOK, KernelOK, ServerOK, ThreadsOK, HistoryOK,
                       LogsChat, Threads, Connections, OwnConnection, HasSocket, Peer, File
  <1> QED BY <1>1, <1>2, <1>3, <1>4 DEF Next

\* The invariant holds in every reachable state.
LEMMA InvariantIInv == Spec => []IInv
  BY InitIInv, IInvStep, PTL DEF Spec

\* Every variable of the server, its threads, its clients and the kernel keeps
\* its type, and no empty message is ever handled.
THEOREM TypeCorrect == Spec => []TypeOK
  BY InvariantIInv, PTL DEF IInv

\* From accept to close(cli->sockfd) the descriptor of a thread is its own
\* connection, and that of an open log its own log, however many threads come
\* and go.
THEOREM DescriptorsOwned == Spec => []OwnConnection
  BY InvariantIInv, PTL DEF IInv

-----------------------------------------------------------------------------
(* The order of the conversation.                                          *)

\* The thread inside send_msg is the one that holds the mutex, and what it
\* sends is the newest entry of the room.
Locked == \A p \in Ptrs : Sending(p) <=> mutex = p

Newest == \A p \in Ptrs : Sending(p) => msg[p] = Len(room) /\ Len(room) > 0

OrderInv == Locked /\ Newest /\ RoomOrder

\* Nothing has been sent in the beginning.
LEMMA InitOrder == Init => OrderInv
  <1> SUFFICES ASSUME Init PROVE OrderInv
    OBVIOUS
  <1>1. /\ \A p \in Ptrs : pc[p] = "idle" /\ mutex # p
        /\ \A c \in Clients : down[c] = <<>>
    BY ChatAssumption DEF Init
  <1> QED BY <1>1 DEF OrderInv, Locked, Newest, RoomOrder, Sending

\* What is neither a broadcast nor its end leaves the order alone.
LEMMA OutsideSend ==
  ASSUME OrderInv, UNCHANGED <<room, down, mutex, msg>>,
         \A p \in Ptrs : Sending(p)' <=> Sending(p)
  PROVE  OrderInv'
  BY DEF OrderInv, Locked, Newest, RoomOrder

\* Client processes do not write to the streams the server fills.
LEMMA ClientOrder == ASSUME IInv, OrderInv, NEW c \in Clients, ClientStep(c) PROVE OrderInv'
  BY OutsideSend DEF ClientStep, Connect, SendName, SendLine, Receive, Exit, Sending

\* main does not broadcast.
LEMMA MainOrder == ASSUME IInv, OrderInv, MainStep PROVE OrderInv'
  <1>1. \A p \in Ptrs : Sending(p)' <=> Sending(p)
    BY DEF MainStep, Accept, AcceptError, AddClient, Sending, IInv, TypeOK, ThreadsOK, Threads
  <1> QED BY <1>1, OutsideSend DEF MainStep, Accept, AcceptError, AddClient

\* A new entry is later than all that was sent.
LEMMA SendLockOrder == ASSUME IInv, OrderInv, NEW p \in Ptrs, SendLock(p) PROVE OrderInv'
  <1> USE DEF SendLock
  <1>1. room \in Seq(Entry) /\ down \in [Clients -> Seq(Nat)]
    BY DEF IInv, TypeOK, HistoryOK, PeersOK
  <1>2. Len(room') = Len(room) + 1 /\ Len(room) \in Nat
    BY <1>1
  <1>3. Locked' /\ Newest'
    <2>1. \A q \in Ptrs : ~Sending(q)
      BY ChatAssumption DEF OrderInv, Locked, CanLock
    <2>2. \A q \in Ptrs : Sending(q)' <=> q = p
      BY <2>1 DEF Sending, IInv, TypeOK, ThreadsOK
    <2>3. msg'[p] = Len(room) + 1
      BY DEF IInv, TypeOK, ThreadsOK
    <2> QED BY <1>2, <2>2, <2>3 DEF Locked, Newest
  <1>4. RoomOrder'
    BY <1>1, <1>2 DEF OrderInv, RoomOrder
  <1> QED BY <1>3, <1>4 DEF OrderInv

\* What is written is the newest entry: nothing sent is later.
LEMMA SendWriteOrder == ASSUME IInv, OrderInv, NEW p \in Ptrs, SendWrite(p) PROVE OrderInv'
  <1>1. room \in Seq(Entry) /\ down \in [Clients -> Seq(Nat)] /\ Len(room) \in Nat
    BY DEF IInv, TypeOK, HistoryOK, PeersOK
  <1>2. msg[p] = Len(room)
    BY DEF OrderInv, Newest, Sending, SendWrite
  <1>3. Locked' /\ Newest'
    BY DEF OrderInv, Locked, Newest, Sending, SendWrite
  <1>4. RoomOrder'
    <2>1. CASE UNCHANGED down
      BY <2>1 DEF OrderInv, RoomOrder, SendWrite
    <2>2. ASSUME NEW c \in Clients, down' = [down EXCEPT ![c] = Append(@, msg[p])]
          PROVE  RoomOrder'
      <3>1. /\ DOMAIN down'[c] = 1..(Len(down[c]) + 1)
            /\ \A i \in DOMAIN down[c] : down'[c][i] = down[c][i]
            /\ down'[c][Len(down[c]) + 1] = Len(room)
        BY <1>1, <1>2, <2>2
      <3>2. DOMAIN down[c] = 1..Len(down[c]) /\ Len(down[c]) \in Nat
        BY <1>1
      <3>3. \A i \in DOMAIN down'[c] : /\ down'[c][i] <= Len(room)
                                       /\ \A j \in 1..i : down'[c][j] <= down'[c][i]
        <4>1. \A i \in 1..Len(down[c]) :
                /\ down[c][i] \in Nat /\ down[c][i] <= Len(room)
                /\ \A j \in 1..i : down[c][j] <= down[c][i]
          BY <1>1, <3>2 DEF OrderInv, RoomOrder
        <4>2. TAKE i \in DOMAIN down'[c]
        <4>3. CASE i \in 1..Len(down[c])
          <5>1. \A j \in 1..i : j \in DOMAIN down[c]
            BY <3>2, <4>3
          <5> QED BY <3>1, <3>2, <4>1, <4>3, <5>1
        <4>4. CASE i = Len(down[c]) + 1
          <5>1. down'[c][i] = Len(room)
            BY <3>1, <4>4
          <5>2. ASSUME NEW j \in 1..i PROVE down'[c][j] <= Len(room)
            <6>1. CASE j = i
              BY <1>1, <5>1, <6>1
            <6>2. CASE j # i
              <7>1. j \in 1..Len(down[c])
                BY <3>2, <4>4, <6>2
              <7> QED BY <3>1, <3>2, <4>1, <7>1
            <6> QED BY <6>1, <6>2
          <5> QED BY <1>1, <5>1, <5>2
        <4> QED BY <3>1, <3>2, <4>2, <4>3, <4>4
      <3>4. \A d \in Clients \ {c} : down'[d] = down[d]
        BY <1>1, <2>2
      <3>5. room' = room
        BY DEF SendWrite
      <3> QED BY <3>3, <3>4, <3>5 DEF OrderInv, RoomOrder
    <2> QED BY <2>1, <2>2 DEF SendWrite
  <1> QED BY <1>3, <1>4 DEF OrderInv

\* The end of a broadcast sends nothing.
LEMMA SendUnlockOrder == ASSUME IInv, OrderInv, NEW p \in Ptrs, SendUnlock(p) PROVE OrderInv'
  <1>1. Sending(p)
    BY DEF SendUnlock, Sending
  <1>2. \A q \in Ptrs : ~Sending(q)'
    <2>1. \A q \in Ptrs \ {p} : ~Sending(q)
      BY <1>1 DEF OrderInv, Locked
    <2> QED BY <2>1, AfterSendIn DEF SendUnlock, Sending, IInv, TypeOK, ThreadsOK
  <1> QED BY <1>2, ChatAssumption DEF OrderInv, Locked, Newest, RoomOrder, SendUnlock

\* The steps of a thread keep the order.
LEMMA HandlerOrder == ASSUME IInv, OrderInv, NEW p \in Ptrs, HandlerStep(p) PROVE OrderInv'
  <1>1. CASE RecvName(p)
    <2>1. \A q \in Ptrs : Sending(q)' <=> Sending(q)
      BY <1>1 DEF RecvName, Sending, IInv, TypeOK, ThreadsOK
    <2> QED BY <1>1, <2>1, OutsideSend DEF RecvName
  <1>2. CASE RecvData(p)
    <2>1. \A q \in Ptrs : Sending(q)' <=> Sending(q)
      BY <1>2 DEF RecvData, Sending, IInv, TypeOK, ThreadsOK
    <2> QED BY <1>2, <2>1, OutsideSend DEF RecvData
  <1>3. CASE RecvEnd(p)
    <2>1. \A q \in Ptrs : Sending(q)' <=> Sending(q)
      BY <1>3 DEF RecvEnd, Sending, IInv, TypeOK, ThreadsOK
    <2> QED BY <1>3, <2>1, OutsideSend DEF RecvEnd
  <1>4. CASE RecvError(p)
    <2>1. \A q \in Ptrs : Sending(q)' <=> Sending(q)
      BY <1>4 DEF RecvError, Sending, IInv, TypeOK, ThreadsOK
    <2> QED BY <1>4, <2>1, OutsideSend DEF RecvError
  <1>5. CASE SendSkip(p)
    <2>1. \A q \in Ptrs : Sending(q)' <=> Sending(q)
      BY <1>5 DEF SendSkip, Sending, IInv, TypeOK, ThreadsOK
    <2> QED BY <1>5, <2>1, OutsideSend DEF SendSkip
  <1>6. CASE LogOpen(p)
    <2>1. \A q \in Ptrs : Sending(q)' <=> Sending(q)
      BY <1>6 DEF LogOpen, Sending, IInv, TypeOK, ThreadsOK
    <2> QED BY <1>6, <2>1, OutsideSend DEF LogOpen
  <1>7. CASE LogClose(p)
    <2>1. \A q \in Ptrs : Sending(q)' <=> Sending(q)
      BY <1>7 DEF LogClose, Sending, IInv, TypeOK, ThreadsOK
    <2> QED BY <1>7, <2>1, OutsideSend DEF LogClose
  <1>8. CASE CloseSock(p)
    <2>1. \A q \in Ptrs : Sending(q)' <=> Sending(q)
      BY <1>8 DEF CloseSock, Sending, IInv, TypeOK, ThreadsOK
    <2> QED BY <1>8, <2>1, OutsideSend DEF CloseSock
  <1>9. CASE RemoveClient(p)
    <2>1. \A q \in Ptrs : Sending(q)' <=> Sending(q)
      BY <1>9 DEF RemoveClient, Sending, IInv, TypeOK, ThreadsOK
    <2> QED BY <1>9, <2>1, OutsideSend DEF RemoveClient
  <1>10. CASE SendFail(p)
    <2>1. \A q \in Ptrs : Sending(q)' <=> Sending(q)
      BY <1>10 DEF SendFail, Sending, IInv, TypeOK, ThreadsOK
    <2> QED BY <1>10, <2>1, OutsideSend DEF SendFail
  <1> QED BY <1>1, <1>2, <1>3, <1>4, <1>5, <1>6, <1>7, <1>8, <1>9, <1>10,
       SendLockOrder, SendWriteOrder, SendUnlockOrder DEF HandlerStep

\* Every step keeps the order.
LEMMA OrderStep == IInv /\ OrderInv /\ [Next]_vars => OrderInv'
  <1> SUFFICES ASSUME IInv, OrderInv, [Next]_vars PROVE OrderInv'
    OBVIOUS
  <1>1. CASE UNCHANGED vars
    BY <1>1, OutsideSend DEF vars, Sending
  <1> QED BY <1>1, ClientOrder, MainOrder, HandlerOrder DEF Next

\* The order invariant holds in every reachable state.
LEMMA InvariantOrder == Spec => []OrderInv
  BY InitOrder, OrderStep, InvariantIInv, PTL DEF Spec

\* Whatever the threads do at once, each client sees the broadcasts in the one
\* order of the room: clients_mutex is held over the whole loop of send_msg.
THEOREM ConversationOrdered == Spec => []RoomOrder
  BY InvariantOrder, PTL DEF OrderInv

-----------------------------------------------------------------------------
(* Refinement.                                                             *)

\* The server starts as an empty room.
LEMMA RoomInit == Init => Room!Init
  BY DEF Init, Room!Init, Online

\* A step that changes none of the three is a step of the room.
LEMMA RoomStutter ==
  ASSUME UNCHANGED <<room, down>>, \A c \in Clients : Online(c)' <=> Online(c)
  PROVE  UNCHANGED Room!roomVars
  BY DEF Room!roomVars

\* A client process enters, leaves or does nothing the room can see.
LEMMA RoomClient ==
  ASSUME IInv, NEW c \in Clients, ClientStep(c)
  PROVE  [Room!Next]_(Room!roomVars)
  <1>1. CASE Connect(c)
    <2>1. /\ ~Online(c) /\ Online(c)'
          /\ \A d \in Clients \ {c} : Online(d)' <=> Online(d)
      BY <1>1 DEF Connect, Online, IInv, TypeOK, PeersOK
    <2>2. Room!Enter(c)
      BY <1>1, <2>1 DEF Room!Enter, Connect
    <2> QED BY <2>2 DEF Room!Next
  <1>2. CASE Exit(c)
    <2>1. /\ Online(c) /\ ~Online(c)'
          /\ \A d \in Clients \ {c} : Online(d)' <=> Online(d)
      BY <1>2 DEF Exit, Online, IInv, TypeOK, PeersOK
    <2>2. Room!Leave(c)
      BY <1>2, <2>1 DEF Room!Leave, Exit
    <2> QED BY <2>2 DEF Room!Next
  <1>3. CASE SendName(c)
    BY <1>3, RoomStutter DEF SendName, Online, IInv, TypeOK, PeersOK
  <1>4. CASE SendLine(c) \/ Receive(c)
    BY <1>4, RoomStutter DEF SendLine, Receive, Online
  <1> QED BY <1>1, <1>2, <1>3, <1>4 DEF ClientStep

\* Nothing main does can be seen in the room.
LEMMA RoomMain == ASSUME MainStep PROVE [Room!Next]_(Room!roomVars)
  BY RoomStutter DEF MainStep, Accept, AcceptError, AddClient, Online

\* send_msg publishes when it takes the mutex.
LEMMA RoomSend ==
  ASSUME IInv, IInv', NEW p \in Ptrs, SendLock(p)
  PROVE  [Room!Next]_(Room!roomVars)
  <1>1. room \in Seq(Entry) /\ room' \in Seq(Entry)
    BY DEF IInv, TypeOK, HistoryOK
  <1> DEFINE e == [kind |-> buf[p].kind, text |-> buf[p].text, from |-> Peer(p)]
  <1>2. room' = Append(room, e)
    BY DEF SendLock
  <1>3. Len(room') = Len(room) + 1 /\ Len(room) \in Nat
    BY <1>1, <1>2
  <1>4. SubSeq(room', 1, Len(room)) = room
    <2>1. \A i \in 1..Len(room) : room'[i] = room[i]
      BY <1>1, <1>2
    <2>2. \A i \in 1..Len(room) : room'[i] \in Entry
      BY <1>1, <1>3
    <2>3. /\ SubSeq(room', 1, Len(room)) \in Seq(Entry)
          /\ Len(SubSeq(room', 1, Len(room))) = Len(room)
          /\ \A i \in 1..Len(room) : SubSeq(room', 1, Len(room))[i] = room'[i]
      BY <1>3, <2>2, SubSeqProperties
    <2> QED BY <1>1, <2>1, <2>3, SeqEqual
  <1>5. room'[Len(room')] \in Entry
    BY <1>1, <1>3
  <1>6. UNCHANGED down /\ \A c \in Clients : Online(c)' <=> Online(c)
    BY DEF SendLock, Online
  <1> QED BY <1>3, <1>4, <1>5, <1>6 DEF Room!Next, Room!Publish

\* A write delivers the newest entry to one client, or nothing.
LEMMA RoomWrite ==
  ASSUME IInv, OrderInv, NEW p \in Ptrs, SendWrite(p)
  PROVE  [Room!Next]_(Room!roomVars)
  <1>1. msg[p] = Len(room) /\ room # <<>>
    BY DEF OrderInv, Newest, Sending, SendWrite
  <1>2. UNCHANGED room /\ \A c \in Clients : Online(c)' <=> Online(c)
    BY DEF SendWrite, Online
  <1>3. CASE UNCHANGED down
    BY <1>2, <1>3, RoomStutter
  <1>4. ASSUME NEW c \in Clients, Online(c), down' = [down EXCEPT ![c] = Append(@, msg[p])]
        PROVE  Room!Deliver(c)
    BY <1>1, <1>2, <1>4 DEF Room!Deliver
  <1> QED BY <1>3, <1>4 DEF Room!Next, SendWrite

\* A step of a thread is a step of the room or not seen there.
LEMMA RoomHandler ==
  ASSUME IInv, IInv', OrderInv, NEW p \in Ptrs, HandlerStep(p)
  PROVE  [Room!Next]_(Room!roomVars)
  <1>1. CASE RecvName(p) \/ RecvData(p) \/ RecvEnd(p) \/ RecvError(p)
    BY <1>1, RoomStutter DEF RecvName, RecvData, RecvEnd, RecvError, Online
  <1>2. CASE SendSkip(p) \/ SendFail(p) \/ SendUnlock(p)
    BY <1>2, RoomStutter DEF SendSkip, SendFail, SendUnlock, Online
  <1>3. CASE LogOpen(p) \/ LogClose(p) \/ CloseSock(p) \/ RemoveClient(p)
    BY <1>3, RoomStutter DEF LogOpen, LogClose, CloseSock, RemoveClient, Online
  <1> QED BY <1>1, <1>2, <1>3, RoomSend, RoomWrite DEF HandlerStep

\* Every step of the server is a step of the room or not seen there.
LEMMA RoomStep == IInv /\ IInv' /\ OrderInv /\ [Next]_vars => [Room!Next]_(Room!roomVars)
  <1> SUFFICES ASSUME IInv, IInv', OrderInv, [Next]_vars
               PROVE  [Room!Next]_(Room!roomVars)
    OBVIOUS
  <1>1. CASE UNCHANGED vars
    BY <1>1, RoomStutter DEF vars, Online
  <1> QED BY <1>1, RoomClient, RoomMain, RoomHandler DEF Next

\* The chat server implements the room: one conversation, of which every
\* client is sent entries while they are the newest and only while it is
\* online.
THEOREM ImplementsRoom == Spec => RoomSpec
  BY RoomInit, RoomStep, InvariantIInv, InvariantOrder, PTL DEF Spec, RoomSpec, Room!Spec

-----------------------------------------------------------------------------
(* The table.                                                              *)

\* While every cid was fresh when it was drawn, live cids differ, and every
\* entry is a live CLIENT that add_client has seen, in one slot only.
TableInv ==
  ~collided =>
    /\ \A p, q \in live : p # q => cid[p] # cid[q]
    /\ \A i \in Slots : clients[i] # NULL => clients[i] \in live \ {newCli}
    /\ \A i, j \in Slots : i # j /\ clients[i] # NULL => clients[i] # clients[j]

\* The table is empty in the beginning.
LEMMA InitTable == Init => TableInv
  BY DEF Init, TableInv

\* A new CLIENT has a cid no live one has, or collided becomes true.
LEMMA NewClientTable ==
  ASSUME IInv, TableInv, newCli = NULL, UNCHANGED clients,
         NEW p \in Ptrs, NEW f, NEW id, NewClient(p, f, id)
  PROVE  TableInv'
  <1> SUFFICES ASSUME ~collided' PROVE TableInv'
    BY DEF TableInv
  <1>1. ~collided /\ \A q \in live : cid[q] # id
    BY Zenon DEF NewClient
  <1>2. live \subseteq Ptrs /\ cid \in [Ptrs -> Nat] /\ p \notin live
    BY DEF IInv, TypeOK, ServerOK, NewClient
  <1>3. /\ cid'[p] = id /\ live' = live \cup {p} /\ newCli' = p
        /\ \A q \in live : cid'[q] = cid[q]
    BY <1>2 DEF NewClient
  <1> QED BY <1>1, <1>2, <1>3 DEF TableInv

\* add_client puts a live CLIENT into one slot.
LEMMA AddClientTable == ASSUME IInv, TableInv, AddClient PROVE TableInv'
  <1> SUFFICES ASSUME ~collided PROVE TableInv'
    BY DEF TableInv, AddClient
  <1>1. newCli \in live /\ newCli # NULL /\ newCli' = NULL /\ NULL \notin live
    BY ChatAssumption DEF AddClient, IInv, TypeOK, ServerOK, Threads
  <1>2. UNCHANGED <<live, cid, collided>>
    BY DEF AddClient
  <1>3. \A i \in Slots : clients'[i] = IF FirstFreeSlot(i) THEN newCli ELSE clients[i]
    BY DEF AddClient
  <1>4. \A i, j \in Slots : FirstFreeSlot(i) /\ FirstFreeSlot(j) => i = j
    BY ChatAssumption DEF FirstFreeSlot, Slots
  <1>5. \A i \in Slots : clients'[i] # NULL => clients'[i] \in live \ {newCli'}
    BY <1>1, <1>3 DEF TableInv
  <1>6. \A i, j \in Slots : i # j /\ clients'[i] # NULL => clients'[i] # clients'[j]
    BY <1>1, <1>3, <1>4 DEF TableInv
  <1> QED BY <1>2, <1>5, <1>6 DEF TableInv

\* With distinct cids remove_client finds the entry of the thread that frees.
LEMMA RemoveClientTable == ASSUME IInv, TableInv, NEW p \in Ptrs, RemoveClient(p) PROVE TableInv'
  <1> SUFFICES ASSUME ~collided PROVE TableInv'
    BY DEF TableInv, RemoveClient
  <1>1. p \in live
    BY DEF IInv, Threads, RemoveClient
  <1>2. \A i \in Slots : clients'[i] = IF FirstWithCid(i, cid[p]) THEN NULL ELSE clients[i]
    BY DEF RemoveClient
  <1>3. \A i \in Slots : clients[i] = p => FirstWithCid(i, cid[p])
    <2>1. SUFFICES ASSUME NEW i \in Slots, clients[i] = p PROVE FirstWithCid(i, cid[p])
      OBVIOUS
    <2>2. \A j \in 1..(i - 1) : j \in Slots /\ j # i
      BY ChatAssumption DEF Slots
    <2>3. p # NULL
      BY ChatAssumption
    <2>4. \A j \in 1..(i - 1) : clients[j] # NULL => cid[clients[j]] # cid[p]
      BY <1>1, <2>1, <2>2, <2>3 DEF TableInv
    <2> QED BY <2>1, <2>3, <2>4 DEF FirstWithCid
  <1>4. UNCHANGED <<cid, newCli, collided>> /\ live' = live \ {p}
    BY DEF RemoveClient
  <1> QED BY <1>2, <1>3, <1>4 DEF TableInv

\* Every step keeps the table clean.
LEMMA TableStep == IInv /\ TableInv /\ [Next]_vars => TableInv'
  <1> SUFFICES ASSUME IInv, TableInv, [Next]_vars PROVE TableInv'
    OBVIOUS
  <1>1. CASE Accept
    BY <1>1, NewClientTable DEF Accept
  <1>2. CASE AcceptError
    BY <1>2, NewClientTable DEF AcceptError
  <1>3. ASSUME UNCHANGED <<live, cid, collided, clients, newCli>> PROVE TableInv'
    BY <1>3 DEF TableInv
  <1>4. ASSUME NEW c \in Clients, ClientStep(c) PROVE TableInv'
    BY <1>3, <1>4 DEF ClientStep, Connect, SendName, SendLine, Receive, Exit
  <1>5. ASSUME NEW p \in Ptrs, HandlerStep(p), ~RemoveClient(p) PROVE TableInv'
    <2>1. CASE RecvName(p) \/ RecvData(p) \/ RecvEnd(p) \/ RecvError(p)
      BY <1>3, <2>1 DEF RecvName, RecvData, RecvEnd, RecvError
    <2>2. CASE SendLock(p) \/ SendSkip(p) \/ SendWrite(p) \/ SendFail(p) \/ SendUnlock(p)
      BY <1>3, <2>2 DEF SendLock, SendSkip, SendWrite, SendFail, SendUnlock
    <2>3. CASE LogOpen(p) \/ LogClose(p) \/ CloseSock(p)
      BY <1>3, <2>3 DEF LogOpen, LogClose, CloseSock
    <2> QED BY <1>5, <2>1, <2>2, <2>3 DEF HandlerStep
  <1>6. CASE UNCHANGED vars
    BY <1>3, <1>6 DEF vars
  <1> QED BY <1>1, <1>2, <1>4, <1>5, <1>6, AddClientTable, RemoveClientTable DEF Next, MainStep

\* remove_client never leaves a pointer to a freed CLIENT in the table as long
\* as no cid was drawn that a live client had.
THEOREM TableClean == Spec => []NoDangling
  <1>1. TableInv => NoDangling
    BY DEF TableInv, NoDangling
  <1> QED BY <1>1, InitTable, TableStep, InvariantIInv, PTL DEF Spec

-----------------------------------------------------------------------------
(* Who is written to.                                                      *)

\* While a thread has its socket, what is behind the descriptor stays.
LEMMA PeerKept ==
  ASSUME IInv, [Next]_vars, NEW p \in Ptrs, HasSocket(p), HasSocket(p)'
  PROVE  Peer(p)' = Peer(p) /\ sockfd'[p] = sockfd[p]
  <1> USE ChatAssumption DEF IInv, TypeOK
  <1>1. /\ p \in live /\ sockfd[p] \in Fds /\ pc[p] # "remove"
        /\ fdtab[sockfd[p]] = Peer(p) /\ Peer(p) \in Clients
    BY DEF HasSocket, ServerOK, OwnConnection, Peer, File
  <1>2. ASSUME sockfd'[p] = sockfd[p], fdtab'[sockfd[p]] = fdtab[sockfd[p]]
        PROVE  Peer(p)' = Peer(p) /\ sockfd'[p] = sockfd[p]
    BY <1>2 DEF Peer, File
  <1>3. CASE UNCHANGED <<fdtab, sockfd>>
    BY <1>2, <1>3
  <1>4. ASSUME NEW c \in Clients, ClientStep(c)
        PROVE  Peer(p)' = Peer(p) /\ sockfd'[p] = sockfd[p]
    BY <1>3, <1>4 DEF ClientStep, Connect, SendName, SendLine, Receive, Exit
  <1>5. CASE Accept
    <2>1. PICK f \in Fds, q \in Ptrs, id \in CIDs :
            f \in FreeFds /\ fdtab' = [fdtab EXCEPT ![f] = Head(backlog)] /\ NewClient(q, f, id)
      BY <1>5 DEF Accept, IsLowestFree
    <2>2. f # sockfd[p] /\ q # p
      BY <1>1, <2>1 DEF FreeFds, NewClient
    <2> QED BY <1>1, <1>2, <2>1, <2>2 DEF NewClient, ServerOK, KernelOK
  <1>6. CASE AcceptError
    BY <1>1, <1>2, <1>6 DEF AcceptError, NewClient, ServerOK
  <1>7. CASE AddClient
    BY <1>3, <1>7 DEF AddClient
  <1>8. ASSUME NEW q \in Ptrs, HandlerStep(q)
        PROVE  Peer(p)' = Peer(p) /\ sockfd'[p] = sockfd[p]
    <2>1. CASE LogOpen(q)
      <3>1. PICK f \in Fds : f \in FreeFds /\ fdtab' = [fdtab EXCEPT ![f] = LOG]
        BY <2>1 DEF LogOpen, IsLowestFree
      <3>2. f # sockfd[p]
        BY <1>1, <3>1 DEF FreeFds
      <3> QED BY <1>1, <1>2, <2>1, <3>1, <3>2 DEF LogOpen, KernelOK
    <2>2. CASE LogClose(q)
      <3>1. logfd[q] # sockfd[p]
        BY <1>1, <2>2 DEF LogClose, OwnConnection, File
      <3> QED BY <1>1, <1>2, <2>2, <3>1 DEF LogClose, KernelOK
    <2>3. CASE CloseSock(q)
      <3>1. q # p
        BY <2>3 DEF CloseSock, HasSocket, ThreadsOK
      <3>2. sockfd[q] # sockfd[p]
        BY <1>1, <2>3, <3>1 DEF OwnConnection, HasSocket, CloseSock, Threads, BadFd, Fds
      <3> QED BY <1>1, <1>2, <2>3, <3>2 DEF CloseSock
    <2>4. CASE RecvName(q) \/ RecvData(q) \/ RecvEnd(q) \/ RecvError(q) \/ RemoveClient(q)
      BY <1>3, <2>4 DEF RecvName, RecvData, RecvEnd, RecvError, RemoveClient
    <2>5. CASE SendLock(q) \/ SendSkip(q) \/ SendWrite(q) \/ SendFail(q) \/ SendUnlock(q)
      BY <1>3, <2>5 DEF SendLock, SendSkip, SendWrite, SendFail, SendUnlock
    <2> QED BY <1>8, <2>1, <2>2, <2>3, <2>4, <2>5 DEF HandlerStep
  <1>9. CASE UNCHANGED vars
    BY <1>3, <1>9 DEF vars
  <1> QED BY <1>4, <1>5, <1>6, <1>7, <1>8, <1>9 DEF Next, MainStep

\* Only NewClient writes a CLIENT, and never one that is live.
LEMMA ClientKept ==
  ASSUME IInv, [Next]_vars, NEW p \in Ptrs, p \in live
  PROVE  sockfd'[p] = sockfd[p] /\ cid'[p] = cid[p]
  <1>1. CASE UNCHANGED <<sockfd, cid>>
    BY <1>1
  <1>2. ASSUME NEW q \in Ptrs, NEW f, NEW id, NewClient(q, f, id)
        PROVE  sockfd'[p] = sockfd[p] /\ cid'[p] = cid[p]
    BY <1>2 DEF NewClient, IInv, TypeOK, ServerOK
  <1>3. CASE MainStep
    BY <1>1, <1>2, <1>3 DEF MainStep, Accept, AcceptError, AddClient
  <1>4. ASSUME NEW c \in Clients, ClientStep(c) PROVE UNCHANGED <<sockfd, cid>>
    BY <1>4 DEF ClientStep, Connect, SendName, SendLine, Receive, Exit
  <1>5. ASSUME NEW q \in Ptrs, HandlerStep(q) PROVE UNCHANGED <<sockfd, cid>>
    <2>1. CASE RecvName(q) \/ RecvData(q) \/ RecvEnd(q) \/ RecvError(q)
      BY <2>1 DEF RecvName, RecvData, RecvEnd, RecvError
    <2>2. CASE SendLock(q) \/ SendSkip(q) \/ SendWrite(q) \/ SendFail(q) \/ SendUnlock(q)
      BY <2>2 DEF SendLock, SendSkip, SendWrite, SendFail, SendUnlock
    <2>3. CASE LogOpen(q) \/ LogClose(q) \/ CloseSock(q) \/ RemoveClient(q)
      BY <2>3 DEF LogOpen, LogClose, CloseSock, RemoveClient
    <2> QED BY <1>5, <2>1, <2>2, <2>3 DEF HandlerStep
  <1>6. CASE UNCHANGED vars
    BY <1>6 DEF vars
  <1> QED BY <1>1, <1>3, <1>4, <1>5, <1>6 DEF Next

\* A broadcasting thread keeps what is behind its descriptor.
LEMMA SenderKept ==
  ASSUME IInv, IInv', [Next]_vars, NEW p \in Ptrs, Sending(p), Sending(p)'
  PROVE  Peer(p)' = Peer(p)
  <1>1. p \in live /\ p \in live' /\ pc[p] # "remove" /\ pc'[p] # "remove"
    BY DEF IInv, Threads, Sending
  <1>2. CASE sockfd[p] = BadFd
    BY <1>1, <1>2, ClientKept DEF Peer, File, Fds, BadFd
  <1>3. CASE sockfd[p] # BadFd
    BY <1>1, <1>3, ClientKept, PeerKept DEF HasSocket
  <1> QED BY <1>2, <1>3

\* The entry that is being broadcast is the sender's own.
Speaker == \A p \in Ptrs : Sending(p) => room[msg[p]].from = Peer(p)

\* A broadcast that goes on, or starts, is the entry of its sender.
LEMMA SpeakerStep ==
  ASSUME IInv, IInv', OrderInv, OrderInv', Speaker, [Next]_vars PROVE Speaker'
  <1> SUFFICES ASSUME NEW p \in Ptrs, Sending(p)' PROVE room'[msg'[p]].from = Peer(p)'
    BY DEF Speaker
  <1>1. CASE SendLock(p)
    <2>1. room \in Seq(Entry)
      BY DEF IInv, TypeOK, HistoryOK
    <2>2. msg'[p] = Len(room) + 1
      BY <1>1 DEF SendLock, IInv, TypeOK, ThreadsOK
    <2>3. room'[Len(room) + 1].from = Peer(p)
      BY <1>1, <2>1 DEF SendLock
    <2>4. Peer(p)' = Peer(p)
      BY <1>1 DEF SendLock, Peer, File
    <2> QED BY <2>2, <2>3, <2>4
  <1>2. CASE ~SendLock(p)
    <2>1. Sending(p) /\ msg'[p] = msg[p] /\ room' = room
      <3>1. ASSUME UNCHANGED <<msg, room, mutex>> PROVE Sending(p) /\ msg'[p] = msg[p] /\ room' = room
        BY <3>1 DEF OrderInv, Locked
      <3>2. ASSUME NEW c \in Clients, ClientStep(c) PROVE UNCHANGED <<msg, room, mutex>>
        BY <3>2 DEF ClientStep, Connect, SendName, SendLine, Receive, Exit
      <3>3. CASE MainStep
        BY <3>1, <3>3 DEF MainStep, Accept, AcceptError, AddClient
      <3>4. ASSUME NEW q \in Ptrs, HandlerStep(q), ~SendLock(q), ~SendUnlock(q)
            PROVE  UNCHANGED <<msg, room, mutex>>
        <4>1. CASE RecvName(q) \/ RecvData(q) \/ RecvEnd(q) \/ RecvError(q)
          BY <4>1 DEF RecvName, RecvData, RecvEnd, RecvError
        <4>2. CASE SendSkip(q) \/ SendWrite(q) \/ SendFail(q)
          BY <4>2 DEF SendSkip, SendWrite, SendFail
        <4>3. CASE LogOpen(q) \/ LogClose(q) \/ CloseSock(q) \/ RemoveClient(q)
          BY <4>3 DEF LogOpen, LogClose, CloseSock, RemoveClient
        <4> QED BY <3>4, <4>1, <4>2, <4>3 DEF HandlerStep
      <3>5. ASSUME NEW q \in Ptrs, SendLock(q) PROVE FALSE
        <4>1. mutex' = q
          BY <3>5 DEF SendLock
        <4> QED BY <1>2, <3>5, <4>1 DEF OrderInv, Locked
      <3>6. ASSUME NEW q \in Ptrs, SendUnlock(q) PROVE FALSE
        <4>1. mutex' = NULL
          BY <3>6 DEF SendUnlock
        <4> QED BY <4>1, ChatAssumption DEF OrderInv, Locked
      <3>7. CASE UNCHANGED vars
        BY <3>1, <3>7 DEF vars
      <3> QED BY <3>1, <3>2, <3>3, <3>4, <3>5, <3>6, <3>7 DEF Next
    <2> QED BY <2>1, SenderKept DEF Speaker
  <1> QED BY <1>1, <1>2

\* In every reachable state a broadcast is the entry of its sender.
LEMMA InvariantSpeaker == Spec => []Speaker
  <1>1. Init => Speaker
    BY DEF Init, Speaker, Sending
  <1> QED BY <1>1, SpeakerStep, InvariantIInv, InvariantOrder, PTL DEF Spec

\* A step that shows a client its own broadcast goes through an entry whose
\* thread has closed the descriptor or freed the CLIENT.
LEMMA EchoStep ==
  ASSUME IInv, OrderInv, Speaker, [Next]_vars, NEW c \in Clients,
         down'[c] # down[c], room[msg[mutex]].from = c
  PROVE  clients[slot[mutex]] \notin live \/ pc[clients[slot[mutex]]] = "remove"
  <1>1. PICK p \in Ptrs : SendWrite(p)
    <2>1. ~UNCHANGED down
      OBVIOUS
    <2>2. ASSUME NEW d \in Clients, ClientStep(d) PROVE UNCHANGED down
      BY <2>2 DEF ClientStep, Connect, SendName, SendLine, Receive, Exit
    <2>3. CASE MainStep
      BY <2>1, <2>3 DEF MainStep, Accept, AcceptError, AddClient
    <2>4. ASSUME NEW q \in Ptrs, HandlerStep(q), ~SendWrite(q) PROVE UNCHANGED down
      <3>1. CASE RecvName(q) \/ RecvData(q) \/ RecvEnd(q) \/ RecvError(q)
        BY <3>1 DEF RecvName, RecvData, RecvEnd, RecvError
      <3>2. CASE SendLock(q) \/ SendSkip(q) \/ SendFail(q) \/ SendUnlock(q)
        BY <3>2 DEF SendLock, SendSkip, SendFail, SendUnlock
      <3>3. CASE LogOpen(q) \/ LogClose(q) \/ CloseSock(q) \/ RemoveClient(q)
        BY <3>3 DEF LogOpen, LogClose, CloseSock, RemoveClient
      <3> QED BY <2>4, <3>1, <3>2, <3>3 DEF HandlerStep
    <2> QED BY <2>1, <2>2, <2>3, <2>4 DEF Next, vars
  <1> DEFINE q == clients[slot[p]]
  <1>2. mutex = p /\ Peer(p) = c
    BY <1>1 DEF SendWrite, OrderInv, Locked, Speaker, Sending
  <1>3. /\ q # NULL /\ cid[q] # cid[p]
        /\ File(sockfd[q]) = c
    <2>1. q # NULL /\ cid[q] # cid[p]
      BY <1>1 DEF SendWrite, Skips
    <2>2. PICK d \in Clients : d = File(sockfd[q]) /\ down' = [down EXCEPT ![d] = Append(@, msg[p])]
      BY <1>1 DEF SendWrite
    <2>3. d = c
      BY <2>2 DEF IInv, TypeOK, PeersOK
    <2> QED BY <2>1, <2>2, <2>3
  <1>4. ASSUME q \in live, pc[q] # "remove" PROVE FALSE
    <2>1. q \in Ptrs /\ q # p /\ p \in live /\ pc[p] # "remove"
      BY <1>1, <1>3, <1>4 DEF SendWrite, IInv, TypeOK, ServerOK, Threads
    <2>2. HasSocket(q) /\ HasSocket(p)
      BY <1>2, <1>3, <1>4, <2>1, ChatAssumption DEF HasSocket, Peer, File, BadFd, Fds
    <2> QED BY <1>2, <1>3, <2>1, <2>2 DEF IInv, OwnConnection, Peer
  <1> QED BY <1>2, <1>4

\* Nobody hears itself, except in the window between close(cli->sockfd) and
\* remove_client of another thread, or through a pointer left by equal cids.
THEOREM NoEcho == Spec => EchoOnlyViaStaleEntry
  <1> DEFINE Echo == \A c \in Clients :
        down'[c] # down[c] /\ room[msg[mutex]].from = c =>
          LET q == clients[slot[mutex]] IN q \notin live \/ pc[q] = "remove"
  <1>1. IInv /\ OrderInv /\ Speaker /\ [Next]_vars => [Echo]_vars
    BY EchoStep
  <1> QED BY <1>1, InvariantIInv, InvariantOrder, InvariantSpeaker, PTL DEF Spec, EchoOnlyViaStaleEntry

-----------------------------------------------------------------------------
(* A broadcast reaches every slot it passes.                               *)

\* A thread that is not sending has its loop variable at the first slot.
ReachInv == BroadcastReaches /\ \A p \in Ptrs : ~Sending(p) => slot[p] = 1

\* What one client was sent is never taken back.
LEMMA DownGrows ==
  ASSUME IInv, [Next]_vars, NEW c \in Clients
  PROVE  ToSet(down[c]) \subseteq ToSet(down'[c])
  <1>1. CASE UNCHANGED down
    BY <1>1
  <1>2. ASSUME NEW p \in Ptrs, SendWrite(p) PROVE ToSet(down[c]) \subseteq ToSet(down'[c])
    <2>1. ASSUME NEW d \in Clients, down' = [down EXCEPT ![d] = Append(@, msg[p])]
          PROVE  ToSet(down[c]) \subseteq ToSet(down'[c])
      <3>1. down \in [Clients -> Seq(Nat)]
        BY DEF IInv, TypeOK, PeersOK
      <3>2. CASE c # d
        BY <2>1, <3>1, <3>2
      <3>3. CASE c = d
        <4>1. down'[c] = Append(down[c], msg[p])
          BY <2>1, <3>1, <3>3
        <4>2. /\ DOMAIN down[c] = 1..Len(down[c]) /\ DOMAIN down'[c] = 1..(Len(down[c]) + 1)
              /\ \A i \in 1..Len(down[c]) : down'[c][i] = down[c][i]
              /\ Len(down[c]) \in Nat
          BY <3>1, <4>1
        <4> QED BY <4>2 DEF ToSet
      <3> QED BY <3>2, <3>3
    <2> QED BY <1>1, <1>2, <2>1 DEF SendWrite
  <1>3. ASSUME NEW d \in Clients, ClientStep(d) PROVE UNCHANGED down
    BY <1>3 DEF ClientStep, Connect, SendName, SendLine, Receive, Exit
  <1>4. CASE MainStep
    BY <1>1, <1>4 DEF MainStep, Accept, AcceptError, AddClient
  <1>5. ASSUME NEW q \in Ptrs, HandlerStep(q), ~SendWrite(q) PROVE UNCHANGED down
    <2>1. CASE RecvName(q) \/ RecvData(q) \/ RecvEnd(q) \/ RecvError(q)
      BY <2>1 DEF RecvName, RecvData, RecvEnd, RecvError
    <2>2. CASE SendLock(q) \/ SendSkip(q) \/ SendFail(q) \/ SendUnlock(q)
      BY <2>2 DEF SendLock, SendSkip, SendFail, SendUnlock
    <2>3. CASE LogOpen(q) \/ LogClose(q) \/ CloseSock(q) \/ RemoveClient(q)
      BY <2>3 DEF LogOpen, LogClose, CloseSock, RemoveClient
    <2> QED BY <1>5, <2>1, <2>2, <2>3 DEF HandlerStep
  <1> QED BY <1>1, <1>2, <1>3, <1>4, <1>5 DEF Next, vars

\* Nobody who was offline is behind the socket of a thread a step later.
LEMMA OnlineBefore ==
  ASSUME IInv, [Next]_vars, NEW c \in Clients, phase[c] # "idle", Online(c)'
  PROVE  Online(c)
  <1>1. phase \in [Clients -> {"idle", "connected", "chatting", "exited"}]
    BY DEF IInv, TypeOK, PeersOK
  <1>2. CASE UNCHANGED phase
    BY <1>2 DEF Online
  <1>3. ASSUME NEW d \in Clients, ClientStep(d) PROVE Online(c)
    BY <1>1, <1>3 DEF ClientStep, Connect, SendName, SendLine, Receive, Exit, Online
  <1>4. CASE MainStep
    BY <1>2, <1>4 DEF MainStep, Accept, AcceptError, AddClient
  <1>5. ASSUME NEW q \in Ptrs, HandlerStep(q) PROVE UNCHANGED phase
    <2>1. CASE RecvName(q) \/ RecvData(q) \/ RecvEnd(q) \/ RecvError(q)
      BY <2>1 DEF RecvName, RecvData, RecvEnd, RecvError
    <2>2. CASE SendLock(q) \/ SendSkip(q) \/ SendWrite(q) \/ SendFail(q) \/ SendUnlock(q)
      BY <2>2 DEF SendLock, SendSkip, SendWrite, SendFail, SendUnlock
    <2>3. CASE LogOpen(q) \/ LogClose(q) \/ CloseSock(q) \/ RemoveClient(q)
      BY <2>3 DEF LogOpen, LogClose, CloseSock, RemoveClient
    <2> QED BY <1>5, <2>1, <2>2, <2>3 DEF HandlerStep
  <1> QED BY <1>2, <1>3, <1>4, <1>5 DEF Next, vars

\* While p broadcasts and goes on broadcasting, what the table says of a slot
\* was already so.
Due(p, i) == LET q == clients[i] IN
  /\ q \notin {NULL, newCli} /\ HasSocket(q) /\ cid[q] # cid[p] /\ Online(Peer(q))

\* While a broadcast goes on, nobody changes the table or the message.
LEMMA TableHeld ==
  ASSUME IInv, IInv', OrderInv, OrderInv', [Next]_vars, NEW p \in Ptrs,
         Sending(p), Sending(p)'
  PROVE  UNCHANGED <<clients, msg>>
  <1>1. mutex = p /\ mutex' = p /\ p # NULL
    BY ChatAssumption DEF OrderInv, Locked
  <1>2. ASSUME NEW d \in Clients, ClientStep(d) PROVE UNCHANGED <<clients, msg>>
    BY <1>2 DEF ClientStep, Connect, SendName, SendLine, Receive, Exit
  <1>3. CASE MainStep
    BY <1>1, <1>3 DEF MainStep, Accept, AcceptError, AddClient
  <1>4. ASSUME NEW q \in Ptrs, HandlerStep(q) PROVE UNCHANGED <<clients, msg>>
    <2>1. CASE RecvName(q) \/ RecvData(q) \/ RecvEnd(q) \/ RecvError(q)
      BY <2>1 DEF RecvName, RecvData, RecvEnd, RecvError
    <2>2. CASE SendSkip(q) \/ SendWrite(q) \/ SendFail(q)
      BY <2>2 DEF SendSkip, SendWrite, SendFail
    <2>3. CASE LogOpen(q) \/ LogClose(q) \/ CloseSock(q)
      BY <2>3 DEF LogOpen, LogClose, CloseSock
    <2>4. ~RemoveClient(q) /\ ~SendLock(q) /\ ~SendUnlock(q)
      BY <1>1 DEF RemoveClient, SendLock, CanLock, SendUnlock
    <2> QED BY <1>4, <2>1, <2>2, <2>3, <2>4 DEF HandlerStep
  <1> QED BY <1>2, <1>3, <1>4 DEF Next, vars

\* While the mutex is held only main makes a socket, for a CLIENT not in the table.
LEMMA HasSocketBefore ==
  ASSUME IInv, OrderInv, [Next]_vars, NEW p \in Ptrs, mutex # NULL,
         NEW q \in Ptrs, HasSocket(q)', q # newCli'
  PROVE  HasSocket(q) /\ q # newCli
  <1> USE DEF IInv, TypeOK
  <1>1. CASE UNCHANGED <<live, sockfd, pc, newCli>>
    BY <1>1 DEF HasSocket
  <1>2. ASSUME NEW d \in Clients, ClientStep(d) PROVE UNCHANGED <<live, sockfd, pc, newCli>>
    BY <1>2 DEF ClientStep, Connect, SendName, SendLine, Receive, Exit
  <1>3. CASE Accept \/ AcceptError
    <2>1. PICK r \in Ptrs : \E f, id : NewClient(r, f, id)
      BY <1>3 DEF Accept, AcceptError
    <2>2. newCli = NULL /\ UNCHANGED pc
      BY <1>3 DEF Accept, AcceptError
    <2>3. q # r /\ live' = live \cup {r} /\ sockfd'[q] = sockfd[q]
      BY <2>1 DEF NewClient, ServerOK
    <2> QED BY <2>2, <2>3, ChatAssumption DEF HasSocket
  <1>4. ~AddClient
    BY DEF AddClient
  <1>5. ASSUME NEW r \in Ptrs, HandlerStep(r)
        PROVE  /\ UNCHANGED <<sockfd, newCli>>
               /\ live' \subseteq live
               /\ pc[q] = "remove" => pc'[q] = "remove" \/ q \notin live'
    <2>1. CASE RecvName(r) \/ RecvData(r) \/ RecvEnd(r) \/ RecvError(r)
      BY <2>1 DEF RecvName, RecvData, RecvEnd, RecvError, ThreadsOK
    <2>2. CASE SendLock(r) \/ SendSkip(r) \/ SendWrite(r) \/ SendFail(r) \/ SendUnlock(r)
      BY <2>2 DEF SendLock, SendSkip, SendWrite, SendFail, SendUnlock, ThreadsOK
    <2>3. CASE LogOpen(r) \/ LogClose(r) \/ CloseSock(r)
      BY <2>3 DEF LogOpen, LogClose, CloseSock, ThreadsOK
    <2>4. CASE RemoveClient(r)
      BY <2>4 DEF RemoveClient
    <2> QED BY <1>5, <2>1, <2>2, <2>3, <2>4 DEF HandlerStep
  <1>6. ASSUME NEW r \in Ptrs, HandlerStep(r) PROVE HasSocket(q) /\ q # newCli
    BY <1>5, <1>6 DEF HasSocket
  <1> QED BY <1>1, <1>2, <1>3, <1>4, <1>6 DEF Next, MainStep, vars

\* A client that is due in a slot after a step was due there before it.
LEMMA DueBefore ==
  ASSUME IInv, IInv', OrderInv, OrderInv', [Next]_vars, NEW p \in Ptrs,
         Sending(p), Sending(p)', NEW i \in Slots, Due(p, i)'
  PROVE  Due(p, i) /\ Peer(clients[i])' = Peer(clients[i])
  <1>1. /\ clients' = clients /\ clients[i] # NULL /\ clients[i] \in Ptrs
        /\ HasSocket(clients[i])'
    BY TableHeld DEF Due, IInv, TypeOK, ServerOK
  <1>2. PICK q \in Ptrs : q = clients[i]
    BY <1>1
  <1>3. /\ q # newCli' /\ cid'[q] # cid'[p]
        /\ HasSocket(q)' /\ phase'[File(sockfd[q])'] \in {"connected", "chatting"}
    <2>1. /\ q = clients'[i] /\ cid'[clients'[i]] # cid'[p] /\ clients'[i] # newCli'
          /\ HasSocket(clients[i])' /\ Online(Peer(clients[i]))'
      BY <1>1, <1>2 DEF Due
    <2> QED BY <2>1 DEF HasSocket, Online, Peer, File
  <1>4. HasSocket(q) /\ q # newCli
    BY <1>3, HasSocketBefore, ChatAssumption DEF OrderInv, Locked
  <1>5. Peer(q)' = Peer(q) /\ sockfd'[q] = sockfd[q]
    BY <1>3, <1>4, PeerKept
  <1>6. cid'[q] = cid[q] /\ cid'[p] = cid[p]
    BY <1>4, ClientKept DEF HasSocket, Sending, IInv, Threads
  <1>7. PICK c \in Clients : c = Peer(q)
    BY <1>4 DEF IInv, OwnConnection
  <1>8. phase[c] # "idle"
    <2>1. sockfd[q] \in Fds /\ fdtab[sockfd[q]] = c
      BY <1>4, <1>7 DEF HasSocket, Peer, File, IInv, TypeOK, ServerOK
    <2> QED BY <2>1 DEF IInv, Connections
  <1>9. Online(c)
    <2>1. Online(c)'
      BY <1>3, <1>5, <1>7 DEF Online, Peer
    <2> QED BY <1>8, <2>1, OnlineBefore
  <1>10. Due(p, i)
    BY <1>1, <1>2, <1>3, <1>4, <1>6, <1>7, <1>9 DEF Due
  <1>11. Peer(clients[i])' = Peer(clients[i])
    BY <1>1, <1>2, <1>5 DEF Peer, File
  <1> QED BY <1>10, <1>11

\* Reach keeps the invariant.
LEMMA ReachStep ==
  ASSUME IInv, IInv', OrderInv, OrderInv', ReachInv, [Next]_vars PROVE ReachInv'
  <1> USE DEF IInv, TypeOK
  <1>1. \A p \in Ptrs : ~Sending(p)' => slot'[p] = 1
    <2>1. SUFFICES ASSUME NEW p \in Ptrs, ~Sending(p)' PROVE slot'[p] = 1
      OBVIOUS
    <2>2. ASSUME UNCHANGED slot, ~Sending(p) PROVE slot'[p] = 1
      BY <2>2 DEF ReachInv
    <2>3. ASSUME NEW c \in Clients, ClientStep(c) PROVE UNCHANGED <<slot, pc>>
      BY <2>3 DEF ClientStep, Connect, SendName, SendLine, Receive, Exit
    <2>4. CASE MainStep
      <3>1. UNCHANGED <<slot, mutex>>
        BY <2>4 DEF MainStep, Accept, AcceptError, AddClient
      <3> QED BY <2>1, <2>2, <3>1 DEF OrderInv, Locked
    <2>5. ASSUME NEW q \in Ptrs, HandlerStep(q) PROVE slot'[p] = 1
      <3>1. CASE RecvName(q) \/ RecvData(q) \/ RecvEnd(q) \/ RecvError(q)
        <4>1. UNCHANGED <<slot, mutex>>
          BY <3>1 DEF RecvName, RecvData, RecvEnd, RecvError
        <4> QED BY <2>1, <2>2, <4>1 DEF OrderInv, Locked
      <3>2. CASE SendLock(q) \/ SendFail(q)
        <4>1. UNCHANGED slot /\ mutex' = q /\ ~Sending(p)
          BY <2>1, <3>2, ChatAssumption
             DEF SendLock, SendFail, OrderInv, Locked, Sending, CanLock
        <4> QED BY <2>2, <4>1
      <3>3. CASE SendSkip(q) \/ SendWrite(q)
        <4>1. q # p
          BY <2>1, <3>3 DEF SendSkip, SendWrite, Sending
        <4>2. ~Sending(p) /\ slot'[p] = slot[p]
          BY <2>1, <3>3, <4>1 DEF SendSkip, SendWrite, Sending, ThreadsOK
        <4> QED BY <4>2 DEF ReachInv
      <3>4. CASE SendUnlock(q)
        <4>1. slot' = [slot EXCEPT ![q] = 1] /\ Sending(q)
          BY <3>4 DEF SendUnlock, Sending
        <4>2. CASE p = q
          BY <4>1, <4>2 DEF ThreadsOK
        <4>3. CASE p # q
          <5>1. ~Sending(p)
            BY <4>1, <4>3 DEF OrderInv, Locked
          <5> QED BY <4>1, <4>3, <5>1 DEF ReachInv, ThreadsOK
        <4> QED BY <4>2, <4>3
      <3>5. CASE LogOpen(q) \/ LogClose(q) \/ CloseSock(q) \/ RemoveClient(q)
        <4>1. UNCHANGED <<slot, mutex>>
          BY <3>5 DEF LogOpen, LogClose, CloseSock, RemoveClient
        <4> QED BY <2>1, <2>2, <4>1 DEF OrderInv, Locked
      <3> QED BY <2>5, <3>1, <3>2, <3>3, <3>4, <3>5 DEF HandlerStep
    <2>6. CASE UNCHANGED vars
      BY <2>1, <2>2, <2>6 DEF vars, Sending
    <2>7. CASE \E c \in Clients : ClientStep(c)
      BY <2>1, <2>2, <2>3, <2>7 DEF Sending
    <2> QED BY <2>4, <2>5, <2>6, <2>7 DEF Next
  <1>2. ASSUME NEW p \in Ptrs, Sending(p)', NEW i \in 1..(slot'[p] - 1), Due(p, i)'
        PROVE  msg'[p] \in ToSet(down'[Peer(clients[i])'])
    <2>1. CASE ~Sending(p)
      <3>1. SendLock(p)
        <4>1. mutex # p /\ mutex' = p
          BY <1>2, <2>1 DEF OrderInv, Locked
        <4>2. ASSUME NEW c \in Clients, ClientStep(c) PROVE UNCHANGED mutex
          BY <4>2 DEF ClientStep, Connect, SendName, SendLine, Receive, Exit
        <4>3. CASE MainStep
          BY <4>1, <4>3 DEF MainStep, Accept, AcceptError, AddClient
        <4>4. ASSUME NEW q \in Ptrs, HandlerStep(q) PROVE SendLock(p)
          <5>1. CASE RecvName(q) \/ RecvData(q) \/ RecvEnd(q) \/ RecvError(q)
            BY <4>1, <5>1 DEF RecvName, RecvData, RecvEnd, RecvError
          <5>2. CASE SendSkip(q) \/ SendWrite(q) \/ SendFail(q)
            BY <4>1, <5>2 DEF SendSkip, SendWrite, SendFail
          <5>3. CASE LogOpen(q) \/ LogClose(q) \/ CloseSock(q) \/ RemoveClient(q)
            BY <4>1, <5>3 DEF LogOpen, LogClose, CloseSock, RemoveClient
          <5>4. CASE SendLock(q)
            BY <4>1, <5>4 DEF SendLock
          <5>5. CASE SendUnlock(q)
            BY <4>1, <5>5, ChatAssumption DEF SendUnlock
          <5> QED BY <4>4, <5>1, <5>2, <5>3, <5>4, <5>5 DEF HandlerStep
        <4> QED BY <4>1, <4>2, <4>3, <4>4 DEF Next, vars
      <3>2. slot'[p] = 1
        BY <2>1, <3>1 DEF SendLock, ReachInv
      <3> QED BY <1>2, <3>2
    <2>2. CASE Sending(p)
      <3>1. i \in Slots /\ slot'[p] \in 1..(MAX_CONNECTIONS + 1)
        BY <1>2, ChatAssumption DEF Slots, ThreadsOK
      <3>2. Due(p, i) /\ Peer(clients[i])' = Peer(clients[i]) /\ msg' = msg
        BY <1>2, <2>2, <3>1, DueBefore, TableHeld
      <3>3. PICK c \in Clients : c = Peer(clients[i])
        BY <3>1, <3>2 DEF Due, OwnConnection, ServerOK
      <3>4. CASE i < slot[p]
        <4>1. msg[p] \in ToSet(down[c])
          BY <1>2, <2>2, <3>1, <3>2, <3>3, <3>4 DEF ReachInv, BroadcastReaches, Due, ThreadsOK
        <4> QED BY <3>2, <3>3, <4>1, DownGrows
      <3>5. CASE i >= slot[p]
        <4>1. ASSUME UNCHANGED slot PROVE FALSE
          BY <1>2, <3>1, <3>5, <4>1 DEF ThreadsOK
        <4>2. SendSkip(p) \/ SendWrite(p)
          <5>1. ASSUME NEW d \in Clients, ClientStep(d) PROVE UNCHANGED slot
            BY <5>1 DEF ClientStep, Connect, SendName, SendLine, Receive, Exit
          <5>2. CASE MainStep
            BY <4>1, <5>2 DEF MainStep, Accept, AcceptError, AddClient
          <5>3. ASSUME NEW q \in Ptrs, HandlerStep(q) PROVE SendSkip(p) \/ SendWrite(p)
            <6>1. CASE RecvName(q) \/ RecvData(q) \/ RecvEnd(q) \/ RecvError(q)
              BY <4>1, <6>1 DEF RecvName, RecvData, RecvEnd, RecvError
            <6>2. CASE SendLock(q) \/ SendFail(q)
              BY <4>1, <6>2 DEF SendLock, SendFail
            <6>3. CASE LogOpen(q) \/ LogClose(q) \/ CloseSock(q) \/ RemoveClient(q)
              BY <4>1, <6>3 DEF LogOpen, LogClose, CloseSock, RemoveClient
            <6>4. CASE SendSkip(q) \/ SendWrite(q)
              <7>1. q = p
                BY <2>2, <6>4 DEF SendSkip, SendWrite, OrderInv, Locked, Sending
              <7> QED BY <6>4, <7>1
            <6>5. ~SendUnlock(q)
              <7>1. ASSUME SendUnlock(q) PROVE FALSE
                <8>1. mutex' = NULL
                  BY <7>1 DEF SendUnlock
                <8> QED BY <1>2, <8>1, ChatAssumption DEF OrderInv, Locked
              <7> QED BY <7>1
            <6> QED BY <5>3, <6>1, <6>2, <6>3, <6>4, <6>5 DEF HandlerStep
          <5> QED BY <4>1, <5>1, <5>2, <5>3 DEF Next, vars
        <4>3. i = slot[p] /\ slot[p] \in Nat
          <5>1. slot'[p] = slot[p] + 1
            BY <4>2 DEF SendSkip, SendWrite, ThreadsOK
          <5>2. slot[p] \in Nat
            BY DEF ThreadsOK
          <5> QED BY <1>2, <3>5, <5>1, <5>2
        <4>4. ~Skips(p, clients[i])
          BY <3>2 DEF Due, Skips
        <4>5. SendWrite(p)
          BY <4>2, <4>3, <4>4 DEF SendSkip
        <4>6. File(sockfd[clients[i]]) = c /\ Online(c) /\ c # LOG
          BY <3>2, <3>3, ChatAssumption DEF Due, Peer
        <4>7. down' = [down EXCEPT ![c] = Append(@, msg[p])]
          BY <4>3, <4>5, <4>6 DEF SendWrite, Online
        <4>8. msg[p] \in ToSet(down'[c])
          <5>1. down'[c] = Append(down[c], msg[p]) /\ down[c] \in Seq(Nat) /\ msg[p] \in Nat
            BY <4>7 DEF PeersOK, ThreadsOK
          <5>2. /\ Len(down[c]) + 1 \in DOMAIN down'[c]
                /\ down'[c][Len(down[c]) + 1] = msg[p]
            BY <5>1
          <5> QED BY <5>2 DEF ToSet
        <4> QED BY <3>2, <3>3, <4>8
      <3>6. slot[p] \in Int /\ i \in Int
        BY <3>1, ChatAssumption DEF Slots, ThreadsOK
      <3> QED BY <3>4, <3>5, <3>6
    <2> QED BY <2>1, <2>2
  <1>3. BroadcastReaches'
    BY <1>2 DEF BroadcastReaches, Due, Peer
  <1> QED BY <1>1, <1>3 DEF ReachInv

\* When the loop of send_msg has passed a slot, whoever is served through it,
\* has another cid and is still connected has been sent the message.
THEOREM LoopReaches == Spec => []BroadcastReaches
  <1>1. Init => ReachInv
    BY DEF Init, ReachInv, BroadcastReaches, Sending
  <1>2. ReachInv => BroadcastReaches
    BY DEF ReachInv
  <1> QED BY <1>1, <1>2, ReachStep, InvariantIInv, InvariantOrder, PTL DEF Spec

-----------------------------------------------------------------------------
(* The inductive invariant.  A line is in one of four places: the stream of *)
(* its client, the buffer of the thread, the room, the log.  The lines of a *)
(* client are ordered through all four, and how far the thread has come     *)
(* says which entries are there.                                            *)

\* The entries of c in the room.
Of(c) == {k \in DOMAIN room : room[k].from = c}

\* The thread p serves the connection of c.
Serves(p, c) == HasSocket(p) /\ Peer(p) = c

\* p has not broadcast the name of its client.
Greeting(p) == pc[p] \in {"idle", "name"} \/ (pc[p] = "lock" /\ buf[p].kind = "join")

\* p broadcasts, or has broadcast, that its client has left.
Leaving(p) == pc[p] = "close" \/ (Sending(p) /\ buf[p].kind = "left")

\* p has put a chat line into the room and not yet into logs.txt.
Pending(p) == (Sending(p) \/ pc[p] \in {"log", "logging"}) /\ buf[p].kind = "chat"

\* What waits in the stream of c: the name, its padding, then lines, in the
\* order they were typed.
Stream(c) ==
  /\ \A i, j \in DOMAIN up[c] : i < j => up[c][i] < up[c][j]
  /\ \A i \in DOMAIN up[c] : up[c][i] <= sent[c]
  /\ phase[c] \in {"idle", "connected"} => up[c] = <<>>

\* Line n was read from the stream of c: what still waits there is later.
Taken(c, n) == n <= sent[c] /\ \A i \in DOMAIN up[c] : up[c][i] > 0 => n < up[c][i]

\* Chat is made of lines; nothing else carries any.
Wording(kind, text) ==
  IF kind = "chat" THEN text # <<>> /\ \A i \in DOMAIN text : text[i] > 0
  ELSE Lines(text) = {}

\* The room holds what was read, and of c nothing before it was accepted; each
\* entry is in its place in the visit of c.
Spoken(c) ==
  /\ phase[c] = "idle" \/ c \in ToSet(backlog) => Of(c) = {}
  /\ \A k \in Of(c) :
       /\ Wording(room[k].kind, room[k].text)
       /\ \A n \in Lines(room[k].text) : Taken(c, n)
       /\ room[k].kind = "join" <=> \A j \in Of(c) : k <= j
  /\ \A j, k \in Of(c) : j < k =>
       /\ room[j].kind # "left"
       /\ \A n \in Lines(room[j].text), m \in Lines(room[k].text) : n < m

\* What p is about to broadcast for c was read after all that is in the room.
Fresh(p, c) ==
  /\ Wording(buf[p].kind, buf[p].text)
  /\ \A n \in Lines(buf[p].text) :
       Taken(c, n) /\ \A k \in Of(c) : \A m \in Lines(room[k].text) : m < n

\* The chat p has broadcast last is in its buffer and later than every record.
Latest(p, c) ==
  /\ \E k \in ChatOf(c) : room[k].text = buf[p].text /\ \A l \in ChatOf(c) : l <= k
  /\ \A i \in RecordsOf(c) : log[i].n < buf[p].text[1]

\* Where a thread is in the visit of its client.
Visit(p, c) ==
  /\ Greeting(p) <=> Of(c) = {}
  /\ ~Leaving(p) => \A k \in Of(c) : room[k].kind # "left"
  /\ pc[p] \notin {"idle", "name"} =>
       phase[c] \notin {"idle", "connected"} /\ \A i \in DOMAIN up[c] : up[c][i] >= 0
  /\ pc[p] = "lock" => Fresh(p, c)
  /\ Pending(p) => Latest(p, c)

Visits(c) == \A p \in Ptrs : Serves(p, c) => Visit(p, c)

\* The log of c: records of its chat in order, all but what is pending.
Journal(c) ==
  /\ \A i, j \in RecordsOf(c) : i < j => log[i].n < log[j].n
  /\ \A i \in RecordsOf(c) : \E k \in ChatOf(c) : log[i].n = room[k].text[1]
  /\ \A k \in ChatOf(c) : Recorded(c, k) \/
       \E p \in Ptrs : Serves(p, c) /\ Pending(p) /\ room[k].text = buf[p].text

History(c) == Stream(c) /\ Spoken(c) /\ Visits(c) /\ Journal(c)

HistoryInv == \A c \in Clients : History(c)

-----------------------------------------------------------------------------
(* Threads and their clients from one step to the next.                    *)

\* What a thread does not do itself leaves it where it is, save that main
\* starts it.
Still(q) == /\ buf'[q] = buf[q]
            /\ pc'[q] = pc[q] \/ (pc[q] = "idle" /\ pc'[q] = "name")

\* Every step is a step of one thread at most.
LEMMA OthersStill ==
  ASSUME IInv, [Next]_vars
  PROVE  (\A q \in Ptrs : Still(q)) \/ \E p \in Ptrs : HandlerStep(p)
  <1> USE DEF IInv, TypeOK, ThreadsOK
  <1>1. ASSUME NEW c \in Clients, ClientStep(c) PROVE \A q \in Ptrs : Still(q)
    BY <1>1 DEF ClientStep, Connect, SendName, SendLine, Receive, Exit, Still
  <1>2. CASE Accept \/ AcceptError
    BY <1>2 DEF Accept, AcceptError, Still
  <1>3. CASE AddClient
    <2>1. pc[newCli] = "idle"
      BY <1>3 DEF AddClient, Threads
    <2> QED BY <1>3, <2>1 DEF AddClient, Still
  <1>4. CASE UNCHANGED vars
    BY <1>4 DEF vars, Still
  <1> QED BY <1>1, <1>2, <1>3, <1>4 DEF Next, MainStep

\* A step of p moves no other thread.
LEMMA OneThread ==
  ASSUME IInv, NEW p \in Ptrs, HandlerStep(p), NEW q \in Ptrs, q # p
  PROVE  buf'[q] = buf[q] /\ pc'[q] = pc[q]
  <1> USE DEF IInv, TypeOK, ThreadsOK
  <1>1. CASE RecvName(p) \/ RecvEnd(p) \/ RecvError(p)
    BY <1>1 DEF RecvName, RecvEnd, RecvError
  <1>2. CASE RecvData(p)
    BY <1>2 DEF RecvData
  <1>3. CASE SendLock(p) \/ SendSkip(p) \/ SendWrite(p) \/ SendFail(p) \/ SendUnlock(p)
    BY <1>3 DEF SendLock, SendSkip, SendWrite, SendFail, SendUnlock
  <1>4. CASE LogOpen(p) \/ LogClose(p) \/ CloseSock(p) \/ RemoveClient(p)
    BY <1>4 DEF LogOpen, LogClose, CloseSock, RemoveClient
  <1> QED BY <1>1, <1>2, <1>3, <1>4 DEF HandlerStep

\* A thread keeps its client until it has closed the socket.
LEMMA ServesAfter ==
  ASSUME IInv, [Next]_vars, NEW p \in Ptrs, NEW c \in Clients, Serves(p, c), pc'[p] # "remove"
  PROVE  Serves(p, c)'
  <1>1. p \in live /\ pc[p] # "remove" /\ sockfd[p] # BadFd
    BY DEF Serves, HasSocket
  <1>2. p \in live'
    <2>1. CASE UNCHANGED live
      BY <1>1, <2>1
    <2>2. ASSUME NEW d \in Clients, ClientStep(d) PROVE UNCHANGED live
      BY <2>2 DEF ClientStep, Connect, SendName, SendLine, Receive, Exit
    <2>3. CASE MainStep
      BY <1>1, <2>3 DEF MainStep, Accept, AcceptError, AddClient, NewClient
    <2>4. ASSUME NEW q \in Ptrs, HandlerStep(q) PROVE p \in live'
      <3>1. CASE RecvName(q) \/ RecvData(q) \/ RecvEnd(q) \/ RecvError(q)
        BY <1>1, <3>1 DEF RecvName, RecvData, RecvEnd, RecvError
      <3>2. CASE SendLock(q) \/ SendSkip(q) \/ SendWrite(q) \/ SendFail(q) \/ SendUnlock(q)
        BY <1>1, <3>2 DEF SendLock, SendSkip, SendWrite, SendFail, SendUnlock
      <3>3. CASE LogOpen(q) \/ LogClose(q) \/ CloseSock(q)
        BY <1>1, <3>3 DEF LogOpen, LogClose, CloseSock
      <3>4. CASE RemoveClient(q)
        BY <1>1, <3>4 DEF RemoveClient
      <3> QED BY <2>4, <3>1, <3>2, <3>3, <3>4 DEF HandlerStep
    <2> QED BY <2>1, <2>2, <2>3, <2>4 DEF Next, vars
  <1>3. HasSocket(p)'
    BY <1>1, <1>2, ClientKept DEF HasSocket
  <1> QED BY <1>3, PeerKept DEF Serves

\* Who is served was served before, or has just been accepted.
LEMMA ServesBefore ==
  ASSUME IInv, IInv', [Next]_vars, NEW p \in Ptrs, NEW c \in Clients, Serves(p, c)'
  PROVE  Serves(p, c) \/ (Accept /\ pc'[p] = "idle" /\ c \in ToSet(backlog))
  <1>1. p \in live' /\ pc'[p] # "remove" /\ sockfd'[p] # BadFd
    BY DEF Serves, HasSocket
  <1>2. CASE p \in live
    <2>1. sockfd[p] # BadFd
      BY <1>1, <1>2, ClientKept
    <2>2. pc[p] # "remove"
      <3>1. SUFFICES ASSUME pc[p] = "remove" PROVE FALSE
        OBVIOUS
      <3>2. PICK q \in Ptrs : HandlerStep(q) /\ q = p
        BY <1>1, <3>1, OthersStill, OneThread DEF Still
      <3>3. RemoveClient(p)
        BY <3>1, <3>2 DEF HandlerStep, RecvName, RecvData, RecvEnd, RecvError, SendLock,
           SendSkip, SendWrite, SendFail, SendUnlock, LogOpen, LogClose, CloseSock
      <3> QED BY <1>1, <3>3 DEF RemoveClient
    <2>3. HasSocket(p) /\ HasSocket(p)'
      BY <1>1, <1>2, <2>1, <2>2 DEF HasSocket
    <2> QED BY <2>3, PeerKept DEF Serves
  <1>3. CASE p \notin live
    <2>1. pc[p] = "idle"
      BY <1>3 DEF IInv, Threads
    <2>2. ASSUME NEW d \in Clients, ClientStep(d) PROVE UNCHANGED live
      BY <2>2 DEF ClientStep, Connect, SendName, SendLine, Receive, Exit
    <2>3. ASSUME NEW q \in Ptrs, HandlerStep(q) PROVE live' \subseteq live
      <3>1. CASE RecvName(q) \/ RecvData(q) \/ RecvEnd(q) \/ RecvError(q)
        BY <3>1 DEF RecvName, RecvData, RecvEnd, RecvError
      <3>2. CASE SendLock(q) \/ SendSkip(q) \/ SendWrite(q) \/ SendFail(q) \/ SendUnlock(q)
        BY <3>2 DEF SendLock, SendSkip, SendWrite, SendFail, SendUnlock
      <3>3. CASE LogOpen(q) \/ LogClose(q) \/ CloseSock(q) \/ RemoveClient(q)
        BY <3>3 DEF LogOpen, LogClose, CloseSock, RemoveClient
      <3> QED BY <2>3, <3>1, <3>2, <3>3 DEF HandlerStep
    <2>4. CASE AddClient \/ UNCHANGED vars
      BY <1>1, <1>3, <2>4 DEF AddClient, vars
    <2>5. CASE AcceptError
      BY <1>1, <1>3, <2>5 DEF AcceptError, NewClient, IInv, TypeOK, ServerOK
    <2>6. CASE Accept
      <3>1. PICK f \in Fds, q \in Ptrs, id \in CIDs :
              fdtab' = [fdtab EXCEPT ![f] = Head(backlog)] /\ NewClient(q, f, id)
        BY <2>6 DEF Accept
      <3>2. q = p /\ sockfd'[p] = f
        BY <1>1, <1>3, <3>1 DEF NewClient, IInv, TypeOK, ServerOK
      <3>3. Peer(p)' = Head(backlog)
        BY <3>1, <3>2 DEF Peer, File, IInv, TypeOK, KernelOK
      <3>4. Head(backlog) = backlog[1] /\ 1 \in DOMAIN backlog
        BY <2>6 DEF Accept, IInv, TypeOK, KernelOK
      <3>5. c \in ToSet(backlog)
        BY <3>3, <3>4 DEF Serves, ToSet
      <3>6. pc'[p] = "idle"
        BY <2>1, <2>6 DEF Accept
      <3> QED BY <2>6, <3>5, <3>6
    <2> QED BY <1>1, <1>3, <2>2, <2>3, <2>4, <2>5, <2>6 DEF Next, MainStep
  <1> QED BY <1>2, <1>3

\* A client has one thread.
LEMMA OneServer ==
  ASSUME IInv, NEW p \in Ptrs, NEW q \in Ptrs, NEW c \in Clients, Serves(p, c), Serves(q, c)
  PROVE  p = q
  BY DEF Serves, IInv, OwnConnection

-----------------------------------------------------------------------------
(* The frame: what a step does to other clients than the one it is about.  *)

\* p has gone on in a way the visit of its client allows for.
Onward(p) ==
  /\ Greeting(p)' <=> Greeting(p)
  /\ Leaving(p) => Leaving(p)'
  /\ pc'[p] \notin {"idle", "name"} => pc[p] \notin {"idle", "name"}
  /\ pc'[p] = "lock" => pc[p] = "lock" /\ buf'[p] = buf[p]
  /\ Pending(p)' <=> Pending(p)
  /\ Pending(p) => buf'[p] = buf[p]

\* p, with nothing to log, has closed its socket.
Closed(p) == ~Pending(p) /\ pc'[p] = "remove"

\* What the threads of c do leaves it alone.
Carried(c) ==
  /\ \A p \in Ptrs : Serves(p, c)' =>
       \/ Of(c) = {} /\ pc'[p] \in {"idle", "name"}
       \/ Serves(p, c) /\ Onward(p)
  /\ \A p \in Ptrs : Serves(p, c) /\ Pending(p) => Serves(p, c)' /\ Onward(p)

\* The room and the log hold the same of c as before.
SameRoom(c) == Of(c)' = Of(c) /\ \A k \in Of(c) : room'[k] = room[k]
SameLog(c)  == RecordsOf(c)' = RecordsOf(c) /\ \A i \in RecordsOf(c) : log'[i] = log[i]

\* The client and its stream are the same; it may have connected, or gone, or
\* been accepted.
SamePeer(c) ==
  /\ up'[c] = up[c] /\ sent'[c] = sent[c]
  /\ phase'[c] \in {"idle", "connected"} => phase[c] \in {"idle", "connected"}
  /\ phase'[c] = "idle" => phase[c] = "idle"
  /\ c \in ToSet(backlog') => phase[c] = "idle" \/ c \in ToSet(backlog)

\* A thread that rests goes on.
LEMMA StillOnward == ASSUME NEW q \in Ptrs, Still(q) PROVE Onward(q)
  BY DEF Still, Onward, Greeting, Leaving, Pending, Sending

\* If every thread of c rests or goes on, c is left alone.
LEMMA CarriedIf ==
  ASSUME IInv, IInv', [Next]_vars, NEW c \in Clients, History(c),
         \A q \in Ptrs : Serves(q, c) => Onward(q) \/ Closed(q)
  PROVE  Carried(c)
  <1>1. ASSUME NEW p \in Ptrs, Serves(p, c)'
        PROVE  \/ Of(c) = {} /\ pc'[p] \in {"idle", "name"}
               \/ Serves(p, c) /\ Onward(p)
    <2>1. pc'[p] # "remove"
      BY <1>1 DEF Serves, HasSocket
    <2> QED BY <1>1, <2>1, ServesBefore DEF History, Spoken, Closed
  <1>2. ASSUME NEW p \in Ptrs, Serves(p, c), Pending(p) PROVE Serves(p, c)' /\ Onward(p)
    <2>1. Onward(p)
      BY <1>2 DEF Closed
    <2>2. pc'[p] # "remove"
      BY <1>2, <2>1 DEF Onward, Pending, Sending
    <2> QED BY <1>2, <2>1, <2>2, ServesAfter
  <1> QED BY <1>1, <1>2 DEF Carried

\* The chat of c is the same.
LEMMA SameChat ==
  ASSUME NEW c \in Clients, SameRoom(c)
  PROVE  ChatOf(c)' = ChatOf(c) /\ \A k \in ChatOf(c) : k \in Of(c) /\ room'[k] = room[k]
  BY DEF SameRoom, Of, ChatOf

\* What was taken from the stream of c still is.
LEMMA SameTaken ==
  ASSUME NEW c \in Clients, up'[c] = up[c], sent'[c] = sent[c], NEW n, Taken(c, n)
  PROVE  Taken(c, n)'
  BY DEF Taken

\* A thread that goes on is in the visit of c where it should be.
LEMMA CarriedVisits ==
  ASSUME NEW c \in Clients, History(c), SamePeer(c), SameRoom(c), SameLog(c), Carried(c)
  PROVE  Visits(c)'
  <1> SUFFICES ASSUME NEW p \in Ptrs, Serves(p, c)' PROVE Visit(p, c)'
    BY DEF Visits
  <1>1. CASE Of(c) = {} /\ pc'[p] \in {"idle", "name"}
    BY <1>1 DEF Visit, Greeting, Leaving, Pending, Sending, SameRoom
  <1>2. CASE Serves(p, c) /\ Onward(p)
    <2>1. Visit(p, c)
      BY <1>2 DEF History, Visits
    <2>2. Greeting(p)' <=> Of(c)' = {}
      BY <1>2, <2>1 DEF Visit, Onward, SameRoom
    <2>3. ~Leaving(p)' => \A k \in Of(c)' : room'[k].kind # "left"
      BY <1>2, <2>1 DEF Visit, Onward, SameRoom
    <2>4. pc'[p] \notin {"idle", "name"} =>
            phase'[c] \notin {"idle", "connected"} /\ \A i \in DOMAIN up'[c] : up'[c][i] >= 0
      BY <1>2, <2>1 DEF Visit, Onward, SamePeer
    <2>5. ASSUME pc'[p] = "lock" PROVE Fresh(p, c)'
      <3>1. Fresh(p, c) /\ buf'[p] = buf[p]
        BY <1>2, <2>1, <2>5 DEF Visit, Onward
      <3> QED BY <3>1 DEF Fresh, Taken, SamePeer, SameRoom
    <2>6. ASSUME Pending(p)' PROVE Latest(p, c)'
      <3>1. Latest(p, c) /\ buf'[p] = buf[p]
        BY <1>2, <2>1, <2>6 DEF Visit, Onward
      <3> QED BY <3>1, SameChat DEF Latest, SameLog
    <2> QED BY <2>2, <2>3, <2>4, <2>5, <2>6 DEF Visit
  <1> QED BY <1>1, <1>2 DEF Carried

\* So is the log of c.
LEMMA CarriedJournal ==
  ASSUME NEW c \in Clients, History(c), SameRoom(c), SameLog(c), Carried(c)
  PROVE  Journal(c)'
  <1>1. Journal(c) /\ ChatOf(c)' = ChatOf(c) /\ \A k \in ChatOf(c) : room'[k] = room[k]
    BY SameChat DEF History
  <1>2. \A k \in ChatOf(c) : Recorded(c, k) => Recorded(c, k)'
    BY <1>1 DEF Recorded, SameLog
  <1>3. ASSUME NEW k \in ChatOf(c)
        PROVE  Recorded(c, k)' \/ \E p \in Ptrs :
                 Serves(p, c)' /\ Pending(p)' /\ room'[k].text = buf'[p].text
    <2>1. CASE Recorded(c, k)
      BY <1>2, <2>1
    <2>2. ASSUME NEW p \in Ptrs, Serves(p, c), Pending(p), room[k].text = buf[p].text
          PROVE  Serves(p, c)' /\ Pending(p)' /\ room'[k].text = buf'[p].text
      BY <1>1, <2>2 DEF Carried, Onward
    <2> QED BY <1>1, <2>1, <2>2 DEF Journal
  <1> QED BY <1>1, <1>3 DEF Journal, SameLog

\* A step that leaves c alone keeps its history.
LEMMA Frame ==
  ASSUME NEW c \in Clients, History(c), SamePeer(c), SameRoom(c), SameLog(c), Carried(c)
  PROVE  History(c)'
  <1>1. Stream(c)'
    BY DEF History, Stream, SamePeer
  <1>2. Spoken(c)'
    <2>1. \A n : Taken(c, n) => Taken(c, n)'
      BY SameTaken DEF SamePeer
    <2>2. Spoken(c) /\ Of(c)' = Of(c) /\ \A k \in Of(c) : room'[k] = room[k]
      BY DEF History, SameRoom
    <2>3. phase'[c] = "idle" \/ c \in ToSet(backlog') => Of(c)' = {}
      BY <2>2 DEF Spoken, SamePeer
    <2> QED BY <2>1, <2>2, <2>3 DEF Spoken
  <1> QED BY <1>1, <1>2, CarriedVisits, CarriedJournal DEF History

-----------------------------------------------------------------------------
(* Steps that are about no line.                                           *)

\* The phases and the queue move in no way that concerns the room.
SamePeers == UNCHANGED <<up, sent>> /\ \A c \in Clients : SamePeer(c)

\* The frame for every client at once.
LEMMA FrameAll ==
  ASSUME IInv, IInv', HistoryInv, [Next]_vars, SamePeers, UNCHANGED room,
         \A c \in Clients : SameLog(c),
         \A q \in Ptrs, c \in Clients : Serves(q, c) => Onward(q) \/ Closed(q)
  PROVE  HistoryInv'
  <1> SUFFICES ASSUME NEW c \in Clients PROVE History(c)'
    BY DEF HistoryInv
  <1>1. History(c) /\ SamePeer(c) /\ SameLog(c)
    BY DEF HistoryInv, SamePeers
  <1>2. SameRoom(c)
    BY DEF SameRoom, Of
  <1>3. Carried(c)
    BY <1>1, CarriedIf
  <1> QED BY <1>1, <1>2, <1>3, Frame

\* What is not in the log has no record there.
LEMMA LogUnchanged == ASSUME UNCHANGED log, NEW c \in Clients PROVE SameLog(c)
  BY DEF SameLog, RecordsOf

\* A broadcast written into the log is no record.
LEMMA LogRaw ==
  ASSUME IInv, NEW c \in Clients, NEW d, NEW n,
         log' = Append(log, [raw |-> TRUE, from |-> d, n |-> n])
  PROVE  SameLog(c)
  <1>1. log \in Seq(LogEntry)
    BY DEF IInv, TypeOK, HistoryOK
  <1>2. /\ DOMAIN log' = 1..(Len(log) + 1) /\ DOMAIN log = 1..Len(log) /\ Len(log) \in Nat
        /\ \A i \in 1..Len(log) : log'[i] = log[i]
        /\ log'[Len(log) + 1].raw
    BY <1>1
  <1>3. \A i \in DOMAIN log' : i \in DOMAIN log \/ i = Len(log) + 1
    BY <1>2
  <1>4. \A i \in DOMAIN log : i \in DOMAIN log'
    BY <1>2
  <1>5. RecordsOf(c)' = RecordsOf(c)
    BY <1>2, <1>3, <1>4 DEF RecordsOf
  <1> QED BY <1>2, <1>5 DEF SameLog, RecordsOf

\* Connecting, reading and leaving.
LEMMA ClientQuiet ==
  ASSUME IInv, IInv', HistoryInv, [Next]_vars, NEW d \in Clients,
         Connect(d) \/ Receive(d) \/ Exit(d)
  PROVE  HistoryInv'
  <1> USE DEF IInv, TypeOK, PeersOK, KernelOK
  <1>1. UNCHANGED <<room, log, up, sent, pc, buf>>
    BY DEF Connect, Receive, Exit
  <1>2. \A q \in Ptrs : Onward(q)
    BY <1>1, StillOnward DEF Still
  <1>3. SamePeers
    <2>1. CASE Connect(d)
      <3>1. \A c \in ToSet(backlog') : c \in ToSet(backlog) \/ c = d
        <4>1. /\ DOMAIN backlog' = 1..(Len(backlog) + 1) /\ DOMAIN backlog = 1..Len(backlog)
              /\ Len(backlog) \in Nat /\ backlog'[Len(backlog) + 1] = d
              /\ \A i \in 1..Len(backlog) : backlog'[i] = backlog[i]
          BY <2>1 DEF Connect
        <4>2. ASSUME NEW i \in DOMAIN backlog' PROVE backlog'[i] \in ToSet(backlog) \cup {d}
          <5>1. i \in 1..Len(backlog) \/ i = Len(backlog) + 1
            BY <4>1
          <5> QED BY <4>1, <5>1 DEF ToSet
        <4> QED BY <4>2 DEF ToSet
      <3> QED BY <1>1, <2>1, <3>1 DEF Connect, SamePeers, SamePeer
    <2>2. CASE Receive(d) \/ Exit(d)
      BY <1>1, <2>2 DEF Receive, Exit, SamePeers, SamePeer
    <2> QED BY <2>1, <2>2
  <1> QED BY <1>1, <1>2, <1>3, FrameAll, LogUnchanged

\* main accepts a client and starts its thread.
LEMMA MainQuiet ==
  ASSUME IInv, IInv', HistoryInv, [Next]_vars, MainStep
  PROVE  HistoryInv'
  <1> USE DEF IInv, TypeOK, KernelOK
  <1>1. UNCHANGED <<room, log, up, sent, phase, buf>>
    BY DEF MainStep, Accept, AcceptError, AddClient
  <1>2. \A q \in Ptrs : Onward(q)
    <2>1. \A q \in Ptrs : Still(q)
      <3>1. CASE Accept \/ AcceptError
        BY <3>1 DEF Accept, AcceptError, Still
      <3>2. CASE AddClient
        <4>1. pc[newCli] = "idle"
          BY <3>2 DEF AddClient, Threads
        <4> QED BY <3>2, <4>1 DEF AddClient, Still, ThreadsOK
      <3> QED BY <3>1, <3>2 DEF MainStep
    <2> QED BY <2>1, StillOnward
  <1>3. SamePeers
    <2>1. \A c \in ToSet(backlog') : c \in ToSet(backlog)
      <3>1. CASE Accept
        <4>1. /\ backlog' = Tail(backlog) /\ backlog # <<>>
          BY <3>1 DEF Accept
        <4>2. /\ DOMAIN backlog' = 1..(Len(backlog) - 1) /\ DOMAIN backlog = 1..Len(backlog)
              /\ Len(backlog) \in Nat
              /\ \A i \in 1..(Len(backlog) - 1) : backlog'[i] = backlog[i + 1]
          BY <4>1
        <4>3. ASSUME NEW i \in DOMAIN backlog' PROVE backlog'[i] \in ToSet(backlog)
          <5>1. i + 1 \in DOMAIN backlog /\ backlog'[i] = backlog[i + 1]
            BY <4>2
          <5> QED BY <5>1 DEF ToSet
        <4> QED BY <4>3 DEF ToSet
      <3>2. CASE AcceptError \/ AddClient
        BY <3>2 DEF AcceptError, AddClient
      <3> QED BY <3>1, <3>2 DEF MainStep
    <2> QED BY <1>1, <2>1 DEF SamePeers, SamePeer
  <1> QED BY <1>1, <1>2, <1>3, FrameAll, LogUnchanged

\* A thread goes through its broadcast, opens the log, or gives up its client.
LEMMA HandlerQuiet ==
  ASSUME IInv, IInv', HistoryInv, [Next]_vars, NEW p \in Ptrs,
         \/ SendSkip(p) \/ SendWrite(p) \/ SendFail(p) \/ SendUnlock(p)
         \/ LogOpen(p) \/ RecvError(p) \/ CloseSock(p) \/ RemoveClient(p)
  PROVE  HistoryInv'
  <1> USE DEF IInv, TypeOK, ThreadsOK
  <1>1. UNCHANGED <<room, up, sent, phase, backlog>>
    BY DEF SendSkip, SendWrite, SendFail, SendUnlock, LogOpen, RecvError, CloseSock,
       RemoveClient
  <1>2. SamePeers
    BY <1>1 DEF SamePeers, SamePeer
  <1>3. \A c \in Clients : SameLog(c)
    <2>1. CASE UNCHANGED log
      BY <2>1, LogUnchanged
    <2>2. CASE SendWrite(p)
      BY <2>1, <2>2, LogRaw DEF SendWrite
    <2> QED BY <2>1, <2>2 DEF SendSkip, SendFail, SendUnlock, LogOpen, RecvError,
         CloseSock, RemoveClient
  <1>4. HandlerStep(p)
    BY DEF HandlerStep
  <1>5. \A q \in Ptrs \ {p} : Onward(q)
    BY <1>4, OneThread, StillOnward DEF Still
  <1>6. ASSUME NEW c \in Clients, Serves(p, c) PROVE Onward(p) \/ Closed(p)
    <2> USE DEF Onward, Closed, Greeting, Leaving, Pending, Sending
    <2>1. pc[p] # "remove"
      BY <1>6 DEF Serves, HasSocket
    <2>2. CASE SendSkip(p) \/ SendWrite(p)
      BY <2>2 DEF SendSkip, SendWrite
    <2>3. CASE SendFail(p)
      BY <2>3 DEF SendFail
    <2>4. CASE SendUnlock(p)
      <3>1. /\ buf[p].kind \in {"join", "chat", "left"} /\ pc'[p] = AfterSend(p)
            /\ pc[p] \in {"send", "unlock"}
            /\ buf'[p] = IF buf[p].kind = "chat" THEN buf[p] ELSE Zeroed
        BY <2>4 DEF SendUnlock, Message, Kinds
      <3>2. CASE buf[p].kind = "join"
        BY <3>1, <3>2 DEF AfterSend, Zeroed
      <3>3. CASE buf[p].kind = "chat"
        BY <3>1, <3>3 DEF AfterSend
      <3>4. CASE buf[p].kind = "left"
        BY <3>1, <3>4 DEF AfterSend, Zeroed
      <3> QED BY <3>1, <3>2, <3>3, <3>4
    <2>5. CASE LogOpen(p)
      BY <2>5 DEF LogOpen
    <2>6. CASE RecvError(p)
      BY <2>6 DEF RecvError
    <2>7. CASE CloseSock(p)
      BY <2>7 DEF CloseSock
    <2>8. ~RemoveClient(p)
      BY <2>1 DEF RemoveClient
    <2> QED BY <2>2, <2>3, <2>4, <2>5, <2>6, <2>7, <2>8
  <1> QED BY <1>1, <1>2, <1>3, <1>5, <1>6, FrameAll

\* Nothing happens.
LEMMA Stuttering ==
  ASSUME IInv, IInv', HistoryInv, UNCHANGED vars PROVE HistoryInv'
  <1>1. \A q \in Ptrs : Onward(q)
    BY StillOnward DEF Still, vars
  <1>2. SamePeers
    BY DEF SamePeers, SamePeer, vars
  <1> QED BY <1>1, <1>2, FrameAll, LogUnchanged DEF vars

-----------------------------------------------------------------------------
(* Steps that move lines from one place to the next.                       *)

\* Every token is a number, and every line among them is above the padding.
LEMMA TokensAreInt == Tokens \subseteq Int /\ \A n \in Tokens : n \notin {NAME, PAD} <=> n > 0
  BY ChatAssumption DEF Tokens, NAME, PAD

\* What every stream holds.
LEMMA StreamTyped ==
  ASSUME IInv, NEW c \in Clients
  PROVE  /\ up[c] \in Seq(Tokens) /\ Len(up[c]) \in Nat /\ DOMAIN up[c] = 1..Len(up[c])
         /\ \A i \in DOMAIN up[c] : up[c][i] \in Tokens /\ up[c][i] \in Int
         /\ sent[c] \in Nat
  <1>1. up[c] \in Seq(Tokens) /\ sent[c] \in 0..MaxMsgs
    BY DEF IInv, TypeOK, PeersOK
  <1>2. /\ Len(up[c]) \in Nat /\ DOMAIN up[c] = 1..Len(up[c])
        /\ \A i \in DOMAIN up[c] : up[c][i] \in Tokens
    BY <1>1
  <1>3. \A n \in Tokens : n \in Int
    BY TokensAreInt
  <1>4. sent[c] \in Nat
    BY <1>1, ChatAssumption
  <1> QED BY <1>1, <1>2, <1>3, <1>4

\* What every entry of the room holds.
LEMMA RoomTyped ==
  ASSUME IInv, NEW c \in Clients
  PROVE  \A k \in Of(c) : k \in 1..Len(room) /\ room[k].text \in Seq(Tokens)
                          /\ room[k].kind \in Kinds
  <1>1. room \in Seq(Entry)
    BY DEF IInv, TypeOK, HistoryOK
  <1>2. \A k \in DOMAIN room : k \in 1..Len(room) /\ room[k] \in Entry
    BY <1>1
  <1> QED BY <1>2 DEF Entry, Of

\* A line that waits in a stream was typed, a text holds numbers.
LEMMA LinesAreInt ==
  ASSUME NEW text \in Seq(Tokens)
  PROVE  \A n \in Lines(text) : n \in Int /\ n > 0 /\ \E i \in DOMAIN text : n = text[i]
  <1> SUFFICES ASSUME NEW n \in Lines(text)
               PROVE  n \in Int /\ n > 0 /\ \E i \in DOMAIN text : n = text[i]
    OBVIOUS
  <1>1. PICK i \in DOMAIN text : n = text[i]
    BY DEF Lines, ToSet
  <1>2. text[i] \in Tokens
    OBVIOUS
  <1>3. n \in Tokens /\ n \notin {NAME, PAD}
    BY <1>1, <1>2 DEF Lines
  <1> QED BY <1>1, <1>3, TokensAreInt

\* The name is sent once, on a connection that was silent.
LEMMA SendNameHistory ==
  ASSUME IInv, IInv', HistoryInv, [Next]_vars, NEW c \in Clients, SendName(c)
  PROVE  HistoryInv'
  <1> SUFFICES ASSUME NEW d \in Clients PROVE History(d)'
    BY DEF HistoryInv
  <1>1. History(d) /\ SameRoom(d) /\ SameLog(d)
    BY LogUnchanged DEF HistoryInv, SendName, SameRoom, Of
  <1>2. \A q \in Ptrs : Onward(q)
    BY StillOnward DEF SendName, Still
  <1>3. Carried(d)
    BY <1>1, <1>2, CarriedIf
  <1>4. CASE d # c
    <2>1. SamePeer(d)
      BY <1>4 DEF SendName, SamePeer, IInv, TypeOK, PeersOK
    <2> QED BY <1>1, <1>3, <2>1, Frame
  <1>5. CASE d = c
    <2>1. /\ up'[d] = <<NAME, PAD>> /\ phase'[d] = "chatting" /\ phase[d] = "connected"
          /\ sent'[d] = sent[d] /\ UNCHANGED backlog
      BY <1>5 DEF SendName, IInv, TypeOK, PeersOK
    <2>2. /\ DOMAIN up'[d] = 1..2 /\ up'[d][1] = -1 /\ up'[d][2] = 0 /\ sent[d] \in Nat
      BY <2>1, StreamTyped DEF NAME, PAD
    <2>3. Stream(d)'
      BY <2>1, <2>2 DEF Stream
    <2>4. \A n : Taken(d, n) => Taken(d, n)'
      BY <2>1, <2>2 DEF Taken
    <2>5. Spoken(d)'
      BY <1>1, <2>1, <2>4 DEF History, Spoken, SameRoom
    <2>6. ASSUME NEW p \in Ptrs, Serves(p, d)' PROVE Visit(p, d)'
      <3>1. pc'[p] \in {"idle", "name"}
        BY <1>1, <1>2, <1>3, <2>1, <2>6 DEF Carried, Onward, History, Visits, Visit
      <3>2. Of(d)' = {}
        BY <1>1, <1>2, <1>3, <2>6, <3>1
           DEF Carried, Onward, History, Visits, Visit, Greeting, SameRoom
      <3> QED BY <3>1, <3>2 DEF Visit, Greeting, Leaving, Pending, Sending
    <2> QED BY <1>1, <1>3, <2>3, <2>5, <2>6, CarriedJournal DEF History, Visits
  <1> QED BY <1>4, <1>5

\* A line joins the stream at its end.
LEMMA SendLineHistory ==
  ASSUME IInv, IInv', HistoryInv, [Next]_vars, NEW c \in Clients, SendLine(c)
  PROVE  HistoryInv'
  <1> SUFFICES ASSUME NEW d \in Clients PROVE History(d)'
    BY DEF HistoryInv
  <1>1. History(d) /\ SameRoom(d) /\ SameLog(d)
    BY LogUnchanged DEF HistoryInv, SendLine, SameRoom, Of
  <1>2. \A q \in Ptrs : Onward(q) /\ buf'[q] = buf[q] /\ pc'[q] = pc[q]
    BY StillOnward DEF SendLine, Still
  <1>3. Carried(d)
    BY <1>1, <1>2, CarriedIf
  <1>4. CASE d # c
    <2>1. SamePeer(d)
      BY <1>4 DEF SendLine, SamePeer, IInv, TypeOK, PeersOK
    <2> QED BY <1>1, <1>3, <2>1, Frame
  <1>5. CASE d = c
    <2>1. /\ up'[d] = Append(up[d], sent[d] + 1) /\ sent'[d] = sent[d] + 1
          /\ phase'[d] = "chatting" /\ phase[d] = "chatting" /\ UNCHANGED backlog
      BY <1>5 DEF SendLine, IInv, TypeOK, PeersOK
    <2>2. /\ DOMAIN up'[d] = 1..(Len(up[d]) + 1)
          /\ \A i \in DOMAIN up[d] : up'[d][i] = up[d][i] /\ up[d][i] \in Int
          /\ up'[d][Len(up[d]) + 1] = sent[d] + 1
          /\ sent[d] \in Nat /\ Len(up[d]) \in Nat /\ DOMAIN up[d] = 1..Len(up[d])
      BY <2>1, StreamTyped
    <2>3. \A i \in DOMAIN up'[d] : i \in DOMAIN up[d] \/ i = Len(up[d]) + 1
      BY <2>2
    <2>4. \A i \in DOMAIN up[d] : up[d][i] <= sent[d]
      BY <1>1 DEF History, Stream
    <2>5. Stream(d)'
      <3>1. \A i, j \in DOMAIN up'[d] : i < j => up'[d][i] < up'[d][j]
        <4>1. SUFFICES ASSUME NEW i \in DOMAIN up'[d], NEW j \in DOMAIN up'[d], i < j
                       PROVE  up'[d][i] < up'[d][j]
          OBVIOUS
        <4>2. i \in DOMAIN up[d]
          BY <2>2, <2>3, <4>1
        <4>3. CASE j \in DOMAIN up[d]
          BY <1>1, <2>2, <4>1, <4>2, <4>3 DEF History, Stream
        <4>4. CASE j = Len(up[d]) + 1
          BY <2>2, <2>4, <4>2, <4>4
        <4> QED BY <2>3, <4>3, <4>4
      <3>2. \A i \in DOMAIN up'[d] : up'[d][i] <= sent'[d]
        BY <2>1, <2>2, <2>3, <2>4
      <3> QED BY <2>1, <3>1, <3>2 DEF Stream
    <2>6. ASSUME NEW n \in Int, Taken(d, n) PROVE Taken(d, n)'
      <3>1. n <= sent[d] /\ \A i \in DOMAIN up[d] : up[d][i] > 0 => n < up[d][i]
        BY <2>6 DEF Taken
      <3>2. n <= sent'[d]
        BY <2>1, <2>2, <3>1
      <3>3. ASSUME NEW i \in DOMAIN up'[d], up'[d][i] > 0 PROVE n < up'[d][i]
        <4>1. CASE i \in DOMAIN up[d]
          BY <2>2, <3>1, <3>3, <4>1
        <4>2. CASE i = Len(up[d]) + 1
          BY <2>2, <3>1, <4>2
        <4> QED BY <2>3, <4>1, <4>2
      <3> QED BY <3>2, <3>3 DEF Taken
    <2>7. Spoken(d)'
      <3>1. \A k \in Of(d) : \A n \in Lines(room[k].text) : n \in Int
        <4>1. \A k \in Of(d) : room[k].text \in Seq(Tokens)
          BY RoomTyped
        <4> QED BY <4>1, LinesAreInt
      <3> QED BY <1>1, <2>1, <2>6, <3>1 DEF History, Spoken, SameRoom
    <2>8. ASSUME NEW p \in Ptrs, Serves(p, d)' PROVE Visit(p, d)'
      <3>1. CASE Of(d) = {} /\ pc'[p] \in {"idle", "name"}
        BY <1>1, <3>1 DEF Visit, Greeting, Leaving, Pending, Sending, SameRoom
      <3>2. CASE Serves(p, d)
        <4>1. Visit(p, d) /\ Onward(p)
          BY <1>1, <1>2, <3>2 DEF History, Visits
        <4>2. ASSUME pc'[p] \notin {"idle", "name"}
              PROVE  \A i \in DOMAIN up'[d] : up'[d][i] >= 0
          BY <1>2, <2>2, <2>3, <4>1, <4>2 DEF Visit
        <4>3. ASSUME pc'[p] = "lock" PROVE Fresh(p, d)'
          <5>1. buf[p].text \in Seq(Tokens)
            BY DEF IInv, TypeOK, ThreadsOK, Message
          <5>2. Fresh(p, d) /\ buf'[p] = buf[p]
            BY <1>2, <4>1, <4>3 DEF Visit
          <5>3. \A n \in Lines(buf[p].text) : Taken(d, n)'
            BY <2>6, <5>1, <5>2, LinesAreInt DEF Fresh
          <5> QED BY <1>1, <5>2, <5>3 DEF Fresh, SameRoom
        <4>4. ASSUME Pending(p)' PROVE Latest(p, d)'
          <5>1. Latest(p, d) /\ buf'[p] = buf[p]
            BY <1>2, <4>1, <4>4 DEF Visit, Onward
          <5> QED BY <1>1, <5>1, SameChat DEF Latest, SameLog
        <4> QED BY <1>1, <1>2, <2>1, <4>1, <4>2, <4>3, <4>4 DEF Visit, Onward, SameRoom
      <3> QED BY <1>3, <2>8, <3>1, <3>2 DEF Carried
    <2> QED BY <1>1, <1>3, <2>5, <2>7, <2>8, CarriedJournal DEF History, Visits
  <1> QED BY <1>4, <1>5

\* A thread that works speaks for the client behind its descriptor, and for no
\* other.
LEMMA SpeaksFor ==
  ASSUME IInv, NEW p \in Ptrs, pc[p] \notin {"idle", "remove"}
  PROVE  \A c \in Clients : Serves(p, c) <=> Peer(p) = c
  <1>1. p \in live
    BY DEF IInv, Threads
  <1>2. Peer(p) # NULL => HasSocket(p)
    BY <1>1, ChatAssumption DEF Peer, File, HasSocket, Fds, BadFd
  <1> QED BY <1>2, ChatAssumption DEF Serves

\* What a thread does for its client is nothing to the others.
LEMMA HandlerOthers ==
  ASSUME IInv, IInv', HistoryInv, [Next]_vars, NEW p \in Ptrs, HandlerStep(p),
         NEW d \in Clients, ~Serves(p, d), SamePeer(d), SameRoom(d), SameLog(d)
  PROVE  History(d)'
  <1>1. \A q \in Ptrs : Serves(q, d) => Onward(q)
    BY OneThread, StillOnward DEF Still
  <1>2. History(d)
    BY DEF HistoryInv
  <1>3. Carried(d)
    BY <1>1, <1>2, CarriedIf
  <1> QED BY <1>2, <1>3, Frame

\* What a thread has done for its client, seen at the client.
LEMMA HandlerOwn ==
  ASSUME IInv, IInv', HistoryInv, [Next]_vars, NEW p \in Ptrs, HandlerStep(p),
         NEW c \in Clients, Serves(p, c), ~Accept,
         Visit(p, c)', Stream(c)', Spoken(c)', Journal(c)'
  PROVE  History(c)'
  <1>1. ASSUME NEW q \in Ptrs, Serves(q, c)' PROVE q = p
    <2>1. Serves(q, c)
      BY <1>1, ServesBefore
    <2> QED BY <2>1, OneServer
  <1> QED BY <1>1 DEF History, Visits

\* What is read is taken from the front of the stream, and the rest stays as
\* it was.
LEMMA Rest ==
  ASSUME IInv, NEW c \in Clients, Stream(c), NEW k \in Nat,
         up'[c] = SubSeq(up[c], k + 1, Len(up[c])), sent'[c] = sent[c]
  PROVE  /\ \A i \in DOMAIN up'[c] : i \in Nat /\ i + k \in DOMAIN up[c] /\ up'[c][i] = up[c][i + k]
         /\ \A i, j \in DOMAIN up'[c] : i < j => up'[c][i] < up'[c][j]
         /\ \A i \in DOMAIN up'[c] : up'[c][i] <= sent'[c]
         /\ \A n : Taken(c, n) => Taken(c, n)'
  <1>1. /\ up[c] \in Seq(Tokens) /\ Len(up[c]) \in Nat /\ DOMAIN up[c] = 1..Len(up[c])
        /\ \A i \in DOMAIN up[c] : up[c][i] \in Tokens /\ up[c][i] \in Int
    BY StreamTyped
  <1>2. PICK L \in Nat : L = Len(up[c])
    BY <1>1
  <1>3. \A i \in (k + 1)..L : up[c][i] \in Tokens
    BY <1>1, <1>2
  <1>4. /\ up'[c] \in Seq(Tokens)
        /\ Len(up'[c]) = IF k + 1 <= L THEN L - (k + 1) + 1 ELSE 0
        /\ \A i \in 1..(L - (k + 1) + 1) : up'[c][i] = up[c][k + 1 + i - 1]
    BY <1>2, <1>3, SubSeqProperties
  <1>5. ASSUME NEW i \in DOMAIN up'[c]
        PROVE  i \in Nat /\ i + k \in DOMAIN up[c] /\ up'[c][i] = up[c][i + k]
    <2>1. i \in 1..Len(up'[c])
      BY <1>4
    <2>2. i \in Nat /\ i >= 1 /\ i <= L - k
      BY <1>4, <2>1
    <2>3. i \in 1..(L - (k + 1) + 1) /\ k + 1 + i - 1 = i + k /\ i + k \in 1..L
      BY <2>2
    <2> QED BY <1>1, <1>2, <1>4, <2>2, <2>3
  <1>6. ASSUME NEW i \in DOMAIN up'[c], NEW j \in DOMAIN up'[c], i < j
        PROVE  up'[c][i] < up'[c][j]
    <2>1. i + k < j + k
      BY <1>5, <1>6
    <2> QED BY <1>5, <2>1 DEF Stream
  <1>7. \A i \in DOMAIN up'[c] : up'[c][i] <= sent'[c]
    BY <1>5 DEF Stream
  <1>8. ASSUME NEW n, Taken(c, n) PROVE Taken(c, n)'
    BY <1>5, <1>8 DEF Taken
  <1> QED BY <1>5, <1>6, <1>7, <1>8

\* With nothing pending all the chat of c is recorded.
LEMMA AllRecorded ==
  ASSUME IInv, NEW p \in Ptrs, NEW c \in Clients, History(c), Serves(p, c), ~Pending(p)
  PROVE  \A k \in ChatOf(c) : Recorded(c, k)
  <1>1. \A q \in Ptrs : Serves(q, c) /\ Pending(q) => q = p
    BY OneServer
  <1> QED BY <1>1 DEF History, Journal

\* Then only the room and the log matter to the journal.
LEMMA JournalSettled ==
  ASSUME IInv, NEW p \in Ptrs, NEW c \in Clients, History(c), Serves(p, c), ~Pending(p),
         UNCHANGED <<room, log>>
  PROVE  Journal(c)'
  <1>1. \A k \in ChatOf(c) : Recorded(c, k)
    BY AllRecorded
  <1> QED BY <1>1 DEF History, Journal, Recorded, RecordsOf, ChatOf

\* Nothing is written in an empty text.
LEMMA NoLines == Lines(<<>>) = {} /\ Lines(<<NAME>>) = {}
  BY DEF Lines, ToSet

\* The end of the stream: a farewell is in the buffer.
LEMMA RecvEndHistory ==
  ASSUME IInv, IInv', HistoryInv, [Next]_vars, NEW p \in Ptrs, RecvEnd(p)
  PROVE  HistoryInv'
  <1> SUFFICES ASSUME NEW c \in Clients PROVE History(c)'
    BY DEF HistoryInv
  <1>1. HandlerStep(p) /\ pc[p] = "recv" /\ History(c) /\ ~Accept
    BY DEF RecvEnd, HandlerStep, HistoryInv, Accept, IInv, TypeOK, ThreadsOK
  <1>2. SamePeer(c) /\ SameRoom(c) /\ SameLog(c) /\ UNCHANGED backlog
    BY LogUnchanged DEF RecvEnd, SamePeer, SameRoom, Of
  <1>3. CASE ~Serves(p, c)
    BY <1>1, <1>2, <1>3, HandlerOthers
  <1>4. CASE Serves(p, c)
    <2>1. /\ buf'[p] = [kind |-> "left", text |-> <<>>] /\ pc'[p] = "lock"
          /\ UNCHANGED <<up, sent, phase, room, log>>
      BY DEF RecvEnd, IInv, TypeOK, ThreadsOK
    <2>2. Visit(p, c)
      BY <1>1, <1>4 DEF History, Visits
    <2>4. Visit(p, c)'
      <3>1. Fresh(p, c)'
        BY <2>1, NoLines DEF Fresh, Wording
      <3>2. ~Greeting(p) /\ ~Leaving(p) /\ ~Greeting(p)' /\ ~Pending(p)'
        BY <1>1, <2>1 DEF Greeting, Leaving, Pending, Sending
      <3> QED BY <1>1, <1>2, <2>1, <2>2, <3>1, <3>2 DEF Visit, SameRoom
    <2>5. Stream(c)' /\ Spoken(c)'
      BY <1>1, <1>2, <2>1 DEF History, Stream, Spoken, Taken, SameRoom
    <2>6. ~Pending(p)
      BY <1>1 DEF Pending, Sending
    <2>7. Journal(c)'
      BY <1>1, <1>4, <2>1, <2>6, JournalSettled
    <2> QED BY <1>1, <1>4, <2>4, <2>5, <2>7, HandlerOwn
  <1> QED BY <1>3, <1>4

\* The name: a greeting is in the buffer, and what waits in the stream is what
\* is left of the padding, and lines.
LEMMA RecvNameHistory ==
  ASSUME IInv, IInv', HistoryInv, [Next]_vars, NEW p \in Ptrs, RecvName(p)
  PROVE  HistoryInv'
  <1> SUFFICES ASSUME NEW c \in Clients PROVE History(c)'
    BY DEF HistoryInv
  <1>1. /\ HandlerStep(p) /\ pc[p] = "name" /\ pc'[p] = "lock" /\ History(c) /\ ~Accept
        /\ UNCHANGED <<backlog, sent, phase, room, log>>
    BY DEF RecvName, HandlerStep, HistoryInv, Accept, IInv, TypeOK, ThreadsOK
  <1>2. SameRoom(c) /\ SameLog(c)
    BY <1>1, LogUnchanged DEF SameRoom, Of
  <1>3. Serves(p, c) <=> Peer(p) = c
    BY <1>1, SpeaksFor
  <1>4. ASSUME up'[c] = up[c] PROVE SamePeer(c)
    BY <1>1, <1>4 DEF SamePeer
  <1>5. CASE ~Serves(p, c)
    <2>1. up'[c] = up[c]
      BY <1>3, <1>5, ChatAssumption DEF RecvName, IInv, TypeOK, PeersOK
    <2> QED BY <1>1, <1>2, <1>4, <1>5, <2>1, HandlerOthers
  <1>6. CASE Serves(p, c)
    <2>1. Visit(p, c) /\ Of(c) = {} /\ Of(c)' = {}
      BY <1>1, <1>2, <1>6 DEF History, Visits, Visit, Greeting, SameRoom
    <2>2. /\ buf'[p].kind = "join" /\ buf'[p].text \in {<<>>, <<NAME>>}
          /\ \/ up[c] # <<>> /\ \E k \in 1..2 : up'[c] = SubSeq(up[c], k + 1, Len(up[c]))
             \/ up[c] = <<>> /\ up'[c] = up[c] /\ phase[c] = "exited"
      BY <1>3, <1>6, ChatAssumption DEF RecvName, Zeroed, IInv, TypeOK, PeersOK, ThreadsOK
    <2>3. phase[c] \notin {"idle", "connected"}
      BY <1>1, <2>2 DEF History, Stream
    <2>4. /\ Stream(c)'
          /\ \A i \in DOMAIN up'[c] : up'[c][i] >= 0
      <3>1. CASE up'[c] = up[c] /\ up[c] = <<>>
        BY <1>1, <3>1 DEF History, Stream
      <3>2. ASSUME NEW k \in 1..2, up'[c] = SubSeq(up[c], k + 1, Len(up[c]))
            PROVE  /\ Stream(c)'
                   /\ \A i \in DOMAIN up'[c] : up'[c][i] >= 0
        <4>1. k \in Nat /\ k >= 1 /\ sent'[c] = sent[c] /\ Stream(c)
          BY <1>1 DEF History
        <4>2. /\ \A i \in DOMAIN up'[c] : i \in Nat /\ i + k \in DOMAIN up[c] /\ up'[c][i] = up[c][i + k]
              /\ \A i, j \in DOMAIN up'[c] : i < j => up'[c][i] < up'[c][j]
              /\ \A i \in DOMAIN up'[c] : up'[c][i] <= sent'[c]
          BY <3>2, <4>1, Rest
        <4>3. ASSUME NEW i \in DOMAIN up'[c] PROVE up'[c][i] >= 0
          <5>1. /\ i + k \in DOMAIN up[c] /\ 1 \in DOMAIN up[c] /\ 1 < i + k
                /\ up[c][1] \in Int /\ up[c][1] >= -1 /\ up[c][i + k] \in Int
            <6>1. i \in Nat /\ i >= 1
              <7>1. up'[c] \in Seq(Tokens)
                BY DEF IInv, TypeOK, PeersOK
              <7> QED BY <7>1
            <6>2. 1 \in DOMAIN up[c] /\ 1 < i + k
              BY <4>1, <4>2, <6>1, StreamTyped
            <6>3. up[c][1] \in Tokens /\ up[c][i + k] \in Int
              BY <4>2, <6>2, StreamTyped
            <6> QED BY <4>2, <6>2, <6>3, TokensAreInt, ChatAssumption DEF Tokens, NAME, PAD
          <5>2. up[c][1] < up[c][i + k]
            BY <4>1, <5>1 DEF Stream
          <5> QED BY <4>2, <5>1, <5>2
        <4> QED BY <1>1, <2>3, <4>2, <4>3 DEF Stream
      <3> QED BY <2>2, <3>1, <3>2
    <2>5. Visit(p, c)'
      <3>1. Fresh(p, c)'
        BY <2>2, NoLines DEF Fresh, Wording
      <3>2. Greeting(p)' /\ ~Pending(p)'
        BY <1>1, <2>2 DEF Greeting, Pending, Sending
      <3> QED BY <1>1, <2>1, <2>3, <2>4, <3>1, <3>2 DEF Visit
    <2>6. Spoken(c)'
      BY <1>1, <2>1 DEF History, Spoken
    <2>7. ~Pending(p)
      BY <1>1 DEF Pending, Sending
    <2>8. Journal(c)'
      BY <1>1, <1>6, <2>7, JournalSettled
    <2> QED BY <1>1, <1>6, <2>4, <2>5, <2>6, <2>8, HandlerOwn
  <1> QED BY <1>5, <1>6

\* Lines move from the stream to the buffer: later than all that is in the
\* room, earlier than what still waits.
LEMMA RecvDataHistory ==
  ASSUME IInv, IInv', HistoryInv, [Next]_vars, NEW p \in Ptrs, RecvData(p)
  PROVE  HistoryInv'
  <1> SUFFICES ASSUME NEW c \in Clients PROVE History(c)'
    BY DEF HistoryInv
  <1>1. /\ HandlerStep(p) /\ pc[p] = "recv" /\ History(c) /\ ~Accept
        /\ UNCHANGED <<backlog, sent, phase, room, log>>
    <2>1. HandlerStep(p) /\ pc[p] = "recv" /\ History(c)
      BY DEF RecvData, HandlerStep, HistoryInv
    <2>2. UNCHANGED <<backlog, sent, phase, room, log, newCli>>
      BY DEF RecvData
    <2>3. ~Accept
      BY <2>2, ChatAssumption DEF Accept, NewClient
    <2> QED BY <2>1, <2>2, <2>3
  <1>2. SameRoom(c) /\ SameLog(c)
    BY <1>1, LogUnchanged DEF SameRoom, Of
  <1>3. Serves(p, c) <=> Peer(p) = c
    BY <1>1, SpeaksFor
  <1>4. CASE ~Serves(p, c)
    <2>1. up'[c] = up[c]
      BY <1>3, <1>4 DEF RecvData, IInv, TypeOK, PeersOK
    <2>2. SamePeer(c)
      BY <1>1, <2>1 DEF SamePeer
    <2> QED BY <1>1, <1>2, <1>4, <2>2, HandlerOthers
  <1>5. CASE Serves(p, c)
    <2>1. Visit(p, c) /\ ~Greeting(p) /\ ~Leaving(p) /\ ~Pending(p)
      BY <1>1, <1>5 DEF History, Visits, Greeting, Leaving, Pending, Sending
    <2>2. PICK k \in 1..Len(up[c]) :
            /\ up'[c] = SubSeq(up[c], k + 1, Len(up[c]))
            /\ IF up[c][1] = PAD
               THEN UNCHANGED <<buf, pc>>
               ELSE /\ buf'[p] = [kind |-> "chat", text |-> SubSeq(up[c], 1, k)]
                    /\ pc'[p] = "lock"
      BY <1>3, <1>5 DEF RecvData, IInv, TypeOK, PeersOK, ThreadsOK
    <2>3. k \in Nat /\ k >= 1 /\ sent'[c] = sent[c] /\ Stream(c)
      <3>1. Len(up[c]) \in Nat
        BY StreamTyped
      <3> QED BY <1>1, <3>1 DEF History
    <2>4. /\ \A i \in DOMAIN up'[c] : i \in Nat /\ i + k \in DOMAIN up[c] /\ up'[c][i] = up[c][i + k]
          /\ \A i, j \in DOMAIN up'[c] : i < j => up'[c][i] < up'[c][j]
          /\ \A i \in DOMAIN up'[c] : up'[c][i] <= sent'[c]
          /\ \A n : Taken(c, n) => Taken(c, n)'
      BY <2>2, <2>3, Rest
    <2>5. phase[c] \notin {"idle", "connected"} /\ \A i \in DOMAIN up[c] : up[c][i] >= 0
      BY <1>1, <2>1 DEF Visit
    <2>6. Stream(c)' /\ \A i \in DOMAIN up'[c] : up'[c][i] >= 0
      BY <1>1, <2>4, <2>5 DEF Stream
    <2>7. Spoken(c)'
      BY <1>1, <1>2, <2>4 DEF History, Spoken, SameRoom
    <2>8. Journal(c)'
      BY <1>1, <1>5, <2>1, JournalSettled
    <2>9. Visit(p, c)'
      <3>1. CASE up[c][1] = PAD
        <4>1. UNCHANGED <<buf, pc>>
          BY <2>2, <3>1
        <4>2. Onward(p)
          BY <4>1, StillOnward DEF Still
        <4>3. ~Pending(p)' /\ pc'[p] = "recv"
          BY <1>1, <2>1, <4>1, <4>2 DEF Onward
        <4> QED BY <1>1, <1>2, <2>1, <2>5, <2>6, <4>2, <4>3 DEF Visit, Onward, SameRoom
      <3>2. CASE up[c][1] # PAD
        <4>1. PICK text \in Seq(Tokens) : text = SubSeq(up[c], 1, k)
          BY PrefixOfSeq, StreamTyped
        <4>2. buf'[p] = [kind |-> "chat", text |-> text] /\ pc'[p] = "lock"
          BY <2>2, <3>2, <4>1
        <4>3. /\ text # <<>>
              /\ \A i \in DOMAIN text : i \in 1..k /\ i \in DOMAIN up[c] /\ text[i] = up[c][i]
          <5>1. /\ up[c] \in Seq(Tokens) /\ Len(up[c]) \in Nat /\ DOMAIN up[c] = 1..Len(up[c])
                /\ \A i \in 1..k : up[c][i] \in Tokens
            BY StreamTyped
          <5>2. Len(text) = k /\ \A i \in 1..k : text[i] = up[c][i]
            <6>1. /\ Len(SubSeq(up[c], 1, k)) = IF 1 <= k THEN k - 1 + 1 ELSE 0
                  /\ \A i \in 1..(k - 1 + 1) : SubSeq(up[c], 1, k)[i] = up[c][1 + i - 1]
              BY <2>3, <5>1, SubSeqProperties
            <6>2. \A i \in 1..k : i \in 1..(k - 1 + 1) /\ 1 + i - 1 = i
              BY <2>3
            <6> QED BY <2>3, <4>1, <6>1, <6>2
          <5>3. DOMAIN text = 1..k /\ text # <<>>
            BY <2>3, <4>1, <5>2
          <5> QED BY <2>2, <5>1, <5>2, <5>3
        <4>4. \A i \in DOMAIN text : text[i] \in Int /\ text[i] > 0
          <5>1. SUFFICES ASSUME NEW i \in DOMAIN text PROVE text[i] \in Int /\ text[i] > 0
            OBVIOUS
          <5>2. /\ 1 \in DOMAIN up[c] /\ up[c][1] \in Int /\ up[c][1] >= 0 /\ up[c][1] # 0
                /\ i \in Nat /\ i >= 1 /\ up[c][i] \in Int
            BY <2>3, <2>5, <3>2, <4>3, StreamTyped DEF PAD
          <5>3. CASE i = 1
            BY <4>3, <5>2, <5>3
          <5>4. CASE i > 1
            <6>1. up[c][1] < up[c][i]
              BY <2>3, <4>3, <5>2, <5>4 DEF Stream
            <6> QED BY <4>3, <5>2, <6>1
          <5> QED BY <5>2, <5>3, <5>4
        <4>5. ASSUME NEW n \in Lines(text)
              PROVE  /\ Taken(c, n)'
                     /\ \A j \in Of(c) : \A m \in Lines(room[j].text) : m < n
          <5>1. PICK i \in DOMAIN text : n = text[i]
            BY LinesAreInt
          <5>2. /\ i \in 1..k /\ i \in DOMAIN up[c] /\ n = up[c][i] /\ n > 0 /\ n \in Int
            BY <4>3, <4>4, <5>1
          <5>3. Taken(c, n)'
            <6>1. n <= sent'[c]
              BY <2>3, <5>2 DEF Stream
            <6>2. ASSUME NEW j \in DOMAIN up'[c] PROVE n < up'[c][j]
              <7>1. j \in Nat /\ j >= 1
                <8>1. up'[c] \in Seq(Tokens)
                  BY DEF IInv, TypeOK, PeersOK
                <8> QED BY <8>1
              <7>2. i < j + k /\ j + k \in DOMAIN up[c] /\ up'[c][j] = up[c][j + k]
                BY <2>3, <2>4, <5>2, <7>1
              <7> QED BY <2>3, <5>2, <7>2 DEF Stream
            <6> QED BY <6>1, <6>2 DEF Taken
          <5>4. \A j \in Of(c) : \A m \in Lines(room[j].text) : m < n
            BY <1>1, <5>2 DEF History, Spoken, Taken
          <5> QED BY <5>3, <5>4
        <4>6. Fresh(p, c)'
          BY <1>2, <4>2, <4>3, <4>4, <4>5 DEF Fresh, Wording, SameRoom
        <4>7. ~Greeting(p)' /\ ~Leaving(p)' /\ ~Pending(p)'
          BY <4>2 DEF Greeting, Leaving, Pending, Sending
        <4> QED BY <1>1, <1>2, <2>1, <2>5, <2>6, <4>6, <4>7 DEF Visit, SameRoom
      <3> QED BY <3>1, <3>2
    <2> QED BY <1>1, <1>5, <2>6, <2>7, <2>8, <2>9, HandlerOwn
  <1> QED BY <1>4, <1>5

\* A chat text begins with a line.
LEMMA FirstIsLine ==
  ASSUME NEW text \in Seq(Tokens), Wording("chat", text)
  PROVE  text[1] \in Lines(text) /\ text[1] \in Int
  <1>1. text # <<>> /\ \A i \in DOMAIN text : text[i] > 0
    BY DEF Wording
  <1>2. 1 \in DOMAIN text
    BY <1>1
  <1>3. text[1] \in Tokens /\ text[1] > 0
    BY <1>1, <1>2
  <1> QED BY <1>2, <1>3, TokensAreInt DEF Lines, ToSet

\* What Append does to the room.
LEMMA RoomGrows ==
  ASSUME IInv, NEW e, room' = Append(room, e)
  PROVE  /\ Len(room) + 1 \in Nat /\ DOMAIN room' = DOMAIN room \cup {Len(room) + 1}
         /\ room'[Len(room) + 1] = e
         /\ \A k \in DOMAIN room : k \in Nat /\ k < Len(room) + 1 /\ room'[k] = room[k]
  <1>1. room \in Seq(Entry)
    BY DEF IInv, TypeOK, HistoryOK
  <1>2. /\ Len(room) \in Nat /\ DOMAIN room = 1..Len(room)
        /\ DOMAIN room' = 1..(Len(room) + 1)
        /\ room'[Len(room) + 1] = e
        /\ \A k \in 1..Len(room) : room'[k] = room[k]
    BY <1>1
  <1>3. 1..(Len(room) + 1) = 1..Len(room) \cup {Len(room) + 1}
    BY <1>2
  <1> QED BY <1>2, <1>3

\* A broadcast: the buffer becomes the newest entry.
LEMMA SendLockHistory ==
  ASSUME IInv, IInv', HistoryInv, [Next]_vars, NEW p \in Ptrs, SendLock(p)
  PROVE  HistoryInv'
  <1> SUFFICES ASSUME NEW c \in Clients PROVE History(c)'
    BY DEF HistoryInv
  <1>1. /\ HandlerStep(p) /\ pc[p] = "lock" /\ pc'[p] = "send" /\ History(c) /\ ~Accept
        /\ UNCHANGED <<backlog, up, sent, phase, buf, log>>
    BY ChatAssumption DEF SendLock, HandlerStep, HistoryInv, Accept, NewClient, IInv, TypeOK, ThreadsOK
  <1>2. SamePeer(c) /\ SameLog(c)
    BY <1>1, LogUnchanged DEF SamePeer
  <1>3. Serves(p, c) <=> Peer(p) = c
    BY <1>1, SpeaksFor
  <1>4. PICK e : e = [kind |-> buf[p].kind, text |-> buf[p].text, from |-> Peer(p)]
    OBVIOUS
  <1>5. PICK K : K = Len(room) + 1
    OBVIOUS
  <1>6. /\ K \in Nat /\ DOMAIN room' = DOMAIN room \cup {K} /\ room'[K] = e
        /\ \A k \in DOMAIN room : k \in Nat /\ k < K /\ room'[k] = room[k]
    BY <1>4, <1>5, RoomGrows DEF SendLock
  <1>7. e.kind = buf[p].kind /\ e.text = buf[p].text /\ e.from = Peer(p)
    BY <1>4
  <1>8. CASE ~Serves(p, c)
    <2>1. SameRoom(c)
      BY <1>3, <1>6, <1>7, <1>8 DEF SameRoom, Of
    <2> QED BY <1>1, <1>2, <1>8, <2>1, HandlerOthers
  <1>9. CASE Serves(p, c)
    <2>1. Visit(p, c) /\ Fresh(p, c) /\ ~Leaving(p) /\ ~Pending(p)
      BY <1>1, <1>9 DEF History, Visits, Visit, Leaving, Pending, Sending
    <2>2. /\ Of(c)' = Of(c) \cup {K}
          /\ \A k \in Of(c) : k \in Nat /\ k < K /\ room'[k] = room[k]
      BY <1>3, <1>6, <1>7, <1>9 DEF Of
    <2>3. e.kind = "join" <=> Of(c) = {}
      BY <1>1, <1>7, <2>1 DEF Visit, Greeting
    <2>4. c \notin ToSet(backlog) /\ phase[c] \notin {"idle", "connected"}
      <3>1. \E f \in Fds : fdtab[f] = c
        BY <1>3, <1>9, ChatAssumption DEF Peer, File
      <3>2. \A i \in DOMAIN backlog : backlog[i] # c
        BY <3>1 DEF IInv, Connections
      <3> QED BY <1>1, <2>1, <3>2 DEF ToSet, Visit
    <2>5. Stream(c)'
      BY <1>1 DEF History, Stream
    <2>6. Spoken(c)'
      <3>1. Spoken(c) /\ \A n : Taken(c, n)' <=> Taken(c, n)
        BY <1>1 DEF History, Taken
      <3>2. ASSUME NEW k \in Of(c)'
            PROVE  /\ Wording(room'[k].kind, room'[k].text)
                   /\ \A n \in Lines(room'[k].text) : Taken(c, n)'
                   /\ room'[k].kind = "join" <=> \A j \in Of(c)' : k <= j
        <4>1. CASE k \in Of(c)
          <5>1. (\A j \in Of(c)' : k <= j) <=> \A j \in Of(c) : k <= j
            BY <1>6, <2>2, <4>1
          <5> QED BY <2>2, <3>1, <4>1, <5>1 DEF Spoken
        <4>2. CASE k = K
          <5>1. (\A j \in Of(c)' : K <= j) <=> Of(c) = {}
            BY <1>6, <2>2
          <5> QED BY <1>6, <1>7, <2>1, <2>3, <3>1, <4>2, <5>1 DEF Fresh
        <4> QED BY <2>2, <4>1, <4>2
      <3>3. ASSUME NEW j \in Of(c)', NEW k \in Of(c)', j < k
            PROVE  /\ room'[j].kind # "left"
                   /\ \A n \in Lines(room'[j].text), m \in Lines(room'[k].text) : n < m
        <4>1. j \in Of(c)
          BY <1>6, <2>2, <3>3
        <4>2. CASE k \in Of(c)
          BY <2>2, <3>1, <3>3, <4>1, <4>2 DEF Spoken
        <4>3. CASE k = K
          BY <1>6, <1>7, <2>1, <2>2, <4>1, <4>3 DEF Visit, Fresh
        <4> QED BY <2>2, <4>2, <4>3
      <3> QED BY <1>1, <2>4, <3>2, <3>3 DEF Spoken
    <2>7. Journal(c) /\ \A k \in ChatOf(c) : Recorded(c, k)
      BY <1>1, <1>9, <2>1, AllRecorded DEF History
    <2>8. /\ ChatOf(c)' = ChatOf(c) \cup {k \in {K} : e.kind = "chat"}
          /\ \A k \in ChatOf(c) : k \in Of(c) /\ k \in Nat /\ k < K /\ room'[k] = room[k]
      BY <1>3, <1>6, <1>7, <1>9 DEF ChatOf, Of
    <2>9. Visit(p, c)'
      <3>1. ~Greeting(p)' /\ K \in Of(c)'
        BY <1>1, <2>2 DEF Greeting
      <3>2. ASSUME ~Leaving(p)' PROVE \A k \in Of(c)' : room'[k].kind # "left"
        BY <1>1, <1>6, <1>7, <2>1, <2>2, <3>2 DEF Visit, Leaving, Sending
      <3>3. ASSUME Pending(p)' PROVE Latest(p, c)'
        <4>1. buf[p].kind = "chat" /\ buf'[p] = buf[p]
          BY <1>1, <3>3 DEF Pending
        <4>2. K \in ChatOf(c)' /\ \A l \in ChatOf(c)' : l <= K
          BY <1>6, <1>7, <2>8, <4>1
        <4>3. buf[p].text \in Seq(Tokens)
          BY DEF IInv, TypeOK, ThreadsOK, Message
        <4>4. buf[p].text[1] \in Lines(buf[p].text)
          BY <2>1, <4>1, <4>3, FirstIsLine DEF Fresh
        <4>5. ASSUME NEW i \in RecordsOf(c) PROVE log[i].n < buf[p].text[1]
          <5>1. PICK k \in ChatOf(c) : log[i].n = room[k].text[1]
            BY <2>7 DEF Journal
          <5>2. k \in Of(c) /\ room[k].kind = "chat" /\ room[k].text \in Seq(Tokens)
            BY <2>8, RoomTyped DEF ChatOf
          <5>3. room[k].text[1] \in Lines(room[k].text)
            BY <1>1, <5>2, FirstIsLine DEF History, Spoken
          <5> QED BY <2>1, <4>4, <5>1, <5>2, <5>3 DEF Fresh
        <4> QED BY <1>2, <1>6, <1>7, <4>1, <4>2, <4>5 DEF Latest, SameLog
      <3> QED BY <1>1, <2>1, <3>1, <3>2, <3>3 DEF Visit
    <2>10. Journal(c)'
      <3>1. ASSUME NEW k \in ChatOf(c)'
            PROVE  Recorded(c, k)' \/ \E q \in Ptrs :
                     Serves(q, c)' /\ Pending(q)' /\ room'[k].text = buf'[q].text
        <4>1. CASE k \in ChatOf(c)
          BY <1>2, <2>7, <2>8, <4>1 DEF Recorded, SameLog
        <4>2. CASE k = K /\ e.kind = "chat"
          <5>1. Pending(p)'
            BY <1>1, <1>7, <4>2 DEF Pending, Sending
          <5>2. Serves(p, c)'
            BY <1>1, <1>9, ServesAfter
          <5> QED BY <1>1, <1>6, <1>7, <4>2, <5>1, <5>2
        <4> QED BY <2>8, <4>1, <4>2
      <3>2. \A i \in RecordsOf(c)' : \E k \in ChatOf(c)' : log'[i].n = room'[k].text[1]
        BY <1>2, <2>7, <2>8 DEF Journal, SameLog
      <3> QED BY <1>2, <2>7, <3>1, <3>2 DEF Journal, SameLog
    <2> QED BY <1>1, <1>9, <2>5, <2>6, <2>9, <2>10, HandlerOwn
  <1> QED BY <1>8, <1>9

\* The record of what was broadcast is the newest of the log.
LEMMA LogCloseHistory ==
  ASSUME IInv, IInv', HistoryInv, [Next]_vars, NEW p \in Ptrs, LogClose(p)
  PROVE  HistoryInv'
  <1> SUFFICES ASSUME NEW c \in Clients PROVE History(c)'
    BY DEF HistoryInv
  <1>1. /\ HandlerStep(p) /\ pc[p] = "logging" /\ pc'[p] = "recv" /\ buf'[p] = Zeroed
        /\ History(c) /\ ~Accept /\ UNCHANGED <<backlog, up, sent, phase, room>>
    BY ChatAssumption DEF LogClose, HandlerStep, HistoryInv, Accept, NewClient, IInv, TypeOK, ThreadsOK
  <1>2. SamePeer(c) /\ SameRoom(c) /\ ChatOf(c)' = ChatOf(c)
    BY <1>1 DEF SamePeer, SameRoom, Of, ChatOf
  <1>3. Serves(p, c) <=> Peer(p) = c
    BY <1>1, SpeaksFor
  <1>4. PICK r : r = [raw |-> FALSE, from |-> Peer(p), n |-> Trimmed(buf[p].text)]
    OBVIOUS
  <1>5. PICK K : K = Len(log) + 1
    OBVIOUS
  <1>6. /\ K \in Nat /\ DOMAIN log' = DOMAIN log \cup {K} /\ log'[K] = r
        /\ \A i \in DOMAIN log : i \in Nat /\ i < K /\ log'[i] = log[i]
    <2>1. log \in Seq(LogEntry) /\ log' = Append(log, r)
      BY <1>4 DEF LogClose, IInv, TypeOK, HistoryOK
    <2>2. /\ Len(log) \in Nat /\ DOMAIN log = 1..Len(log) /\ DOMAIN log' = 1..(Len(log) + 1)
          /\ log'[Len(log) + 1] = r /\ \A i \in 1..Len(log) : log'[i] = log[i]
      BY <2>1
    <2>3. 1..(Len(log) + 1) = 1..Len(log) \cup {Len(log) + 1}
      BY <2>2
    <2> QED BY <1>5, <2>2, <2>3
  <1>7. ~r.raw /\ r.from = Peer(p) /\ r.n = Head(buf[p].text)
    BY <1>4 DEF Trimmed
  <1>8. CASE ~Serves(p, c)
    <2>1. SameLog(c)
      BY <1>3, <1>6, <1>7, <1>8 DEF SameLog, RecordsOf
    <2> QED BY <1>1, <1>2, <1>8, <2>1, HandlerOthers
  <1>9. CASE Serves(p, c)
    <2>1. buf[p].kind = "chat"
      BY <1>1 DEF IInv, LogsChat
    <2>2. Pending(p)
      BY <1>1, <2>1 DEF Pending
    <2>3. Visit(p, c) /\ ~Greeting(p) /\ ~Leaving(p) /\ Latest(p, c)
      BY <1>1, <1>9, <2>2 DEF History, Visits, Visit, Greeting, Leaving, Sending
    <2>4. r.n = buf[p].text[1]
      <3>1. buf[p].text # <<>> /\ buf[p].text \in Seq(Tokens)
        BY <2>1 DEF IInv, TypeOK, ThreadsOK, Message
      <3> QED BY <1>7, <3>1
    <2>5. /\ RecordsOf(c)' = RecordsOf(c) \cup {K}
          /\ \A i \in RecordsOf(c) : i \in Nat /\ i < K /\ log'[i] = log[i]
      BY <1>3, <1>6, <1>7, <1>9 DEF RecordsOf
    <2>6. Journal(c)
      BY <1>1 DEF History
    <2>7. Journal(c)'
      <3>1. ASSUME NEW i \in RecordsOf(c)', NEW j \in RecordsOf(c)', i < j
            PROVE  log'[i].n < log'[j].n
        <4>1. i \in RecordsOf(c)
          BY <1>6, <2>5, <3>1
        <4>2. CASE j \in RecordsOf(c)
          BY <2>5, <2>6, <3>1, <4>1, <4>2 DEF Journal
        <4>3. CASE j = K
          BY <1>6, <2>3, <2>4, <2>5, <4>1, <4>3 DEF Latest
        <4> QED BY <2>5, <4>2, <4>3
      <3>2. ASSUME NEW i \in RecordsOf(c)'
            PROVE  \E k \in ChatOf(c)' : log'[i].n = room'[k].text[1]
        <4>1. CASE i \in RecordsOf(c)
          BY <1>1, <1>2, <2>5, <2>6, <4>1 DEF Journal
        <4>2. CASE i = K
          BY <1>1, <1>2, <1>6, <2>3, <2>4, <4>2 DEF Latest
        <4> QED BY <2>5, <4>1, <4>2
      <3>3. ASSUME NEW k \in ChatOf(c)' PROVE Recorded(c, k)'
        <4>1. CASE Recorded(c, k)
          BY <1>1, <2>5, <4>1 DEF Recorded
        <4>2. ASSUME NEW q \in Ptrs, Serves(q, c), Pending(q), room[k].text = buf[q].text
              PROVE  Recorded(c, k)'
          <5>1. q = p
            BY <1>9, <4>2, OneServer
          <5> QED BY <1>1, <1>6, <2>4, <2>5, <4>2, <5>1 DEF Recorded
        <4> QED BY <1>2, <2>6, <4>1, <4>2 DEF Journal
      <3> QED BY <3>1, <3>2, <3>3 DEF Journal
    <2>8. Stream(c)' /\ Spoken(c)'
      BY <1>1, <1>2 DEF History, Stream, Spoken, Taken, SameRoom
    <2>9. Visit(p, c)'
      <3>1. ~Greeting(p)' /\ ~Pending(p)' /\ pc'[p] # "lock"
        BY <1>1 DEF Greeting, Pending, Sending
      <3> QED BY <1>1, <1>2, <2>3, <3>1 DEF Visit, SameRoom
    <2> QED BY <1>1, <1>9, <2>7, <2>8, <2>9, HandlerOwn
  <1> QED BY <1>8, <1>9

-----------------------------------------------------------------------------
(* The theorems.                                                           *)

\* Nothing has been said in the beginning.
LEMMA InitHistory == Init => HistoryInv
  <1> SUFFICES ASSUME Init, NEW c \in Clients PROVE History(c)
    BY DEF HistoryInv
  <1>1. room = <<>> /\ log = <<>> /\ up[c] = <<>> /\ live = {}
    BY DEF Init
  <1>2. Of(c) = {} /\ ChatOf(c) = {} /\ RecordsOf(c) = {}
    BY <1>1 DEF Of, ChatOf, RecordsOf
  <1>3. Stream(c) /\ Spoken(c) /\ Journal(c)
    BY <1>1, <1>2 DEF Stream, Spoken, Journal
  <1>4. Visits(c)
    BY <1>1 DEF Visits, Serves, HasSocket
  <1> QED BY <1>3, <1>4 DEF History

\* Every step keeps the histories in order.
LEMMA HistoryStep == IInv /\ IInv' /\ HistoryInv /\ [Next]_vars => HistoryInv'
  <1> SUFFICES ASSUME IInv, IInv', HistoryInv, [Next]_vars PROVE HistoryInv'
    OBVIOUS
  <1>1. ASSUME NEW c \in Clients, ClientStep(c) PROVE HistoryInv'
    BY <1>1, ClientQuiet, SendNameHistory, SendLineHistory DEF ClientStep
  <1>2. CASE MainStep
    BY <1>2, MainQuiet
  <1>3. ASSUME NEW p \in Ptrs, HandlerStep(p) PROVE HistoryInv'
    BY <1>3, HandlerQuiet, RecvNameHistory, RecvDataHistory, RecvEndHistory,
       SendLockHistory, LogCloseHistory DEF HandlerStep
  <1>4. CASE UNCHANGED vars
    BY <1>4, Stuttering
  <1> QED BY <1>1, <1>2, <1>3, <1>4 DEF Next

\* The histories are in order in every reachable state.
LEMMA InvariantHistory == Spec => []HistoryInv
  BY InitHistory, HistoryStep, InvariantIInv, PTL DEF Spec

\* However the threads interleave, what a client causes in the room is a join,
\* then chat, then at most one farewell, and the chat carries its lines in the
\* order it typed them, none twice.
THEOREM VisitsInOrder == Spec => []OneVisit
  <1>1. IInv /\ HistoryInv => OneVisit
    <2> SUFFICES ASSUME IInv, HistoryInv, NEW k \in DOMAIN room, room[k].from \in Clients
                 PROVE  /\ room[k].kind = "join" <=> Earlier(k) = {}
                        /\ \A j \in Earlier(k) :
                             /\ room[j].kind # "left"
                             /\ \A n \in Lines(room[j].text), m \in Lines(room[k].text) : n < m
      BY DEF OneVisit
    <2>1. PICK c \in Clients : c = room[k].from
      OBVIOUS
    <2>2. Spoken(c) /\ k \in Of(c) /\ room \in Seq(Entry)
      BY <2>1 DEF HistoryInv, History, Of, IInv, TypeOK, HistoryOK
    <2>3. \A j : j \in Earlier(k) <=> j \in Of(c) /\ j < k
      <3>1. Len(room) \in Nat /\ DOMAIN room = 1..Len(room)
        BY <2>2
      <3>2. \A j : j \in 1..(k - 1) <=> j \in 1..Len(room) /\ j < k
        BY <3>1
      <3> QED BY <2>1, <3>1, <3>2 DEF Earlier, Of
    <2>4. Earlier(k) = {} <=> \A j \in Of(c) : k <= j
      <3>1. \A j \in Of(c) : j \in Int /\ k \in Int
        BY <2>2 DEF Of
      <3> QED BY <2>3, <3>1
    <2> QED BY <2>2, <2>3, <2>4 DEF Spoken
  <1> QED BY <1>1, InvariantIInv, InvariantHistory, PTL

\* logs.txt has the first line of each chat of a client in the order of the
\* broadcasts; only the record of the last can be missing, whichever threads
\* write at the same time.
THEOREM LogFollowsRoom == Spec => []LogMatchesRoom
  <1>1. IInv /\ HistoryInv => LogMatchesRoom
    <2> SUFFICES ASSUME IInv, HistoryInv, NEW c \in Clients
                 PROVE  /\ \A i, j \in RecordsOf(c) : i < j => log[i].n < log[j].n
                        /\ \A i \in RecordsOf(c) : \E k \in ChatOf(c) : log[i].n = room[k].text[1]
                        /\ \A k, l \in ChatOf(c) : k < l => Recorded(c, k)
      BY DEF LogMatchesRoom
    <2>1. History(c)
      BY DEF HistoryInv
    <2>2. ASSUME NEW k \in ChatOf(c), NEW l \in ChatOf(c), k < l,
                 NEW p \in Ptrs, Serves(p, c), Pending(p), room[k].text = buf[p].text
          PROVE  FALSE
      <3>1. Latest(p, c)
        BY <2>1, <2>2 DEF History, Visits, Visit
      <3>2. PICK h \in ChatOf(c) : room[h].text = buf[p].text /\ l <= h
        BY <3>1 DEF Latest
      <3>3. /\ k \in Of(c) /\ h \in Of(c) /\ room[k].kind = "chat"
            /\ room[k].text \in Seq(Tokens)
            /\ k \in Int /\ l \in Int /\ h \in Int
        BY RoomTyped DEF Of, ChatOf
      <3>4. k < h
        BY <2>2, <3>2, <3>3
      <3>5. room[k].text[1] \in Lines(room[k].text) /\ room[k].text[1] \in Int
        BY <2>1, <3>3, FirstIsLine DEF History, Spoken
      <3>6. room[k].text[1] < room[k].text[1]
        BY <2>1, <2>2, <3>2, <3>3, <3>4, <3>5 DEF History, Spoken
      <3> QED BY <3>5, <3>6
    <2> QED BY <2>1, <2>2 DEF History, Journal
  <1> QED BY <1>1, InvariantIInv, InvariantHistory, PTL

-----------------------------------------------------------------------------
(* Who sees the conversation.  A quiet server loses nobody: no write fails, *)
(* no thread ends, and the table has everybody.  What makes it quiet was so *)
(* in every state before, once it is so.                                    *)

\* Every cid was fresh, every accept good, and nobody has gone.
Calm == ~collided /\ acceptErrors = 0 /\ \A c \in Clients : phase[c] # "exited"

\* Then no thread gives up its client, and whoever is heard of is served.
Peaceful == Calm =>
  /\ \A p \in Ptrs : pc[p] \notin {"unlock", "close", "remove"} /\ buf[p].kind # "left"
  /\ \A p \in live : sockfd[p] # BadFd
  /\ \A c \in Clients : ~rst[c]
  /\ \A c \in Clients : Of(c) # {} => \E p \in Ptrs : Serves(p, c) /\ pc[p] # "idle"

\* There was a slot for every CLIENT.
Roomy == Calm /\ Cardinality(live) <= MAX_CONNECTIONS

\* Then every CLIENT whose thread runs is in the table.
Seated == Roomy => \A p \in live \ {newCli} : \E i \in Slots : clients[i] = p

\* And the chat that has been broadcast was seen by those who had joined.
Heard == Roomy => ConversationSeen

CalmInv == IsFiniteSet(live) /\ Peaceful /\ Seated /\ Heard

\* What the server was when it is calm.
LEMMA CalmBefore == ASSUME IInv, [Next]_vars, Calm' PROVE Calm
  <1>1. CASE UNCHANGED <<collided, acceptErrors, phase>>
    BY <1>1 DEF Calm
  <1>2. ASSUME NEW c \in Clients, ClientStep(c) PROVE Calm
    <2>1. \A d \in Clients : phase[d] = "exited" => phase'[d] = "exited"
      BY <1>2 DEF ClientStep, Connect, SendName, SendLine, Receive, Exit, IInv, TypeOK, PeersOK
    <2>2. UNCHANGED <<collided, acceptErrors>>
      BY <1>2 DEF ClientStep, Connect, SendName, SendLine, Receive, Exit
    <2> QED BY <2>1, <2>2 DEF Calm
  <1>3. CASE MainStep
    <2>1. UNCHANGED phase /\ acceptErrors <= acceptErrors' /\ acceptErrors \in Nat
      BY <1>3, ChatAssumption DEF MainStep, Accept, AcceptError, AddClient, IInv, TypeOK, ServerOK
    <2>2. collided => collided'
      BY <1>3, Zenon DEF MainStep, Accept, AcceptError, AddClient, NewClient
    <2> QED BY <2>1, <2>2 DEF Calm
  <1>4. ASSUME NEW p \in Ptrs, HandlerStep(p) PROVE UNCHANGED <<collided, acceptErrors, phase>>
    <2>1. CASE RecvName(p) \/ RecvData(p) \/ RecvEnd(p) \/ RecvError(p)
      BY <2>1 DEF RecvName, RecvData, RecvEnd, RecvError
    <2>2. CASE SendLock(p) \/ SendSkip(p) \/ SendWrite(p) \/ SendFail(p) \/ SendUnlock(p)
      BY <2>2 DEF SendLock, SendSkip, SendWrite, SendFail, SendUnlock
    <2>3. CASE LogOpen(p) \/ LogClose(p) \/ CloseSock(p) \/ RemoveClient(p)
      BY <2>3 DEF LogOpen, LogClose, CloseSock, RemoveClient
    <2> QED BY <1>4, <2>1, <2>2, <2>3 DEF HandlerStep
  <1> QED BY <1>1, <1>2, <1>3, <1>4 DEF Next, vars

\* Every thread of a calm server has its connection.
LEMMA CalmServes ==
  ASSUME IInv, Calm, Peaceful, NEW p \in live
  PROVE  p \in Ptrs /\ HasSocket(p) /\ Peer(p) \in Clients /\ Serves(p, Peer(p))
  <1>1. p \in Ptrs /\ sockfd[p] # BadFd /\ pc[p] # "remove"
    BY DEF Peaceful, IInv, TypeOK, ServerOK
  <1> QED BY <1>1 DEF HasSocket, Serves, IInv, OwnConnection

\* A thread of a calm server has no reason to give up its client.
LEMMA NoGivingUp ==
  ASSUME IInv, TableInv, Calm, Peaceful, NEW p \in Ptrs
  PROVE  /\ ~RecvEnd(p) /\ ~RecvError(p) /\ ~SendFail(p) /\ ~CloseSock(p) /\ ~RemoveClient(p)
         /\ RecvName(p) => UNCHANGED rst /\ buf'[p].kind = "join"
  <1>1. pc[p] \notin {"close", "remove", "unlock"}
    BY DEF Peaceful
  <1>2. pc[p] # "idle" => Peer(p) \in Clients
    BY CalmServes DEF IInv, Threads
  <1>3. ~RecvEnd(p) /\ ~RecvError(p)
    BY <1>2, ChatAssumption DEF RecvEnd, RecvError, Calm, Peaceful
  <1>4. ~CloseSock(p) /\ ~RemoveClient(p)
    BY <1>1 DEF CloseSock, RemoveClient
  <1>5. ~SendFail(p)
    <2>1. SUFFICES ASSUME SendFail(p) PROVE FALSE
      OBVIOUS
    <2>2. slot[p] \in Slots
      BY <2>1, ChatAssumption DEF SendFail, EndOfLoop, Slots, IInv, TypeOK, ThreadsOK
    <2>3. PICK q \in live : q = clients[slot[p]]
      BY <2>1, <2>2 DEF SendFail, Skips, TableInv, Calm
    <2>4. Peer(q) \in Clients /\ File(sockfd[clients[slot[p]]]) = Peer(q)
      BY <2>3, CalmServes DEF Peer
    <2> QED BY <2>1, <2>4, ChatAssumption DEF SendFail, Calm
  <1>6. ASSUME RecvName(p) PROVE UNCHANGED rst /\ buf'[p].kind = "join"
    <2>1. Peer(p) \in Clients /\ phase[Peer(p)] # "exited" /\ Peer(p) # NULL
      BY <1>2, <1>6, ChatAssumption DEF RecvName, Calm
    <2>2. UNCHANGED rst
      BY <1>6, <2>1 DEF RecvName
    <2>3. buf'[p].kind = "join"
      BY <1>6 DEF RecvName, Zeroed, IInv, TypeOK, ThreadsOK
    <2> QED BY <2>2, <2>3
  <1> QED BY <1>3, <1>4, <1>5, <1>6

\* What a step does to the CLIENT structures of a calm server: main may make
\* one, for a connection.
LEMMA CalmLive ==
  ASSUME IInv, TableInv, Calm, Calm', Peaceful, [Next]_vars
  PROVE  \/ live' = live /\ UNCHANGED sockfd /\ (AddClient \/ UNCHANGED <<clients, newCli>>)
         \/ \E p \in Ptrs, f \in Fds : /\ live' = live \cup {p} /\ sockfd' = [sockfd EXCEPT ![p] = f]
                           /\ newCli = NULL /\ newCli' = p /\ UNCHANGED clients
  <1>1. ASSUME NEW c \in Clients, ClientStep(c) PROVE UNCHANGED <<live, sockfd, clients, newCli>>
    BY <1>1 DEF ClientStep, Connect, SendName, SendLine, Receive, Exit
  <1>2. CASE AddClient \/ UNCHANGED vars
    BY <1>2 DEF AddClient, vars
  <1>3. CASE Accept
    BY <1>3 DEF Accept, NewClient
  <1>4. ~AcceptError
    BY ChatAssumption DEF AcceptError, Calm
  <1>5. ASSUME NEW p \in Ptrs, HandlerStep(p) PROVE UNCHANGED <<live, sockfd, clients, newCli>>
    <2>1. CASE RecvName(p) \/ RecvData(p)
      BY <2>1 DEF RecvName, RecvData
    <2>2. CASE SendLock(p) \/ SendSkip(p) \/ SendWrite(p) \/ SendUnlock(p)
      BY <2>2 DEF SendLock, SendSkip, SendWrite, SendUnlock
    <2>3. CASE LogOpen(p) \/ LogClose(p)
      BY <2>3 DEF LogOpen, LogClose
    <2> QED BY <1>5, <2>1, <2>2, <2>3, NoGivingUp DEF HandlerStep
  <1> QED BY <1>1, <1>2, <1>3, <1>4, <1>5 DEF Next, MainStep

\* Only a thread that takes the mutex adds to the room.
LEMMA OnlySendLock == ASSUME [Next]_vars PROVE UNCHANGED room \/ \E p \in Ptrs : SendLock(p)
  <1>1. ASSUME NEW d \in Clients, ClientStep(d) PROVE UNCHANGED room
    BY <1>1 DEF ClientStep, Connect, SendName, SendLine, Receive, Exit
  <1>2. CASE MainStep
    BY <1>2 DEF MainStep, Accept, AcceptError, AddClient
  <1>3. ASSUME NEW q \in Ptrs, HandlerStep(q) PROVE UNCHANGED room \/ SendLock(q)
    <2>1. CASE RecvName(q) \/ RecvData(q) \/ RecvEnd(q) \/ RecvError(q)
      BY <2>1 DEF RecvName, RecvData, RecvEnd, RecvError
    <2>2. CASE SendSkip(q) \/ SendWrite(q) \/ SendFail(q) \/ SendUnlock(q)
      BY <2>2 DEF SendSkip, SendWrite, SendFail, SendUnlock
    <2>3. CASE LogOpen(q) \/ LogClose(q) \/ CloseSock(q) \/ RemoveClient(q)
      BY <2>3 DEF LogOpen, LogClose, CloseSock, RemoveClient
    <2> QED BY <1>3, <2>1, <2>2, <2>3 DEF HandlerStep
  <1> QED BY <1>1, <1>2, <1>3 DEF Next, vars

\* Only the end of a broadcast frees the mutex.
LEMMA OnlySendUnlock ==
  ASSUME [Next]_vars, mutex # NULL, mutex' = NULL
  PROVE  \E p \in Ptrs : SendUnlock(p)
  <1>1. ASSUME NEW d \in Clients, ClientStep(d) PROVE UNCHANGED mutex
    BY <1>1 DEF ClientStep, Connect, SendName, SendLine, Receive, Exit
  <1>2. CASE MainStep
    BY <1>2 DEF MainStep, Accept, AcceptError, AddClient
  <1>3. ASSUME NEW q \in Ptrs, HandlerStep(q) PROVE SendUnlock(q)
    <2>1. CASE RecvName(q) \/ RecvData(q) \/ RecvEnd(q) \/ RecvError(q)
      BY <2>1 DEF RecvName, RecvData, RecvEnd, RecvError
    <2>2. CASE SendSkip(q) \/ SendWrite(q) \/ SendFail(q) \/ SendLock(q)
      BY <2>2, ChatAssumption DEF SendSkip, SendWrite, SendFail, SendLock
    <2>3. CASE LogOpen(q) \/ LogClose(q) \/ CloseSock(q) \/ RemoveClient(q)
      BY <2>3 DEF LogOpen, LogClose, CloseSock, RemoveClient
    <2> QED BY <1>3, <2>1, <2>2, <2>3 DEF HandlerStep
  <1> QED BY <1>1, <1>2, <1>3 DEF Next, vars

\* A calm server stays peaceful.
LEMMA PeacefulStep ==
  ASSUME IInv, IInv', TableInv, Peaceful, [Next]_vars
  PROVE  Peaceful'
  <1> SUFFICES ASSUME Calm' PROVE Peaceful'
    BY DEF Peaceful
  <1> USE DEF IInv, TypeOK, ThreadsOK
  <1>1. Calm
    BY CalmBefore
  <1>2. \A p \in live' : sockfd'[p] # BadFd
    <2>1. \A p \in live : sockfd[p] # BadFd
      BY <1>1 DEF Peaceful
    <2>2. BadFd \notin Fds
      BY ChatAssumption DEF BadFd, Fds
    <2> QED BY <1>1, <2>1, <2>2, CalmLive DEF ServerOK
  <1>3. /\ \A c \in Clients : ~rst'[c]
        /\ \A p \in Ptrs : pc'[p] \notin {"unlock", "close", "remove"} /\ buf'[p].kind # "left"
    <2>1. /\ \A c \in Clients : ~rst[c]
          /\ \A p \in Ptrs : pc[p] \notin {"unlock", "close", "remove"} /\ buf[p].kind # "left"
      BY <1>1 DEF Peaceful
    <2>2. ASSUME NEW c \in Clients, ClientStep(c), ~Exit(c) PROVE UNCHANGED <<rst, pc, buf>>
      BY <2>2 DEF ClientStep, Connect, SendName, SendLine, Receive
    <2>3. \A c \in Clients : ~Exit(c)
      BY DEF Exit, Calm, PeersOK
    <2>4. CASE MainStep
      BY <2>1, <2>4 DEF MainStep, Accept, AcceptError, AddClient
    <2>5. CASE UNCHANGED vars
      BY <2>1, <2>5 DEF vars
    <2>6. ASSUME NEW p \in Ptrs, HandlerStep(p)
          PROVE  UNCHANGED rst /\ pc'[p] \notin {"unlock", "close", "remove"} /\ buf'[p].kind # "left"
      <3>1. CASE RecvName(p)
        BY <1>1, <3>1, NoGivingUp DEF RecvName
      <3>2. CASE RecvData(p)
        <4>1. UNCHANGED rst
          BY <3>2 DEF RecvData
        <4>2. (pc'[p] = "lock" /\ buf'[p].kind = "chat") \/ UNCHANGED <<pc, buf>>
          BY <3>2 DEF RecvData
        <4> QED BY <2>1, <4>1, <4>2
      <3>3. CASE SendLock(p) \/ SendSkip(p) \/ SendWrite(p)
        BY <2>1, <3>3 DEF SendLock, SendSkip, SendWrite
      <3>4. CASE SendUnlock(p)
        BY <2>1, <3>4 DEF SendUnlock, AfterSend, Zeroed, Message, Kinds
      <3>5. CASE LogOpen(p) \/ LogClose(p)
        BY <2>1, <3>5 DEF LogOpen, LogClose, Zeroed
      <3> QED BY <1>1, <2>6, <3>1, <3>2, <3>3, <3>4, <3>5, NoGivingUp DEF HandlerStep
    <2>7. ASSUME NEW p \in Ptrs, HandlerStep(p)
          PROVE  /\ \A c \in Clients : ~rst'[c]
                 /\ \A q \in Ptrs : pc'[q] \notin {"unlock", "close", "remove"} /\ buf'[q].kind # "left"
      BY <2>1, <2>6, <2>7, OneThread
    <2> QED BY <2>1, <2>2, <2>3, <2>4, <2>5, <2>7 DEF Next
  <1>4. ASSUME NEW c \in Clients, Of(c)' # {}
        PROVE  \E p \in Ptrs : Serves(p, c)' /\ pc'[p] # "idle"
    <2>1. PICK p \in Ptrs : Serves(p, c) /\ pc[p] # "idle"
      <3>1. CASE Of(c) # {}
        BY <1>1, <3>1 DEF Peaceful
      <3>2. CASE Of(c) = {}
        <4>1. ASSUME UNCHANGED room PROVE FALSE
          BY <1>4, <3>2, <4>1 DEF Of
        <4>5. PICK q \in Ptrs : SendLock(q)
          BY <4>1, OnlySendLock
        <4>6. PICK e : e = [kind |-> buf[q].kind, text |-> buf[q].text, from |-> Peer(q)]
          OBVIOUS
        <4>7. /\ DOMAIN room' = DOMAIN room \cup {Len(room) + 1} /\ room'[Len(room) + 1] = e
              /\ \A k \in DOMAIN room : room'[k] = room[k]
          BY <4>5, <4>6, RoomGrows DEF SendLock
        <4>8. Peer(q) = c
          BY <1>4, <3>2, <4>6, <4>7 DEF Of
        <4>9. pc[q] = "lock"
          BY <4>5 DEF SendLock
        <4> QED BY <4>8, <4>9, SpeaksFor
      <3> QED BY <3>1, <3>2
    <2>2. Serves(p, c)'
      BY <1>3, <2>1, ServesAfter
    <2>3. pc'[p] # "idle"
      <3>1. CASE Still(p)
        BY <2>1, <3>1 DEF Still
      <3>2. CASE HandlerStep(p)
        <4>1. CASE RecvName(p) \/ SendLock(p) \/ SendSkip(p) \/ SendWrite(p) \/ LogOpen(p) \/ LogClose(p)
          BY <2>1, <4>1 DEF RecvName, SendLock, SendSkip, SendWrite, LogOpen, LogClose
        <4>2. CASE RecvData(p)
          BY <2>1, <4>2 DEF RecvData
        <4>3. CASE SendUnlock(p)
          BY <4>3, AfterSendIn DEF SendUnlock
        <4> QED BY <1>1, <3>2, <4>1, <4>2, <4>3, NoGivingUp DEF HandlerStep
      <3> QED BY <3>1, <3>2, OthersStill, OneThread DEF Still
    <2> QED BY <2>2, <2>3
  <1> QED BY <1>2, <1>3, <1>4 DEF Peaceful

\* A set of natural numbers that is not empty has a least element.
LEMMA LeastNumber ==
  ASSUME NEW T \in SUBSET Nat, T # {}
  PROVE  \E m \in T : \A k \in T : m <= k
  <1> DEFINE R == OpToRel(<, Nat)
  <1>1. IsWellFoundedOn(R, Nat)
    BY NatLessThanWellFounded
  <1>2. \A x, y \in Nat : x < y => <<x, y>> \in R
    BY DEF OpToRel
  <1> HIDE DEF R
  <1>3. PICK x \in T : \A y \in T : ~ (<<y, x>> \in R)
    BY <1>1, WFMin
  <1>4. \A y \in T : ~ (y < x)
    BY <1>2, <1>3
  <1>5. \A y \in T : x <= y
    BY <1>4
  <1> QED BY <1>5

\* There are finitely many CLIENTs.
LEMMA FiniteStep == IInv /\ IsFiniteSet(live) /\ [Next]_vars => IsFiniteSet(live')
  <1> SUFFICES ASSUME IInv, IsFiniteSet(live), [Next]_vars PROVE IsFiniteSet(live')
    OBVIOUS
  <1>1. ASSUME live' \subseteq live PROVE IsFiniteSet(live')
    BY <1>1, FS_Subset
  <1>2. ASSUME NEW p, live' = live \cup {p} PROVE IsFiniteSet(live')
    BY <1>2, FS_AddElement
  <1>3. ASSUME NEW c \in Clients, ClientStep(c) PROVE UNCHANGED live
    BY <1>3 DEF ClientStep, Connect, SendName, SendLine, Receive, Exit
  <1>4. CASE MainStep
    BY <1>1, <1>2, <1>4 DEF MainStep, Accept, AcceptError, AddClient, NewClient
  <1>5. ASSUME NEW q \in Ptrs, HandlerStep(q) PROVE live' \subseteq live
    <2>1. CASE RecvName(q) \/ RecvData(q) \/ RecvEnd(q) \/ RecvError(q)
      BY <2>1 DEF RecvName, RecvData, RecvEnd, RecvError
    <2>2. CASE SendLock(q) \/ SendSkip(q) \/ SendWrite(q) \/ SendFail(q) \/ SendUnlock(q)
      BY <2>2 DEF SendLock, SendSkip, SendWrite, SendFail, SendUnlock
    <2>3. CASE LogOpen(q) \/ LogClose(q) \/ CloseSock(q) \/ RemoveClient(q)
      BY <2>3 DEF LogOpen, LogClose, CloseSock, RemoveClient
    <2> QED BY <1>5, <2>1, <2>2, <2>3 DEF HandlerStep
  <1> QED BY <1>1, <1>3, <1>4, <1>5 DEF Next, vars

\* A table with no free slot holds more CLIENTs than the newest leaves room for.
LEMMA FreeSlot ==
  ASSUME IInv, TableInv, ~collided, IsFiniteSet(live), Cardinality(live) <= MAX_CONNECTIONS,
         newCli # NULL
  PROVE  \E i \in Slots : FirstFreeSlot(i)
  <1>1. newCli \in live /\ MAX_CONNECTIONS \in Nat /\ MAX_CONNECTIONS > 0
    BY ChatAssumption DEF IInv, Threads
  <1>2. \E i \in Slots : clients[i] = NULL
    <2>1. SUFFICES ASSUME \A i \in Slots : clients[i] # NULL PROVE FALSE
      OBVIOUS
    <2> DEFINE others == live \ {newCli}
    <2>2. clients \in [Slots -> others] /\ \A i, j \in Slots : clients[i] = clients[j] => i = j
      BY <2>1 DEF TableInv, IInv, TypeOK, ServerOK
    <2>3. IsFiniteSet(others) /\ Cardinality(others) = Cardinality(live) - 1
      BY <1>1, FS_RemoveElement
    <2>4. IsFiniteSet(Slots) /\ Cardinality(Slots) = MAX_CONNECTIONS
      BY <1>1, FS_Interval DEF Slots
    <2>5. Cardinality(live) \in Nat
      BY FS_CardinalityType
    <2>6. Cardinality(others) < Cardinality(Slots)
      BY <1>1, <2>3, <2>4, <2>5
    <2> QED BY <2>2, <2>3, <2>4, <2>6, FS_PigeonHole
  <1>3. PICK m \in {i \in Slots : clients[i] = NULL} :
          \A k \in {i \in Slots : clients[i] = NULL} : m <= k
    <2>1. {i \in Slots : clients[i] = NULL} \in SUBSET Nat
      BY <1>1 DEF Slots
    <2> QED BY <1>2, <2>1, LeastNumber
  <1>4. \A j \in 1..(m - 1) : j \in Slots /\ ~(m <= j)
    BY <1>1, <1>3 DEF Slots
  <1> QED BY <1>3, <1>4 DEF FirstFreeSlot

\* A quiet server was quiet.
LEMMA RoomyBefore ==
  ASSUME IInv, IInv', TableInv, Peaceful, IsFiniteSet(live), IsFiniteSet(live'), [Next]_vars, Roomy'
  PROVE  Roomy /\ Calm /\ Calm'
  <1>1. Calm /\ Calm'
    BY CalmBefore DEF Roomy
  <1>2. live \subseteq live'
    BY <1>1, CalmLive
  <1>3. Cardinality(live) <= Cardinality(live') /\ Cardinality(live) \in Nat /\ Cardinality(live') \in Nat
    BY <1>2, FS_Subset, FS_CardinalityType
  <1> QED BY <1>1, <1>3, ChatAssumption DEF Roomy

\* add_client seats the newest.
LEMMA SeatedStep ==
  ASSUME IInv, IInv', TableInv, Peaceful, Seated, IsFiniteSet(live), IsFiniteSet(live'), [Next]_vars
  PROVE  Seated'
  <1> SUFFICES ASSUME Roomy', NEW p \in live' \ {newCli'} PROVE \E i \in Slots : clients'[i] = p
    BY DEF Seated
  <1>1. Roomy /\ Calm /\ Calm'
    BY RoomyBefore
  <1>2. \A q \in live \ {newCli} : \E i \in Slots : clients[i] = q
    BY <1>1 DEF Seated
  <1>3. NULL \notin live
    BY ChatAssumption DEF IInv, TypeOK, ServerOK
  <1>4. CASE UNCHANGED <<live, clients, newCli>>
    BY <1>2, <1>4
  <1>5. CASE AddClient /\ live' = live
    <2>1. newCli # NULL /\ newCli \in live
      BY <1>5 DEF AddClient, IInv, Threads
    <2>2. PICK i \in Slots : FirstFreeSlot(i)
      BY <1>1, <2>1, FreeSlot DEF Roomy, Calm
    <2>3. \A j \in Slots : clients'[j] = IF FirstFreeSlot(j) THEN newCli ELSE clients[j]
      BY <1>5 DEF AddClient
    <2>4. CASE p = newCli
      BY <2>2, <2>3, <2>4
    <2>5. CASE p # newCli
      <3>1. PICK j \in Slots : clients[j] = p
        BY <1>2, <1>5, <2>5
      <3>2. ~FirstFreeSlot(j)
        BY <1>3, <1>5, <3>1 DEF FirstFreeSlot
      <3> QED BY <2>3, <3>1, <3>2
    <2> QED BY <2>4, <2>5
  <1>6. ASSUME NEW q \in Ptrs, live' = live \cup {q}, newCli = NULL, newCli' = q, UNCHANGED clients
        PROVE  \E i \in Slots : clients'[i] = p
    BY <1>2, <1>3, <1>6
  <1> QED BY <1>1, <1>4, <1>5, <1>6, CalmLive

\* At the end of the loop everybody who had joined was sent the chat.
LEMMA HeardStep ==
  ASSUME IInv, IInv', OrderInv, OrderInv', TableInv, ReachInv, Speaker,
         Peaceful, Seated, Heard, IsFiniteSet(live), IsFiniteSet(live'), [Next]_vars
  PROVE  Heard'
  <1> SUFFICES ASSUME Roomy', NEW k \in DOMAIN room', room'[k].kind = "chat", Finished(k)',
                      NEW c \in Clients, c # room'[k].from, JoinedBefore(c, k)'
               PROVE  k \in ToSet(down'[c])
    BY DEF Heard, ConversationSeen
  <1>1. Roomy /\ Calm /\ Calm'
    BY RoomyBefore
  <1>2. ConversationSeen /\ phase[c] # "exited"
    BY <1>1 DEF Heard, Calm
  <1>3. room \in Seq(Entry) /\ room' \in Seq(Entry)
    BY DEF IInv, TypeOK, HistoryOK
  <1>4. /\ k \in DOMAIN room /\ Len(room) \in Nat /\ DOMAIN room = 1..Len(room)
        /\ \A j \in DOMAIN room : room'[j] = room[j]
        /\ mutex # NULL => UNCHANGED room
    <2>1. CASE UNCHANGED room
      BY <1>3, <2>1
    <2>2. ASSUME NEW p \in Ptrs, SendLock(p)
          PROVE  /\ k \in DOMAIN room /\ Len(room) \in Nat /\ DOMAIN room = 1..Len(room)
                 /\ \A j \in DOMAIN room : room'[j] = room[j]
                 /\ mutex # NULL => UNCHANGED room
      <3>1. /\ DOMAIN room' = DOMAIN room \cup {Len(room) + 1}
            /\ \A j \in DOMAIN room : room'[j] = room[j]
            /\ mutex = NULL /\ mutex' # NULL
        BY <2>2, RoomGrows, ChatAssumption DEF SendLock, CanLock
      <3>2. Len(room) \in Nat /\ DOMAIN room = 1..Len(room) /\ DOMAIN room' = 1..Len(room')
            /\ Len(room') \in Nat
        BY <1>3
      <3>3. k < Len(room')
        BY <3>1 DEF Finished
      <3>4. Len(room') = Len(room) + 1
        BY <1>3, <2>2 DEF SendLock
      <3> QED BY <3>1, <3>2, <3>3, <3>4
    <2> QED BY <2>1, <2>2, OnlySendLock
  <1>5. JoinedBefore(c, k)
    BY <1>4 DEF JoinedBefore
  <1>6. CASE Finished(k)
    <2>1. k \in ToSet(down[c])
      BY <1>2, <1>4, <1>5, <1>6 DEF ConversationSeen
    <2> QED BY <2>1, DownGrows
  <1>7. CASE ~Finished(k)
    <2>1. k = Len(room) /\ mutex # NULL /\ mutex' = NULL
      BY <1>4, <1>7 DEF Finished
    <2>2. PICK p \in Ptrs : SendUnlock(p)
      BY <2>1, OnlySendUnlock
    <2>3. Sending(p) /\ EndOfLoop(p) /\ UNCHANGED down
      BY <1>1, <2>2 DEF SendUnlock, Sending, Peaceful
    <2>4. msg[p] = k /\ Peer(p) # c
      <3>1. msg[p] = k
        BY <2>1, <2>3 DEF OrderInv, Newest
      <3> QED BY <1>4, <2>3, <3>1 DEF Speaker
    <2>5. PICK q \in Ptrs : Serves(q, c) /\ pc[q] # "idle"
      <3>1. PICK j \in 1..(k - 1) : room[j].from = c
        BY <1>5 DEF JoinedBefore
      <3>2. j \in Of(c)
        BY <1>4, <3>1 DEF Of
      <3> QED BY <1>1, <3>2 DEF Peaceful
    <2>6. q \in live \ {newCli} /\ p \in live /\ p # q
      <3>1. q # newCli
        BY <2>5, ChatAssumption DEF IInv, Threads
      <3>2. p \in live
        BY <2>3 DEF Sending, IInv, Threads
      <3> QED BY <2>4, <2>5, <3>1, <3>2 DEF Serves, HasSocket
    <2>7. PICK i \in Slots : clients[i] = q
      BY <1>1, <2>6 DEF Seated
    <2>8. q # NULL /\ HasSocket(q) /\ Peer(q) = c /\ cid[q] # cid[p]
      BY <1>1, <2>5, <2>6, ChatAssumption DEF Serves, TableInv, Calm
    <2>9. Online(c)
      <3>1. \E f \in Fds : fdtab[f] = c
        BY <2>8, ChatAssumption DEF Peer, File
      <3>2. phase[c] # "idle"
        BY <3>1 DEF IInv, Connections
      <3> QED BY <1>2, <3>2 DEF Online, IInv, TypeOK, PeersOK
    <2>10. i \in 1..(slot[p] - 1)
      BY <2>3, ChatAssumption DEF EndOfLoop, Slots, IInv, TypeOK, ThreadsOK
    <2>11. msg[p] \in ToSet(down[Peer(clients[i])])
      BY <2>3, <2>6, <2>7, <2>8, <2>9, <2>10 DEF ReachInv, BroadcastReaches
    <2> QED BY <2>3, <2>4, <2>7, <2>8, <2>11
  <1> QED BY <1>6, <1>7

\* In a server where every cid was fresh, every accept good, nobody has gone
\* and there was a slot for everybody, each client is shown every chat message
\* of the others that is broadcast after it joined.
THEOREM QuietConversationSeen == Spec => []ConversationSeenIfQuiet
  <1>1. Init => CalmInv /\ TableInv /\ ReachInv
    <2> SUFFICES ASSUME Init PROVE CalmInv /\ TableInv /\ ReachInv
      OBVIOUS
    <2>1. room = <<>> /\ live = {} /\ \A p \in Ptrs : pc[p] = "idle" /\ buf[p].kind = "join" /\ slot[p] = 1
      BY DEF Init, Zeroed
    <2>2. \A c \in Clients : Of(c) = {} /\ ~rst[c]
      BY <2>1 DEF Of, Init
    <2>3. Peaceful /\ Seated /\ Heard
      BY <2>1, <2>2 DEF Peaceful, Seated, Heard, ConversationSeen
    <2>4. ReachInv
      BY <2>1 DEF ReachInv, BroadcastReaches, Sending
    <2> QED BY <2>1, <2>3, <2>4, FS_EmptySet, InitTable DEF CalmInv
  <1>2. /\ IInv /\ IInv' /\ OrderInv /\ OrderInv' /\ Speaker
        /\ CalmInv /\ TableInv /\ ReachInv /\ [Next]_vars
        => (CalmInv /\ TableInv /\ ReachInv)'
    BY FiniteStep, PeacefulStep, SeatedStep, HeardStep, TableStep, ReachStep DEF CalmInv
  <1>3. CalmInv => ConversationSeenIfQuiet
    BY DEF CalmInv, Heard, Roomy, Calm, ConversationSeenIfQuiet
  <1> QED BY <1>1, <1>2, <1>3, InvariantIInv, InvariantOrder, InvariantSpeaker, PTL DEF Spec
=============================================================================

----------------------------- MODULE ChatServer -----------------------------
(***************************************************************************)
(* The chat server A5/server.c and the client processes A5/client.c that   *)
(* talk to it over TCP.                                                    *)
(*                                                                         *)
(* main() accepts connections; each gets a malloc'd CLIENT, an entry of    *)
(* the table clients[] if one is free, and a thread running handleClient.  *)
(* A thread is named by the address of its CLIENT, which it frees as its   *)
(* last act, so that an address can be handed out again.  Descriptors are  *)
(* the numbers the kernel gives, lowest free first, shared by sockets and  *)
(* the log file.  clients_mutex is held for whole critical sections: those *)
(* of add_client and remove_client touch only what the mutex protects and  *)
(* are one step each, that of send_msg writes to sockets and is one step   *)
(* per table entry.                                                        *)
(*                                                                         *)
(* A broadcast is represented by its position in room, the history of all  *)
(* broadcasts; a chat line by its number among its sender's lines.         *)
(***************************************************************************)
EXTENDS Integers, Sequences, SequencesExt

CONSTANTS
  Clients,          \* client processes; each connects at most once
  Ptrs,             \* addresses malloc can return for a CLIENT
  CIDs,             \* values random_at_most(100) can return
  MAX_CONNECTIONS,  \* length of clients[] and of the listen backlog
  MaxFd,            \* descriptors are 1..MaxFd
  MaxMsgs,          \* bound: lines one user types
  MaxAcceptErrors,  \* bound: accept() calls that return -1
  SockBuf,          \* broadcasts a client's socket buffers hold unread
  Talkers, Leavers, \* bound: clients that type lines, that exit
  Readers,          \* clients whose program keeps running
  NULL, LOG         \* the null pointer; the open file logs.txt

ASSUME ChatAssumption ==
  /\ CIDs \subseteq Nat /\ CIDs # {}
  /\ MAX_CONNECTIONS \in Nat \ {0} /\ MaxFd \in Nat /\ SockBuf \in Nat \ {0}
  /\ MaxMsgs \in Nat /\ MaxAcceptErrors \in Nat
  /\ Readers \cup Talkers \cup Leavers \subseteq Clients
  /\ NULL \notin Clients \cup Ptrs \cup {LOG}
  /\ LOG \notin Clients

VARIABLES
  phase, sent, nread, rst,   \* client processes
  up, down,                  \* bytes to the server; broadcasts to the client
  backlog, fdtab,            \* kernel: listen queue, descriptor table
  live, sockfd, cid,         \* the CLIENT structures
  clients, mutex,            \* the table and its lock
  newCli, acceptErrors,      \* main
  pc, buf, msg, slot, logfd, \* handleClient threads
  room, log,                 \* history of broadcasts; the file logs.txt
  collided                   \* history: did a cid ever match a live one

peerVars   == <<phase, sent, nread, rst>>
kernelVars == <<backlog, fdtab>>
heapVars   == <<live, sockfd, cid, collided>>
tableVars  == <<clients, mutex>>
mainVars   == <<newCli, acceptErrors>>
threadVars == <<pc, buf, msg, slot, logfd>>

vars == <<peerVars, up, down, kernelVars, heapVars, tableVars, mainVars,
          threadVars, room, log>>

Fds   == 1..MaxFd
BadFd == -1               \* what accept returns when it fails
Slots == 1..MAX_CONNECTIONS

\* What travels to the server: the name, its padding to NAME_LEN bytes of
\* '\0', and lines 1..MaxMsgs, each ended by '\n'.
NAME   == -1
PAD    == 0
Tokens == {NAME, PAD} \cup 1..MaxMsgs

Kinds   == {"join", "chat", "left"}
Message == [kind : Kinds, text : Seq(Tokens)]
Entry   == [kind : Kinds, text : Seq(Tokens), from : Clients \cup {NULL}]

\* A line of logs.txt: the record of a chat line (from, its number), or a
\* broadcast written raw into the file (its sender, its position in room).
LogEntry == [raw : BOOLEAN, from : Clients \cup {NULL}, n : Int]

PCs == {"idle", "name", "lock", "send", "unlock", "recv", "log", "logging",
        "close", "remove"}

\* A buffer after bzero: nothing to handle.
Zeroed == [kind |-> "join", text |-> <<>>]

Init ==
  /\ phase = [c \in Clients |-> "idle"]
  /\ sent  = [c \in Clients |-> 0]
  /\ nread = [c \in Clients |-> 0]
  /\ rst   = [c \in Clients |-> FALSE]
  /\ up    = [c \in Clients |-> <<>>]
  /\ down  = [c \in Clients |-> <<>>]
  /\ backlog = <<>>
  /\ fdtab   = [f \in Fds |-> NULL]
  /\ live   = {}
  /\ sockfd = [p \in Ptrs |-> BadFd]
  /\ cid    = [p \in Ptrs |-> 0]
  /\ clients = [i \in Slots |-> NULL]
  /\ mutex   = NULL
  /\ newCli  = NULL
  /\ acceptErrors = 0
  /\ pc    = [p \in Ptrs |-> "idle"]
  /\ buf   = [p \in Ptrs |-> Zeroed]
  /\ msg   = [p \in Ptrs |-> 0]
  /\ slot  = [p \in Ptrs |-> 1]
  /\ logfd = [p \in Ptrs |-> BadFd]
  /\ room = <<>>
  /\ log  = <<>>
  /\ collided = FALSE

-----------------------------------------------------------------------------
(* Client processes, as far as the server can tell them apart.             *)

\* connect(): the kernel completes the handshake before any accept().
Connect(c) ==
  /\ phase[c] = "idle"
  /\ Len(backlog) < MAX_CONNECTIONS
  /\ phase' = [phase EXCEPT ![c] = "connected"]
  /\ backlog' = Append(backlog, c)
  /\ UNCHANGED <<sent, nread, rst, up, down, fdtab, heapVars, tableVars,
                 mainVars, threadVars, room, log>>

\* send(sockfd, name, NAME_LEN, 0)
SendName(c) ==
  /\ phase[c] = "connected"
  /\ phase' = [phase EXCEPT ![c] = "chatting"]
  /\ up' = [up EXCEPT ![c] = <<NAME, PAD>>]
  /\ UNCHANGED <<sent, nread, rst, down, kernelVars, heapVars, tableVars,
                 mainVars, threadVars, room, log>>

\* sendHandler sends one line the user typed.
SendLine(c) ==
  /\ phase[c] = "chatting"
  /\ c \in Talkers /\ sent[c] < MaxMsgs
  /\ sent' = [sent EXCEPT ![c] = @ + 1]
  /\ up' = [up EXCEPT ![c] = Append(@, sent[c] + 1)]
  /\ UNCHANGED <<phase, nread, rst, down, kernelVars, heapVars, tableVars,
                 mainVars, threadVars, room, log>>

Online(c) == phase[c] \in {"connected", "chatting"}

\* receiveHandler takes what one broadcast left in the socket.  The thread
\* is created after the name is sent.
Receive(c) ==
  /\ phase[c] = "chatting"
  /\ nread[c] < Len(down[c])
  /\ nread' = [nread EXCEPT ![c] = @ + 1]
  /\ UNCHANGED <<phase, sent, rst, up, down, kernelVars, heapVars, tableVars,
                 mainVars, threadVars, room, log>>

\* The process ends, by "exit" or killed.  The kernel sends FIN, or RST if
\* broadcasts are still unread.
Exit(c) ==
  /\ Online(c)
  /\ c \in Leavers
  /\ phase' = [phase EXCEPT ![c] = "exited"]
  /\ rst' = [rst EXCEPT ![c] = nread[c] < Len(down[c])]
  /\ UNCHANGED <<sent, nread, up, down, kernelVars, heapVars, tableVars,
                 mainVars, threadVars, room, log>>

-----------------------------------------------------------------------------
(* main(): accept, malloc, draw a cid, add_client, pthread_create.         *)

\* Mutant: the kernel hands out a descriptor an open log file still uses.
FreeFdsMutant == {f \in Fds : fdtab[f] \notin Clients}

FreeFds == {f \in Fds : fdtab[f] = NULL}

IsLowestFree(f) == /\ f \in FreeFds
                   /\ \A g \in FreeFds : f <= g

\* malloc a CLIENT at p for descriptor f and draw its cid.
NewClient(p, f, id) ==
  /\ p \notin live
  /\ live'   = live \cup {p}
  /\ sockfd' = [sockfd EXCEPT ![p] = f]
  /\ cid'    = [cid EXCEPT ![p] = id]
  /\ newCli' = p
  /\ collided' = (collided \/ \E q \in live : cid[q] = id)

Accept ==
  /\ newCli = NULL
  /\ backlog # <<>>
  /\ backlog' = Tail(backlog)
  /\ \E f \in Fds, p \in Ptrs, id \in CIDs :
       /\ IsLowestFree(f)
       /\ fdtab' = [fdtab EXCEPT ![f] = Head(backlog)]
       /\ NewClient(p, f, id)
  /\ UNCHANGED <<peerVars, up, down, tableVars, acceptErrors, threadVars,
                 room, log>>

\* accept() fails (no descriptors, connection aborted): its result is not
\* tested and a CLIENT is made for descriptor -1 all the same.
AcceptError ==
  /\ newCli = NULL
  /\ acceptErrors < MaxAcceptErrors
  /\ acceptErrors' = acceptErrors + 1
  /\ \E p \in Ptrs, id \in CIDs : NewClient(p, BadFd, id)
  /\ UNCHANGED <<peerVars, up, down, kernelVars, tableVars, threadVars,
                 room, log>>

\* add_client takes the first free slot, or none when the table is full;
\* the thread is created in both cases.
FirstFreeSlot(i) == /\ clients[i] = NULL
                    /\ \A j \in 1..(i - 1) : clients[j] # NULL

AddClient ==
  /\ newCli # NULL
  /\ mutex = NULL
  /\ clients' = [i \in Slots |-> IF FirstFreeSlot(i) THEN newCli ELSE clients[i]]
  /\ pc' = [pc EXCEPT ![newCli] = "name"]
  /\ newCli' = NULL
  /\ UNCHANGED <<peerVars, up, down, kernelVars, heapVars, mutex,
                 acceptErrors, buf, msg, slot, logfd, room, log>>

-----------------------------------------------------------------------------
(* handleClient(cli), the thread of CLIENT p.                              *)

File(f) == IF f \in Fds THEN fdtab[f] ELSE NULL

\* The connection behind the thread's own descriptor, NULL for -1.
Peer(p) == File(sockfd[p])

\* A reset is reported by one call on the socket; later recv see end of file.
ErrorReported(c) == [d \in Clients |-> rst[d] /\ d # c]

\* recv(sockfd, name, NAME_LEN): a stream may deliver the name without all
\* of its padding.  On end of file or error nothing is stored and the name
\* that is announced is whatever the array held.
RecvName(p) ==
  /\ pc[p] = "name"
  /\ \/ /\ Peer(p) # NULL /\ up[Peer(p)] # <<>>
        /\ \E k \in 1..2 :
             /\ buf' = [buf EXCEPT ![p] = [kind |-> "join", text |-> <<NAME>>]]
             /\ up' = [up EXCEPT ![Peer(p)] = SubSeq(@, k + 1, Len(@))]
        /\ UNCHANGED rst
     \/ /\ Peer(p) # NULL => up[Peer(p)] = <<>> /\ phase[Peer(p)] = "exited"
        /\ buf' = [buf EXCEPT ![p] = Zeroed]
        /\ rst' = ErrorReported(Peer(p))
        /\ UNCHANGED up
  /\ pc' = [pc EXCEPT ![p] = "lock"]
  /\ UNCHANGED <<phase, sent, nread, down, kernelVars, heapVars, tableVars, mainVars,
                 msg, slot, logfd, room, log>>

\* Mutant: send_msg does not lock.
CanLockMutant == TRUE

CanLock == mutex = NULL

\* send_msg: lock, and start the loop over the table; msg is the string s.
SendLock(p) ==
  /\ pc[p] = "lock"
  /\ CanLock
  /\ mutex' = p
  /\ room' = Append(room, [kind |-> buf[p].kind, text |-> buf[p].text,
                           from |-> Peer(p)])
  /\ msg' = [msg EXCEPT ![p] = Len(room) + 1]
  /\ pc' = [pc EXCEPT ![p] = "send"]
  /\ UNCHANGED <<peerVars, up, down, kernelVars, heapVars, clients, mainVars,
                 buf, slot, logfd, log>>

\* Mutant: only clients with a larger cid are written to.
SkipsMutantLess(p, q) == q # NULL => cid[q] <= cid[p]

\* Mutant: nobody is skipped but empty slots.
SkipsMutant(p, q) == q = NULL

\* The entry is empty, or has the sender's cid.
Skips(p, q) == q # NULL => cid[q] = cid[p]

\* Mutant: the loop stops one slot early.
EndOfLoopMutant(p) == slot[p] >= MAX_CONNECTIONS

EndOfLoop(p) == slot[p] > MAX_CONNECTIONS

SendSkip(p) ==
  /\ pc[p] = "send" /\ ~EndOfLoop(p)
  /\ Skips(p, clients[slot[p]])
  /\ slot' = [slot EXCEPT ![p] = @ + 1]
  /\ UNCHANGED <<peerVars, up, down, kernelVars, heapVars, tableVars,
                 mainVars, pc, buf, msg, logfd, room, log>>

\* write() succeeds: the broadcast is queued for a client, waiting while its
\* buffers are full; or is lost on a connection whose client has exited; or,
\* if the descriptor was closed and reused for the log, lands in the file.
SendWrite(p) ==
  /\ pc[p] = "send" /\ ~EndOfLoop(p)
  /\ ~Skips(p, clients[slot[p]])
  /\ LET c == File(sockfd[clients[slot[p]]]) IN
     \/ /\ c \in Clients /\ Online(c)
        /\ Len(down[c]) - nread[c] < SockBuf
        /\ down' = [down EXCEPT ![c] = Append(@, msg[p])]
        /\ UNCHANGED log
     \/ /\ c \in Clients /\ phase[c] = "exited"
        /\ UNCHANGED <<down, log>>
     \/ /\ c = LOG
        /\ log' = Append(log, [raw |-> TRUE, from |-> Peer(p), n |-> msg[p]])
        /\ UNCHANGED down
  /\ slot' = [slot EXCEPT ![p] = @ + 1]
  /\ UNCHANGED <<peerVars, up, kernelVars, heapVars, tableVars, mainVars,
                 pc, buf, msg, logfd, room>>

\* write() fails, the descriptor closed or -1 or the client gone: break.
SendFail(p) ==
  /\ pc[p] = "send" /\ ~EndOfLoop(p)
  /\ ~Skips(p, clients[slot[p]])
  /\ LET c == File(sockfd[clients[slot[p]]]) IN
     /\ c = NULL \/ (c \in Clients /\ phase[c] = "exited")
     /\ rst' = ErrorReported(c)
  /\ pc' = [pc EXCEPT ![p] = "unlock"]
  /\ UNCHANGED <<phase, sent, nread, up, down, kernelVars, heapVars, tableVars,
                 mainVars, buf, msg, slot, logfd, room, log>>

\* Mutant: leave_flag is not set after a farewell.
AfterSendMutant(p) == CASE buf[p].kind = "join" -> "recv"
                        [] buf[p].kind = "chat" -> "log"
                        [] buf[p].kind = "left" -> "recv"

\* Where handleClient goes after send_msg.
AfterSend(p) == CASE buf[p].kind = "join" -> "recv"
                  [] buf[p].kind = "chat" -> "log"
                  [] buf[p].kind = "left" -> "close"

\* Mutant: the failed write returns without unlocking.
SendUnlockMutant(p) ==
  /\ pc[p] = "unlock" \/ (pc[p] = "send" /\ EndOfLoop(p))
  /\ mutex' = IF pc[p] = "unlock" THEN mutex ELSE NULL
  /\ pc' = [pc EXCEPT ![p] = AfterSend(p)]
  /\ slot' = [slot EXCEPT ![p] = 1]
  /\ msg' = [msg EXCEPT ![p] = 0]
  /\ buf' = [buf EXCEPT ![p] = IF @.kind = "chat" THEN @ ELSE Zeroed]
  /\ UNCHANGED <<peerVars, up, down, kernelVars, heapVars, clients, mainVars,
                 logfd, room, log>>

\* The loop variable ends with send_msg; a buffer is zeroed after a join or a
\* farewell.
SendUnlock(p) ==
  /\ pc[p] = "unlock" \/ (pc[p] = "send" /\ EndOfLoop(p))
  /\ mutex' = NULL
  /\ pc' = [pc EXCEPT ![p] = AfterSend(p)]
  /\ slot' = [slot EXCEPT ![p] = 1]
  /\ msg' = [msg EXCEPT ![p] = 0]
  /\ buf' = [buf EXCEPT ![p] = IF @.kind = "chat" THEN @ ELSE Zeroed]
  /\ UNCHANGED <<peerVars, up, down, kernelVars, heapVars, clients, mainVars,
                 logfd, room, log>>

\* Mutant: the test is r >= 0, so that end of file is taken for data.
RecvDataMutant(p) ==
  /\ pc[p] = "recv"
  /\ Peer(p) # NULL
  /\ IF up[Peer(p)] = <<>> THEN phase[Peer(p)] = "exited"
     ELSE up[Peer(p)][1] # PAD
  /\ \E k \in 0..Len(up[Peer(p)]) :
       /\ up' = [up EXCEPT ![Peer(p)] = SubSeq(@, k + 1, Len(@))]
       /\ buf' = [buf EXCEPT ![p] =
            [kind |-> "chat", text |-> SubSeq(up[Peer(p)], 1, k)]]
  /\ pc' = [pc EXCEPT ![p] = "lock"]
  /\ UNCHANGED <<peerVars, down, kernelVars, heapVars, tableVars, mainVars,
                 msg, slot, logfd, room, log>>

\* recv(sockfd, buff, BUF_SIZE) > 0: any prefix of the lines that are
\* waiting, as one buffer.  A buffer that starts with padding is the empty
\* string: all of it is ignored.
RecvData(p) ==
  /\ pc[p] = "recv"
  /\ Peer(p) # NULL
  /\ \E k \in 1..Len(up[Peer(p)]) :
       /\ up' = [up EXCEPT ![Peer(p)] = SubSeq(@, k + 1, Len(@))]
       /\ IF up[Peer(p)][1] = PAD
          THEN UNCHANGED <<buf, pc>>
          ELSE /\ buf' = [buf EXCEPT ![p] =
                    [kind |-> "chat", text |-> SubSeq(up[Peer(p)], 1, k)]]
               /\ pc' = [pc EXCEPT ![p] = "lock"]
  /\ UNCHANGED <<peerVars, down, kernelVars, heapVars, tableVars, mainVars,
                 msg, slot, logfd, room, log>>

\* recv returns 0: announce that the client has left.
RecvEnd(p) ==
  /\ pc[p] = "recv"
  /\ Peer(p) # NULL /\ up[Peer(p)] = <<>>
  /\ phase[Peer(p)] = "exited" /\ ~rst[Peer(p)]
  /\ buf' = [buf EXCEPT ![p] = [kind |-> "left", text |-> <<>>]]
  /\ pc' = [pc EXCEPT ![p] = "lock"]
  /\ UNCHANGED <<peerVars, up, down, kernelVars, heapVars, tableVars,
                 mainVars, msg, slot, logfd, room, log>>

\* recv returns -1 (connection reset, descriptor -1): leave unannounced.
RecvError(p) ==
  /\ pc[p] = "recv"
  /\ Peer(p) # NULL => up[Peer(p)] = <<>> /\ rst[Peer(p)]
  /\ rst' = ErrorReported(Peer(p))
  /\ pc' = [pc EXCEPT ![p] = "close"]
  /\ UNCHANGED <<phase, sent, nread, up, down, kernelVars, heapVars, tableVars,
                 mainVars, buf, msg, slot, logfd, room, log>>

\* fopen(logs.txt, "a+"); what fputs writes stays in the stdio buffer.
LogOpen(p) ==
  /\ pc[p] = "log"
  /\ \E f \in Fds :
       /\ IsLowestFree(f)
       /\ fdtab' = [fdtab EXCEPT ![f] = LOG]
       /\ logfd' = [logfd EXCEPT ![p] = f]
  /\ pc' = [pc EXCEPT ![p] = "logging"]
  /\ UNCHANGED <<peerVars, up, down, backlog, heapVars, tableVars, mainVars,
                 buf, msg, slot, room, log>>

\* Mutant: the buffer is cut at its last newline and only the end is kept.
TrimmedMutant(text) == text[Len(text)]

\* string_trim cuts the buffer at its first '\n'.
Trimmed(text) == Head(text)

\* fclose flushes the record in one append; then bzero.
LogClose(p) ==
  /\ pc[p] = "logging"
  /\ log' = Append(log, [raw |-> FALSE, from |-> Peer(p),
                         n |-> Trimmed(buf[p].text)])
  /\ fdtab' = [fdtab EXCEPT ![logfd[p]] = NULL]
  /\ logfd' = [logfd EXCEPT ![p] = BadFd]
  /\ buf' = [buf EXCEPT ![p] = Zeroed]
  /\ pc' = [pc EXCEPT ![p] = "recv"]
  /\ UNCHANGED <<peerVars, up, down, backlog, heapVars, tableVars, mainVars,
                 msg, slot, room>>

\* Mutant: handleClient ends without closing its socket.
CloseSockMutant(p) ==
  /\ pc[p] = "close"
  /\ pc' = [pc EXCEPT ![p] = "remove"]
  /\ UNCHANGED <<peerVars, up, down, kernelVars, heapVars, tableVars, mainVars,
                 buf, msg, slot, logfd, room, log>>

CloseSock(p) ==
  /\ pc[p] = "close"
  /\ fdtab' = [f \in Fds |-> IF f = sockfd[p] THEN NULL ELSE fdtab[f]]
  /\ pc' = [pc EXCEPT ![p] = "remove"]
  /\ UNCHANGED <<peerVars, up, down, backlog, heapVars, tableVars, mainVars,
                 buf, msg, slot, logfd, room, log>>

\* Mutant: the last slot is never searched.
FirstWithCidMutant(i, id) ==
  /\ clients[i] # NULL /\ cid[clients[i]] = id /\ i # MAX_CONNECTIONS
  /\ \A j \in 1..(i - 1) : clients[j] # NULL => cid[clients[j]] # id

\* remove_client clears the first entry whose CLIENT has this cid.
FirstWithCid(i, id) ==
  /\ clients[i] # NULL /\ cid[clients[i]] = id
  /\ \A j \in 1..(i - 1) : clients[j] # NULL => cid[clients[j]] # id

\* remove_client, then free(cli).  What is freed keeps its sockfd and cid
\* until the address is used again: the allocator writes only over the first
\* 16 bytes of a free chunk, which hold the field address.
RemoveClient(p) ==
  /\ pc[p] = "remove"
  /\ mutex = NULL
  /\ clients' = [i \in Slots |->
                   IF FirstWithCid(i, cid[p]) THEN NULL ELSE clients[i]]
  /\ live' = live \ {p}
  /\ pc' = [pc EXCEPT ![p] = "idle"]
  /\ UNCHANGED <<peerVars, up, down, kernelVars, sockfd, cid, collided, mutex,
                 mainVars, buf, msg, slot, logfd, room, log>>

-----------------------------------------------------------------------------
ClientStep(c) == Connect(c) \/ SendName(c) \/ SendLine(c) \/ Receive(c) \/ Exit(c)

MainStep == Accept \/ AcceptError \/ AddClient

HandlerStep(p) ==
  \/ RecvName(p) \/ RecvData(p) \/ RecvEnd(p) \/ RecvError(p)
  \/ SendLock(p) \/ SendSkip(p) \/ SendWrite(p) \/ SendFail(p) \/ SendUnlock(p)
  \/ LogOpen(p) \/ LogClose(p)
  \/ CloseSock(p) \/ RemoveClient(p)

Next == \/ \E c \in Clients : ClientStep(c)
        \/ MainStep
        \/ \E p \in Ptrs : HandlerStep(p)

Spec == Init /\ [][Next]_vars

\* The threads of the server are scheduled, and so are those of Readers, which
\* send the name and receive by themselves; users type and leave as they please.
Fairness == /\ WF_vars(Accept \/ AddClient)
            /\ \A p \in Ptrs : WF_vars(HandlerStep(p))
            /\ \A c \in Readers : WF_vars(SendName(c)) /\ WF_vars(Receive(c))

FairSpec == Spec /\ Fairness

-----------------------------------------------------------------------------
(* Safety.                                                                 *)

Sending(p) == pc[p] \in {"send", "unlock"}

PeersOK ==
  /\ phase \in [Clients -> {"idle", "connected", "chatting", "exited"}]
  /\ sent \in [Clients -> 0..MaxMsgs]
  /\ nread \in [Clients -> Nat]
  /\ rst \in [Clients -> BOOLEAN]
  /\ up \in [Clients -> Seq(Tokens)]
  /\ down \in [Clients -> Seq(Nat)]

KernelOK ==
  /\ backlog \in Seq(Clients)
  /\ fdtab \in [Fds -> Clients \cup {NULL, LOG}]

ServerOK ==
  /\ live \subseteq Ptrs
  /\ sockfd \in [Ptrs -> Fds \cup {BadFd}]
  /\ cid \in [Ptrs -> Nat]
  /\ clients \in [Slots -> Ptrs \cup {NULL}]
  /\ mutex \in Ptrs \cup {NULL}
  /\ newCli \in Ptrs \cup {NULL}
  /\ acceptErrors \in 0..MaxAcceptErrors
  /\ collided \in BOOLEAN

ThreadsOK ==
  /\ pc \in [Ptrs -> PCs]
  /\ buf \in [Ptrs -> Message]
  /\ msg \in [Ptrs -> Nat]
  /\ slot \in [Ptrs -> 1..(MAX_CONNECTIONS + 1)]
  /\ logfd \in [Ptrs -> Fds \cup {BadFd}]
  /\ \A p \in Ptrs : buf[p].kind = "chat" => buf[p].text # <<>>

HistoryOK == room \in Seq(Entry) /\ log \in Seq(LogEntry)

\* Every variable has its type, and a chat message being handled is not empty.
TypeOK == PeersOK /\ KernelOK /\ ServerOK /\ ThreadsOK /\ HistoryOK

\* Every socket gets the broadcasts in the one order of the room: none after
\* a later one, whichever threads broadcast at the same time.
RoomOrder ==
  \A c \in Clients : \A i \in DOMAIN down[c] :
    /\ down[c][i] <= Len(room)
    /\ \A j \in 1..i : down[c][j] <= down[c][i]

\* As long as no cid was ever drawn twice, the table holds no pointer to a
\* CLIENT that has been freed (remove_client comes before free).
NoDangling ==
  ~collided => \A i \in Slots : clients[i] # NULL => clients[i] \in live

\* A thread uses its socket only while the descriptor is its own connection:
\* from accept to close(cli->sockfd), no two threads, log files or clients
\* share one, whatever the kernel hands out in between.
HasSocket(p) == p \in live /\ sockfd[p] # BadFd /\ pc[p] # "remove"

OwnConnection ==
  /\ \A p \in Ptrs : HasSocket(p) => Peer(p) \in Clients
  /\ \A p, q \in Ptrs : HasSocket(p) /\ HasSocket(q) /\ p # q
                          => Peer(p) # Peer(q) /\ sockfd[p] # sockfd[q]
  /\ \A p \in Ptrs : pc[p] = "logging" => File(logfd[p]) = LOG
  /\ \A p, q \in Ptrs : pc[p] = "logging" /\ pc[q] = "logging" /\ p # q
                          => logfd[p] # logfd[q]

\* The loop of send_msg: every slot it has passed that holds a thread of
\* another cid, still connected, has been sent this very broadcast (newCli is
\* in the table before add_client only by an old pointer to its address).
BroadcastReaches ==
  \A p \in Ptrs : Sending(p) =>
    \A i \in 1..(slot[p] - 1) :
      LET q == clients[i] IN
      /\ q \notin {NULL, newCli} /\ HasSocket(q) /\ cid[q] # cid[p] /\ Online(Peer(q))
      => msg[p] \in ToSet(down[Peer(q)])

\* c had been announced when the k-th entry of the room was broadcast.
JoinedBefore(c, k) == \E j \in 1..(k - 1) : room[j].kind = "join" /\ room[j].from = c

\* No broadcast of entry k is still going on.
Finished(k) == k < Len(room) \/ mutex = NULL

\* Every client is shown every chat message of the others that is broadcast
\* after it joined.  This is what A5/q.txt asks for.
ConversationSeen ==
  \A k \in DOMAIN room : room[k].kind = "chat" /\ Finished(k) =>
    \A c \in Clients \ {room[k].from} :
      JoinedBefore(c, k) /\ phase[c] # "exited" => k \in ToSet(down[c])

\* ConversationSeen in a quiet server: distinct cids, a slot for everybody, every
\* accept() good and nobody gone, so that no write fails.
ConversationSeenIfQuiet ==
  /\ ~collided
  /\ Cardinality(live) <= MAX_CONNECTIONS
  /\ acceptErrors = 0
  /\ \A c \in Clients : phase[c] # "exited"
  => ConversationSeen

\* The lines a text carries.
Lines(text) == ToSet(text) \ {NAME, PAD}

\* The entries of the same client that are in the room before entry k.
Earlier(k) == {j \in 1..(k - 1) : room[j].from = room[k].from}

\* The entries of the room that a client caused: a join, then chat, then at
\* most one farewell and nothing more; and the chat carries the lines of the
\* client in the order they were typed, none twice.
OneVisit ==
  \A k \in DOMAIN room : room[k].from \in Clients =>
    /\ room[k].kind = "join" <=> Earlier(k) = {}
    /\ \A j \in Earlier(k) :
         /\ room[j].kind # "left"
         /\ \A n \in Lines(room[j].text), m \in Lines(room[k].text) : n < m

\* The chat of c in the room, and its records in logs.txt.
ChatOf(c)    == {k \in DOMAIN room : room[k].from = c /\ room[k].kind = "chat"}
RecordsOf(c) == {i \in DOMAIN log : ~log[i].raw /\ log[i].from = c}

\* logs.txt has one record per chat broadcast of a client, its first line, in
\* the order of the broadcasts (lines only grow, OneVisit); only the last may
\* still be unwritten.
Recorded(c, k) == \E i \in RecordsOf(c) : log[i].n = room[k].text[1]

LogMatchesRoom ==
  \A c \in Clients :
    /\ \A i, j \in RecordsOf(c) : i < j => log[i].n < log[j].n
    /\ \A i \in RecordsOf(c) : \E k \in ChatOf(c) : log[i].n = room[k].text[1]
    /\ \A k, l \in ChatOf(c) : k < l => Recorded(c, k)

\* Nobody is sent its own broadcast, except through a table entry that is out
\* of date: its thread has closed the descriptor and waits to remove the
\* entry, or has freed the CLIENT.
EchoOnlyViaStaleEntry ==
  [][\A c \in Clients :
       down'[c] # down[c] /\ room[msg[mutex]].from = c =>
         LET q == clients[slot[mutex]] IN q \notin live \/ pc[q] = "remove"]_vars

\* Seen from the clients, the server is the room of ChatRoom: one order of
\* entries, each sent while it is the newest, and only to who is connected.
Room == INSTANCE ChatRoom WITH seen <- down, online <- {c \in Clients : Online(c)}

RoomSpec == Room!Spec

-----------------------------------------------------------------------------
(* What A5/logs.txt shows and the server does not keep.                     *)

\* logs.txt holds nothing but records.
LogOnlyRecords == \A i \in DOMAIN log : ~log[i].raw

-----------------------------------------------------------------------------
(* Liveness, under FairSpec.                                               *)

\* A broadcast that holds the mutex ends.
RealTime == mutex # NULL ~> mutex = NULL

\* What a client sends is taken by its thread.
AllRead == \A c \in Clients : up[c] # <<>> ~> up[c] = <<>>

\* The server gives up the connection of a client that is gone.
DepartedReleased ==
  \A c \in Clients :
    phase[c] = "exited" ~> c \notin ToSet(backlog) /\ \A f \in Fds : fdtab[f] # c

\* When everybody is gone the table empties, if no cid was drawn twice.
TableDrains ==
  (\A c \in Clients : phase[c] = "exited")
    ~> (collided \/ \A i \in Slots : clients[i] = NULL)

\* What the server holds for clients that are gone, connections and entries of
\* the table, it gives up in the end.
DepartedForgotten == DepartedReleased /\ TableDrains
=============================================================================

------------------------------ MODULE JavaChat ------------------------------
(***************************************************************************)
(* The Java chat Javachat/MyServer.java with its clients MyClient.java.    *)
(*                                                                         *)
(* main accepts a client, waits for its name, adds its socket to           *)
(* clientList and starts a thread for it.  The thread reads a line and     *)
(* writes it to all sockets of the list but those with its own port.       *)
(*                                                                         *)
(* clientList is an ArrayList that main changes and the threads read with  *)
(* no lock.  A thread sees what was added before it was started and what   *)
(* it has got once.  Of later additions it sees any part: a size that is   *)
(* too small, or the size without the element, which ends it.  Once the    *)
(* list has moved to a longer array, it may find that without any of its   *)
(* elements.                                                               *)
(*                                                                         *)
(* readUTF and writeUTF move whole records: a name is 0, a line its number.*)
(***************************************************************************)
EXTENDS Integers, Sequences, SequencesExt

CONSTANTS
  Clients,          \* runs of MyClient
  Port,             \* Port[c]: its port; clients on two hosts may share one
  Lines,            \* bound: Lines[c] is how many lines the user of c types
  SockBuf,          \* records a connection holds unread
  Capacities,       \* lengths at which the list moves to a longer array: 10, 15, 22, ...
  Leavers,          \* bound: clients that are ended
  Prompt,           \* clients whose program keeps running
  NULL

ASSUME JavaAssumption ==
  /\ Lines \in [Clients -> Nat] /\ SockBuf \in Nat \ {0} /\ Capacities \subseteq Nat
  /\ Leavers \cup Prompt \subseteq Clients /\ NULL \notin Clients

VARIABLES
  phase, sent, nread, rst,  \* clients: records sent and read, a pending reset
  up, down,                 \* records to the server; all that were sent back
  backlog,                  \* listen queue
  mpc, mcur,                \* main
  clientList,
  tpc, msg, i, seen         \* threads: line, loop variable, part of the list in sight

clientVars == <<phase, sent, nread, rst>>
mainVars   == <<backlog, mpc, mcur, clientList>>
threadVars == <<tpc, msg, i, seen>>

vars == <<clientVars, up, down, mainVars, threadVars>>

NAME == 0

\* Where a thread is at its end: its client has gone, or get(i) has thrown.
Over == {"ended", "thrown"}

Init ==
  /\ phase = [c \in Clients |-> "idle"]
  /\ sent  = [c \in Clients |-> 0]
  /\ nread = [c \in Clients |-> 0]
  /\ rst   = [c \in Clients |-> FALSE]
  /\ up    = [c \in Clients |-> <<>>]
  /\ down  = [c \in Clients |-> <<>>]
  /\ backlog = <<>>
  /\ mpc = "accept"
  /\ mcur = NULL
  /\ clientList = <<>>
  /\ tpc  = [c \in Clients |-> "none"]
  /\ msg  = [c \in Clients |-> 0]
  /\ i    = [c \in Clients |-> 1]
  /\ seen = [c \in Clients |-> 0]

\* The virtual machine runs as long as one of its threads.
Running == mpc # "dead" \/ \E c \in Clients : tpc[c] \notin {"none"} \cup Over

-----------------------------------------------------------------------------
(* MyClient.java                                                           *)

Connect(c) ==
  /\ phase[c] = "idle" /\ Running
  /\ phase' = [phase EXCEPT ![c] = "connected"]
  /\ backlog' = Append(backlog, c)
  /\ UNCHANGED <<sent, nread, rst, up, down, mpc, mcur, clientList, threadVars>>

\* writeUTF of ServerSendThread.
WriteUTF(c) ==
  /\ phase[c] = "connected" /\ Running
  /\ up' = [up EXCEPT ![c] = Append(@, sent[c])]
  /\ sent' = [sent EXCEPT ![c] = @ + 1]
  /\ UNCHANGED <<phase, nread, rst, down, mainVars, threadVars>>

SendName(c) == sent[c] = NAME /\ WriteUTF(c)

SendLine(c) == sent[c] \in 1..Lines[c] /\ WriteUTF(c)

\* ServerReceiveThread.
Receive(c) ==
  /\ phase[c] = "connected" /\ nread[c] < Len(down[c])
  /\ nread' = [nread EXCEPT ![c] = @ + 1]
  /\ UNCHANGED <<phase, sent, rst, up, down, mainVars, threadVars>>

\* The process is ended; what it has not read makes its kernel reset.
Leave(c) ==
  /\ c \in Leavers /\ phase[c] = "connected"
  /\ phase' = [phase EXCEPT ![c] = "left"]
  /\ rst' = [rst EXCEPT ![c] = nread[c] < Len(down[c])]
  /\ UNCHANGED <<sent, nread, up, down, mainVars, threadVars>>

\* readUTF of the server throws an exception.
Ends(c) == phase[c] = "left" /\ (up[c] = <<>> \/ rst[c])

-----------------------------------------------------------------------------
(* MyServer.java: main                                                     *)

\* Mutant: main calls run() of the thread and not start().
AcceptMutant ==
  /\ mpc = "accept" /\ backlog # <<>> /\ \A c \in Clients : tpc[c] \in {"none"} \cup Over
  /\ mcur' = Head(backlog)
  /\ backlog' = Tail(backlog)
  /\ mpc' = "name"
  /\ UNCHANGED <<clientVars, up, down, clientList, threadVars>>

Accept ==
  /\ mpc = "accept" /\ backlog # <<>>
  /\ mcur' = Head(backlog)
  /\ backlog' = Tail(backlog)
  /\ mpc' = "name"
  /\ UNCHANGED <<clientVars, up, down, clientList, threadVars>>

\* What a thread sees of the list that starts after clientList.add.
Started == Len(clientList) + 1

\* The name has come.  All that main does then only the threads that walk
\* the list can notice.
AddClient ==
  /\ mpc = "name" /\ up[mcur] # <<>>
  /\ up' = [up EXCEPT ![mcur] = Tail(@)]
  /\ clientList' = Append(clientList, mcur)
  /\ tpc' = [tpc EXCEPT ![mcur] = "read"]
  /\ seen' = [seen EXCEPT ![mcur] = Started]
  /\ mpc' = "accept"
  /\ UNCHANGED <<clientVars, down, backlog, mcur, msg, i>>

\* The exception leaves the loop: main ends.
NoName ==
  /\ mpc = "name" /\ Ends(mcur)
  /\ mpc' = "dead"
  /\ UNCHANGED <<clientVars, up, down, backlog, mcur, clientList, threadVars>>

-----------------------------------------------------------------------------
(* MyServer.java: ClientReceiveThread                                      *)

ReadUTF(c) ==
  /\ tpc[c] = "read" /\ up[c] # <<>>
  /\ msg' = [msg EXCEPT ![c] = Head(up[c])]
  /\ up' = [up EXCEPT ![c] = Tail(@)]
  /\ i' = [i EXCEPT ![c] = 1]
  /\ tpc' = [tpc EXCEPT ![c] = "next"]
  /\ UNCHANGED <<clientVars, down, mainVars, seen>>

\* The client has gone; its socket stays in the list.
ReadFails(c) ==
  /\ tpc[c] = "read" /\ Ends(c)
  /\ tpc' = [tpc EXCEPT ![c] = "ended"]
  /\ UNCHANGED <<clientVars, up, down, mainVars, msg, i, seen>>

\* Mutant: nothing is sure to be in sight.
MayStopMutant(c) == TRUE

\* size() is read anew, and may be any from what is in sight.
MayStop(c) == i[c] > seen[c]

\* i < size() no longer holds.
LoopEnds(c) ==
  /\ tpc[c] = "next" /\ MayStop(c)
  /\ tpc' = [tpc EXCEPT ![c] = "read"]
  /\ UNCHANGED <<clientVars, up, down, mainVars, msg, i, seen>>

\* The ports of both sockets are the same.
Skipped(c, d) == Port[d] = Port[c]

\* Mutant: what a thread has got may disappear again.
InSightMutant(c) == seen[c]

\* What was got once stays in sight.
InSight(c) == IF i[c] > seen[c] THEN i[c] ELSE seen[c]

\* clientList.get(i) and the comparison of ports.
Get(c) ==
  /\ tpc[c] = "next" /\ i[c] \in DOMAIN clientList
  /\ seen' = [seen EXCEPT ![c] = InSight(c)]
  /\ IF Skipped(c, clientList[i[c]])
     THEN i' = [i EXCEPT ![c] = @ + 1] /\ UNCHANGED tpc
     ELSE tpc' = [tpc EXCEPT ![c] = "write"] /\ UNCHANGED i
  /\ UNCHANGED <<clientVars, up, down, mainVars, msg>>

\* Since the thread was started the list has moved.
Moved(c) == \E k \in DOMAIN clientList, n \in Capacities :
              clientList[k] = c /\ k <= n /\ n < Len(clientList)

\* An element that may not be there yet, though the size or the array is seen.
Missing(c) == i[c] > seen[c] \/ Moved(c)

\* get(i) or getPort() throw an exception, outside of the try: the thread ends.
GetFails(c) ==
  /\ tpc[c] = "next" /\ i[c] \in DOMAIN clientList /\ Missing(c)
  /\ tpc' = [tpc EXCEPT ![c] = "thrown"]
  /\ UNCHANGED <<clientVars, up, down, mainVars, msg, i, seen>>

\* An exception while writing is caught inside the loop.
AfterFailure(c) == "next"

\* writeUTF to a client that is there, or to one that has gone: it is lost
\* and answered by a reset, or fails.
Write(c) ==
  /\ tpc[c] = "write"
  /\ i' = [i EXCEPT ![c] = @ + 1]
  /\ LET d == clientList[i[c]] IN
     IF phase[d] = "left"
     THEN /\ rst' = [rst EXCEPT ![d] = TRUE]
          /\ tpc' = [tpc EXCEPT ![c] = AfterFailure(c)]
          /\ UNCHANGED down
     ELSE /\ Len(down[d]) - nread[d] < SockBuf
          /\ down' = [down EXCEPT ![d] = Append(@, [from |-> c, n |-> msg[c]])]
          /\ tpc' = [tpc EXCEPT ![c] = "next"]
          /\ UNCHANGED rst
  /\ UNCHANGED <<phase, sent, nread, up, mainVars, msg, seen>>

-----------------------------------------------------------------------------
Main == Accept \/ AddClient \/ NoName

Thread(c) == \/ ReadUTF(c) \/ ReadFails(c) \/ LoopEnds(c) \/ Get(c) \/ GetFails(c)
             \/ Write(c)

Next == \/ \E c \in Clients : \/ Connect(c) \/ SendName(c) \/ SendLine(c) \/ Receive(c)
                              \/ Leave(c) \/ Thread(c)
        \/ Main

Spec == Init /\ [][Next]_vars

\* The threads of the server and the two threads of a client that runs: its
\* name was typed before it connected.
FairSpec == /\ Spec
            /\ WF_vars(Main)
            /\ \A c \in Clients : WF_vars(Thread(c))
            /\ \A c \in Prompt : WF_vars(SendName(c)) /\ WF_vars(Receive(c))

-----------------------------------------------------------------------------
ClientsOK ==
  /\ phase \in [Clients -> {"idle", "connected", "left"}]
  /\ sent \in [Clients -> Nat]
  /\ nread \in [Clients -> Nat]
  /\ rst \in [Clients -> BOOLEAN]
  /\ up \in [Clients -> Seq(Nat)]
  /\ down \in [Clients -> Seq([from : Clients, n : Nat])]

MainOK ==
  /\ backlog \in Seq(Clients)
  /\ mpc \in {"accept", "name", "dead"}
  /\ mcur \in Clients \cup {NULL} /\ (mpc = "name" => mcur # NULL)
  /\ clientList \in Seq(Clients)

ThreadsOK ==
  /\ tpc \in [Clients -> {"none", "read", "next", "write"} \cup Over]
  /\ msg \in [Clients -> Nat]
  /\ i \in [Clients -> Nat \ {0}]
  /\ seen \in [Clients -> Nat]
  /\ \A c \in Clients :
       /\ seen[c] <= Len(clientList) /\ i[c] <= Len(clientList) + 1
       /\ tpc[c] = "write" => i[c] <= seen[c]

\* Every variable has its type, no loop leaves the list, and what is written
\* to has been got from it.
TypeOK == ClientsOK /\ MainOK /\ ThreadsOK

\* Who has heard a client hears all its later lines, in order and once, and
\* nobody hears itself, whatever is added to the list meanwhile.
Chat == INSTANCE Relay WITH taken <- msg, heard <- down

RelaySpec == Chat!Spec

\* Lines of s that are through the part of the list where r is.
Through(s, k) ==
  1..(IF tpc[s] \in {"next", "write", "thrown"} /\ i[s] <= k THEN msg[s] - 1 ELSE msg[s])

\* Who was in the list before a client, has another port and is still there
\* was sent every line the server has read from this client, whoever else
\* came, went or did not read; but for the line that its thread is passing on,
\* or was when it lost sight of the list.
EarlierHearsAll ==
  \A j, k \in DOMAIN clientList :
    LET r == clientList[j]
        s == clientList[k]
    IN j < k /\ Port[r] # Port[s] /\ phase[r] # "left" =>
         \A n \in Through(s, j) : Contains(down[r], [from |-> s, n |-> n])

\* The server stops listening to a client that is there only if somebody was
\* added to the list after it.
CutOffByNewcomer ==
  \A c \in Clients : tpc[c] \in Over /\ phase[c] # "left" =>
    clientList[Len(clientList)] # c

\* Both: the one way not to be heard is that somebody came after the speaker.
HeardUnlessCutOff == EarlierHearsAll /\ CutOffByNewcomer

\* Whoever sends its name is added, unless a client went away without
\* sending its own, which ends main.
EveryoneAdded ==
  \A c \in Clients : sent[c] > 0 ~> \/ Contains(clientList, c)
                                    \/ \E d \in Clients : phase[d] = "left" /\ sent[d] = 0

\* A line that was read is passed on to the end of the list.
LinePassed == \A c \in Clients : tpc[c] = "next" ~> tpc[c] \in {"read", "thrown"}

\* The thread of a client that has gone ends.
ThreadEnds ==
  \A c \in Clients : tpc[c] # "none" /\ phase[c] = "left" ~> tpc[c] \in Over

\* Nobody waits for ever: neither a newcomer, nor a line on its way, nor the
\* thread of a client that has gone.
NobodyStuck == EveryoneAdded /\ LinePassed /\ ThreadEnds
=============================================================================

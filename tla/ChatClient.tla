----------------------------- MODULE ChatClient -----------------------------
(***************************************************************************)
(* The chat client A5/client.c: main spins on a flag while one thread      *)
(* sends the lines of the terminal and another shows what the server       *)
(* sends.  main closes the socket and ends the process, and so the other   *)
(* two, wherever they are.  Results of fgets() and send() are not looked   *)
(* at.                                                                     *)
(*                                                                         *)
(* The socket is the two directions of one TCP connection: to a server     *)
(* that may stop at any time, with a queue of limited size in the kernel   *)
(* of the client.                                                          *)
(***************************************************************************)
EXTENDS Integers, Sequences, SequencesExt

CONSTANTS
  Texts,      \* lines a user types, other than "exit"
  EXIT,       \* "exit"
  EMPTY,      \* no text: what an untouched buffer holds
  NAME,       \* the block with the name
  MaxTyped, MaxNews, MaxHeard, \* bounds: lines typed, lines and messages of the server
  SockBuf     \* messages that fit into the send queue

ASSUME ChatClientAssumption ==
  /\ EXIT \notin Texts /\ EMPTY \notin Texts /\ NAME \notin Texts
  /\ EXIT # EMPTY /\ NAME # EMPTY
  /\ {MaxTyped, MaxNews, MaxHeard} \subseteq Nat /\ SockBuf \in Nat \ {0} /\ MaxHeard > MaxTyped

VARIABLES
  mpc, spc, rpc,       \* main, the send thread, the receive thread
  flag, buff,
  open,                \* sockfd is a descriptor
  over,                \* how the process ended
  typed, read, eof,    \* terminal: lines typed, how many are read, end of file
  out, heard,          \* to the server: queued, received
  news, shown,         \* from the server: sent, how many are on the screen
  server,              \* "up", "closed", "reset"
  failed,              \* the reset has not yet been reported by a call
  unread               \* history: a message of the server found no reader

threadVars == <<mpc, spc, rpc>>
ttyVars    == <<typed, read, eof>>
netVars    == <<out, heard, news, shown, server, failed>>

vars == <<threadVars, flag, buff, open, over, ttyVars, netVars, unread>>

Init ==
  /\ mpc = "connect" /\ spc = "none" /\ rpc = "none"
  /\ flag = FALSE /\ buff = EMPTY /\ open = FALSE /\ over = "no"
  /\ typed = <<>> /\ read = 0 /\ eof = FALSE
  /\ out = <<>> /\ heard = <<>> /\ news = 0 /\ shown = 0
  /\ server = "up" /\ failed = FALSE
  /\ unread = FALSE

Running == over = "no"

\* The kernel resets the connection: of what is queued the server receives what
\* it has already got, and the rest is lost.
QueueLost == \E k \in 0..Len(out) : out' = SubSeq(out, 1, k)

\* The process ends: the kernel closes the connection, or resets it if there is
\* data to read.
Ends(how) ==
  /\ over' = how
  /\ unread' = (shown < news)
  /\ IF shown < news THEN QueueLost ELSE UNCHANGED out

-----------------------------------------------------------------------------
(* main                                                                    *)

\* The name is sent and both threads are started.
Connect ==
  /\ mpc = "connect"
  /\ IF server = "up"
     THEN /\ mpc' = "spin" /\ spc' = "read" /\ rpc' = "call"
          /\ open' = TRUE
          /\ out' = <<NAME>>
          /\ UNCHANGED <<over, unread>>
     ELSE Ends("refused") /\ UNCHANGED <<threadVars, open>>
  /\ UNCHANGED <<flag, buff, ttyVars, heard, news, shown, server, failed>>

\* The busy loop sees the flag; close() leaves a call that waits undisturbed.
Bye ==
  /\ Running /\ mpc = "spin" /\ flag
  /\ mpc' = "return"
  /\ open' = FALSE
  /\ UNCHANGED <<spc, rpc, flag, buff, over, ttyVars, netVars, unread>>

Return ==
  /\ Running /\ mpc = "return"
  /\ Ends("bye")
  /\ UNCHANGED <<threadVars, flag, buff, open, ttyVars, heard, news, shown, server, failed>>

-----------------------------------------------------------------------------
(* sendHandler                                                             *)

\* fgets(); at the end of the file it leaves the cleared buffer as it is.
ReadLine ==
  /\ Running /\ spc = "read"
  /\ \/ /\ read < Len(typed)
        /\ buff' = typed[read + 1]
        /\ read' = read + 1
     \/ /\ read = Len(typed) /\ eof
        /\ UNCHANGED <<buff, read>>
  /\ spc' = "test"
  /\ UNCHANGED <<mpc, rpc, flag, open, over, typed, eof, netVars, unread>>

\* Mutant: the loop is left before the flag is set.
LeaveMutant == spc' = "done" /\ UNCHANGED flag

\* Mutant: the "else" is missing, and "exit" is sent like any other line.
ElseMutant == spc' = "send" /\ flag' = TRUE

\* The flag is set and the loop left.
Leave == spc' = "done" /\ flag' = TRUE

Test ==
  /\ Running /\ spc = "test"
  /\ IF buff = EXIT THEN Leave
                    ELSE spc' = "send" /\ UNCHANGED flag
  /\ UNCHANGED <<mpc, rpc, buff, open, over, ttyVars, netVars, unread>>

Room == Len(out) < SockBuf

\* Mutant: send() does not wait, and its result is not looked at.
QueueMutant == out' = IF Room THEN Append(out, buff) ELSE out
Queue == Room /\ out' = Append(out, buff)

\* send() waits for room in the queue.  After a reset it fails, which is not
\* noticed, or SIGPIPE ends the process.
SendLine ==
  /\ Running /\ spc = "send"
  /\ \/ /\ server # "reset"
        /\ Queue
        /\ UNCHANGED <<over, failed, unread>>
     \/ /\ server = "reset" /\ failed
        /\ failed' = FALSE
        /\ UNCHANGED <<out, over, unread>>
     \/ /\ server = "reset"
        /\ Ends("signal")
        /\ UNCHANGED failed
  /\ buff' = EMPTY
  /\ spc' = "read"
  /\ UNCHANGED <<mpc, rpc, flag, open, ttyVars, heard, news, shown, server>>

-----------------------------------------------------------------------------
(* receiveHandler                                                          *)

\* The thread enters recv(); without a descriptor it fails and is called again.
CallRecv ==
  /\ Running /\ rpc = "call" /\ open
  /\ rpc' = "wait"
  /\ UNCHANGED <<mpc, spc, flag, buff, open, over, ttyVars, netVars, unread>>

\* One or more messages are shown, or an error is passed over, or the stream
\* is at its end.
RecvReturns ==
  /\ Running /\ rpc = "wait"
  /\ \/ /\ shown < news
        /\ shown' \in shown+1..news
        /\ rpc' = "call"
        /\ UNCHANGED failed
     \/ /\ shown = news /\ failed
        /\ failed' = FALSE
        /\ rpc' = "call"
        /\ UNCHANGED shown
     \/ /\ shown = news /\ ~failed /\ server # "up"
        /\ rpc' = "done"
        /\ UNCHANGED <<shown, failed>>
  /\ UNCHANGED <<mpc, spc, flag, buff, open, over, ttyVars,
                 out, heard, news, server, unread>>

-----------------------------------------------------------------------------
(* The user and, external to this program, the server and the network.     *)

Type(t) ==
  /\ Running /\ ~eof /\ Len(typed) < MaxTyped
  /\ typed' = Append(typed, t)
  /\ UNCHANGED <<threadVars, flag, buff, open, over, read, eof, netVars, unread>>

EndOfFile ==
  /\ Running /\ ~eof
  /\ eof' = TRUE
  /\ UNCHANGED <<threadVars, flag, buff, open, over, typed, read, netVars, unread>>

\* The server receives the next message.
Hear ==
  /\ server = "up" /\ out # <<>> /\ Len(heard) < MaxHeard
  /\ heard' = Append(heard, Head(out))
  /\ out' = Tail(out)
  /\ UNCHANGED <<threadVars, flag, buff, open, over, ttyVars,
                 news, shown, server, failed, unread>>

\* The server does not know whether the process has ended: a message that comes
\* afterwards is answered with a reset.
Tell ==
  /\ server = "up" /\ mpc # "connect" /\ news < MaxNews
  /\ news' = news + 1
  /\ IF Running \/ unread THEN UNCHANGED <<out, unread>>
                          ELSE QueueLost /\ unread' = TRUE
  /\ UNCHANGED <<threadVars, flag, buff, open, over, ttyVars,
                 heard, shown, server, failed>>

\* The server ends, in order or, with messages it has not received, by a reset.
ServerCloses ==
  /\ server = "up"
  /\ server' = IF out = <<>> THEN "closed" ELSE "reset"
  /\ failed' = (out # <<>>)
  /\ out' = <<>>
  /\ UNCHANGED <<threadVars, flag, buff, open, over, ttyVars,
                 heard, news, shown, unread>>

\* A message that finds the server closed is answered with a reset.
ResetComes ==
  /\ server = "closed" /\ out # <<>>
  /\ server' = "reset"
  /\ failed' = TRUE
  /\ out' = <<>>
  /\ UNCHANGED <<threadVars, flag, buff, open, over, ttyVars,
                 heard, news, shown, unread>>

-----------------------------------------------------------------------------
Main == Connect \/ Bye \/ Return
SendHandler == ReadLine \/ Test \/ SendLine
ReceiveHandler == CallRecv \/ RecvReturns

Next == \/ Main \/ SendHandler \/ ReceiveHandler
        \/ \E t \in Texts \cup {EXIT} : Type(t)
        \/ EndOfFile \/ Hear \/ Tell \/ ServerCloses \/ ResetComes

Spec == Init /\ [][Next]_vars

\* The three threads are scheduled; the server goes on receiving.
FairSpec == /\ Spec
            /\ WF_vars(Main) /\ WF_vars(SendHandler) /\ WF_vars(ReceiveHandler)
            /\ WF_vars(Hear) /\ WF_vars(ResetComes)

-----------------------------------------------------------------------------
Message == Texts \cup {EMPTY, NAME}

\* Every variable has its type: "exit" is never sent.
TypeOK ==
  /\ mpc \in {"connect", "spin", "return"}
  /\ spc \in {"none", "read", "test", "send", "done"}
  /\ rpc \in {"none", "call", "wait", "done"}
  /\ flag \in BOOLEAN /\ buff \in Texts \cup {EMPTY, EXIT} /\ open \in BOOLEAN
  /\ over \in {"no", "refused", "bye", "signal"}
  /\ typed \in Seq(Texts \cup {EXIT}) /\ read \in 0..Len(typed) /\ eof \in BOOLEAN
  /\ out \in Seq(Message)
  /\ heard \in Seq(Message) /\ Len(heard) <= MaxHeard
  /\ news \in 0..MaxNews /\ shown \in 0..news
  /\ server \in {"up", "closed", "reset"} /\ failed \in BOOLEAN
  /\ unread \in BOOLEAN

\* The lines before the first "exit", the ones to be sent.
Lines == LET exits == { k \in DOMAIN typed : typed[k] = EXIT } IN
         SubSeq(typed, 1, IF exits = {} THEN Len(typed)
                          ELSE (CHOOSE k \in exits : \A j \in exits : k <= j) - 1)

\* The server hears the name, the lines in their order and each of them once,
\* and after the end of the terminal's file empty messages only.
HeardAsTyped ==
  \A k \in DOMAIN heard :
    IF k = 1 THEN heard[k] = NAME
    ELSE IF k <= Len(Lines) + 1 THEN heard[k] = Lines[k - 1]
    ELSE heard[k] = EMPTY /\ eof

\* A user who types "exit" has everything delivered or still queued, unless a
\* message of the server was unread then or came after the end: close() does not
\* wait for the queue, and the reset throws it away.
NothingDropped ==
  over = "bye" /\ server = "up" /\ ~unread => Len(heard) + Len(out) = Len(Lines) + 1

\* Both: what reaches the server is what was typed, all of it and in order.
Delivered == HeardAsTyped /\ NothingDropped

\* After the process has ended, what is left of its lines still arrives, unless
\* the server goes, or sends something before it has received them.
LinesArrive ==
  over = "bye" /\ ~unread ~> Len(heard) > Len(Lines) \/ server # "up" \/ unread

\* A typed "exit" ends the process, even if the server has gone.
ExitEnds == EXIT \in ToSet(typed) /\ mpc = "spin" ~> ~Running

\* What the server sends gets onto the screen of a client that goes on.
NewsShown == \A n \in 1..MaxNews : news = n ~> shown >= n \/ ~Running \/ flag

\* Once the server has gone the receive thread ends; it does not spin on errors.
ReceiverEnds == server # "up" /\ mpc = "spin" ~> rpc = "done" \/ ~Running \/ flag

\* The three threads do their work to the end: what is typed arrives, "exit"
\* ends the process, what comes is shown, and no thread is left behind.
ThreadsFinish == LinesArrive /\ ExitEnds /\ NewsShown /\ ReceiverEnds
=============================================================================

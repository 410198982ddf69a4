-------------------------- MODULE ChatClientProofs --------------------------
(***************************************************************************)
(* What TLAPS proves of ChatClient, for any lines, queue and bounds.       *)
(***************************************************************************)
EXTENDS ChatClient, SequenceTheorems, WellFoundedInduction, TLAPS

USE DEF threadVars, ttyVars, netVars

-----------------------------------------------------------------------------
(* Types.                                                                  *)

\* A sequence with one more element: what is where.
LEMMA Appended ==
  ASSUME NEW S, NEW s \in Seq(S), NEW e \in S
  PROVE  /\ Append(s, e) \in Seq(S) /\ Len(Append(s, e)) = Len(s) + 1 /\ Len(s) \in Nat
         /\ \A k \in 1..Len(s) : Append(s, e)[k] = s[k]
         /\ Append(s, e)[Len(s) + 1] = e
  OBVIOUS

\* A sequence without its first element: what is where.
LEMMA HeadTail ==
  ASSUME NEW S, NEW s \in Seq(S), s # <<>>
  PROVE  /\ Head(s) \in S /\ Head(s) = s[1] /\ Tail(s) \in Seq(S)
         /\ Len(s) \in Nat /\ Len(s) >= 1 /\ Len(Tail(s)) = Len(s) - 1
         /\ \A k \in 1..(Len(s) - 1) : Tail(s)[k] = s[k + 1]
  OBVIOUS

\* What is being sent is not "exit": without this TypeOK is not inductive.
SendsNoExit == spc = "send" => buff # EXIT

TypeInv == TypeOK /\ SendsNoExit

\* The client starts with values of the right types.
LEMMA InitType == Init => TypeInv
  <1> SUFFICES ASSUME Init PROVE TypeInv
    OBVIOUS
  <1>1. flag \in BOOLEAN /\ open \in BOOLEAN /\ eof \in BOOLEAN /\ failed \in BOOLEAN
        /\ unread \in BOOLEAN
    BY DEF Init
  <1>2. Len(<<>>) = 0 /\ <<>> \in Seq(Message) /\ <<>> \in Seq(Texts \cup {EXIT})
    OBVIOUS
  <1>3. SendsNoExit
    BY DEF Init, SendsNoExit
  <1> QED BY <1>1, <1>2, <1>3, ChatClientAssumption DEF Init, TypeInv, TypeOK

\* The queue is as before, or its end is missing.
Shorter == Len(out') \in 0..Len(out) /\ \A k \in 1..Len(out') : out'[k] = out[k]

LEMMA SameQueue == ASSUME TypeOK, out' = out PROVE Shorter
  BY DEF TypeOK, Shorter

LEMMA LostQueue == ASSUME TypeOK, QueueLost PROVE Shorter /\ out' \in Seq(Message)
  <1>1. PICK n \in 0..Len(out) : out' = SubSeq(out, 1, n)
    BY DEF QueueLost
  <1>2. out \in Seq(Message) /\ Len(out) \in Nat
    BY DEF TypeOK
  <1>3. /\ SubSeq(out, 1, n) \in Seq(Message) /\ Len(SubSeq(out, 1, n)) = n
        /\ \A k \in 1..n : SubSeq(out, 1, n)[k] = out[k]
    BY <1>1, <1>2
  <1> QED BY <1>1, <1>3 DEF Shorter

LEMMA EndsType ==
  ASSUME TypeOK, NEW how \in {"refused", "bye", "signal"}, Ends(how)
  PROVE  /\ over' \in {"no", "refused", "bye", "signal"} /\ unread' \in BOOLEAN
         /\ out' \in Seq(Message)
  <1>1. out' \in Seq(Message)
    BY LostQueue DEF Ends, TypeOK
  <1>2. unread' \in BOOLEAN /\ over' = how
    BY DEF Ends
  <1> QED BY <1>1, <1>2

LEMMA ConnectType == ASSUME TypeInv, Connect PROVE TypeInv'
  <1>1. <<NAME>> \in Seq(Message)
    BY DEF Message
  <1>2. CASE server = "up"
    BY <1>1, <1>2 DEF Connect, TypeInv, TypeOK, SendsNoExit
  <1>3. CASE server # "up"
    <2>1. Ends("refused")
      BY <1>3 DEF Connect
    <2> QED BY <1>3, <2>1, EndsType DEF Connect, TypeInv, TypeOK, SendsNoExit
  <1> QED BY <1>2, <1>3

LEMMA ReturnType == ASSUME TypeInv, Return PROVE TypeInv'
  <1>1. Ends("bye")
    BY DEF Return
  <1> QED BY <1>1, EndsType DEF Return, TypeInv, TypeOK, SendsNoExit

LEMMA ReadLineType == ASSUME TypeInv, ReadLine PROVE TypeInv'
  <1>1. buff' \in Texts \cup {EMPTY, EXIT} /\ read' \in 0..Len(typed)
    BY DEF ReadLine, TypeInv, TypeOK
  <1> QED BY <1>1 DEF ReadLine, TypeInv, TypeOK, SendsNoExit

LEMMA TestType == ASSUME TypeInv, Test PROVE TypeInv'
  <1>1. flag' \in BOOLEAN
    BY DEF Test, Leave, TypeInv, TypeOK
  <1> QED BY <1>1 DEF Test, Leave, TypeInv, TypeOK, SendsNoExit

LEMMA SendLineType == ASSUME TypeInv, SendLine PROVE TypeInv'
  <1>1. buff \in Message
    BY DEF SendLine, TypeInv, TypeOK, SendsNoExit, Message
  <1>2. CASE Queue /\ UNCHANGED <<over, failed, unread>>
    <2>1. Append(out, buff) \in Seq(Message)
      BY <1>1, Appended DEF TypeInv, TypeOK
    <2>2. out' \in Seq(Message)
      BY <1>2, <2>1 DEF Queue
    <2> QED BY <1>2, <2>2 DEF SendLine, TypeInv, TypeOK, SendsNoExit
  <1>3. CASE failed' = FALSE /\ UNCHANGED <<out, over, unread>>
    <2>1. failed' \in BOOLEAN /\ buff' = EMPTY /\ spc' = "read"
      BY <1>3 DEF SendLine
    <2> QED BY <1>3, <2>1 DEF SendLine, TypeInv, TypeOK, SendsNoExit
  <1>4. CASE Ends("signal") /\ UNCHANGED failed
    BY <1>4, EndsType DEF SendLine, TypeInv, TypeOK, SendsNoExit
  <1> QED BY <1>2, <1>3, <1>4 DEF SendLine

LEMMA RecvReturnsType == ASSUME TypeInv, RecvReturns PROVE TypeInv'
  <1>1. failed' \in BOOLEAN /\ rpc' \in {"call", "done"}
    BY DEF RecvReturns, TypeInv, TypeOK
  <1>2. news \in Nat /\ shown \in Nat /\ shown' \in 0..news
    BY DEF RecvReturns, TypeInv, TypeOK
  <1> QED BY <1>1, <1>2 DEF RecvReturns, TypeInv, TypeOK, SendsNoExit

LEMMA TypeType == ASSUME TypeInv, NEW t \in Texts \cup {EXIT}, Type(t) PROVE TypeInv'
  <1>1. Append(typed, t) \in Seq(Texts \cup {EXIT}) /\ Len(Append(typed, t)) = Len(typed) + 1
        /\ Len(typed) \in Nat
    BY Appended DEF TypeInv, TypeOK
  <1>2. typed' \in Seq(Texts \cup {EXIT}) /\ read' \in 0..Len(typed')
    BY <1>1 DEF Type, TypeInv, TypeOK
  <1> QED BY <1>2 DEF Type, TypeInv, TypeOK, SendsNoExit

LEMMA HearType == ASSUME TypeInv, Hear PROVE TypeInv'
  <1>1. Head(out) \in Message /\ Tail(out) \in Seq(Message)
    BY HeadTail DEF Hear, TypeInv, TypeOK
  <1>2. heard' \in Seq(Message) /\ Len(heard') <= MaxHeard
    BY <1>1, Appended, ChatClientAssumption DEF Hear, TypeInv, TypeOK
  <1> QED BY <1>1, <1>2 DEF Hear, TypeInv, TypeOK, SendsNoExit

LEMMA TypeStep == TypeInv /\ [Next]_vars => TypeInv'
  <1> SUFFICES ASSUME TypeInv, [Next]_vars PROVE TypeInv'
    OBVIOUS
  <1>1. CASE Bye
    <2>1. open' \in BOOLEAN
      BY <1>1 DEF Bye
    <2> QED BY <1>1, <2>1 DEF Bye, TypeInv, TypeOK, SendsNoExit
  <1>2. CASE CallRecv
    BY <1>2 DEF CallRecv, TypeInv, TypeOK, SendsNoExit
  <1>3. CASE EndOfFile
    BY <1>3 DEF EndOfFile, TypeInv, TypeOK, SendsNoExit
  <1>4. CASE Tell
    <2>1. out' \in Seq(Message) /\ unread' \in BOOLEAN
      BY <1>4, LostQueue DEF Tell, TypeInv, TypeOK
    <2>2. news' \in 0..MaxNews /\ shown' \in 0..news'
      BY <1>4, ChatClientAssumption DEF Tell, TypeInv, TypeOK
    <2> QED BY <1>4, <2>1, <2>2 DEF Tell, TypeInv, TypeOK, SendsNoExit
  <1>5. CASE ServerCloses \/ ResetComes
    <2>1. <<>> \in Seq(Message)
      OBVIOUS
    <2>2. failed' \in BOOLEAN
      BY <1>5 DEF ServerCloses, ResetComes
    <2>3. server' \in {"up", "closed", "reset"} /\ out' = <<>>
      BY <1>5 DEF ServerCloses, ResetComes
    <2> QED BY <1>5, <2>1, <2>2, <2>3 DEF ServerCloses, ResetComes, TypeInv, TypeOK, SendsNoExit
  <1>6. CASE UNCHANGED vars
    BY <1>6 DEF vars, TypeInv, TypeOK, SendsNoExit
  <1> QED
    BY <1>1, <1>2, <1>3, <1>4, <1>5, <1>6, ConnectType, ReturnType, ReadLineType, TestType,
       SendLineType, RecvReturnsType, TypeType, HearType
       DEF Next, Main, SendHandler, ReceiveHandler

\* Whatever the threads, the user and the server do, every variable of the
\* client keeps its type, and "exit" is never sent.
THEOREM ClientTypeCorrect == Spec => []TypeOK
  <1>1. TypeInv => TypeOK
    BY DEF TypeInv
  <1> QED BY <1>1, InitType, TypeStep, PTL DEF Spec

-----------------------------------------------------------------------------
(* What reaches the server is what was typed.                              *)

\* Where the threads are, and what that says of the process and the socket.
Places ==
  /\ mpc = "connect" => /\ spc = "none" /\ heard = <<>> /\ out = <<>> /\ read = 0 /\ news = 0
                        /\ over \in {"no", "refused"}
  /\ spc = "none" => mpc = "connect"
  /\ mpc = "return" => flag
  /\ flag => spc = "done"
  /\ over = "refused" => mpc = "connect" /\ server # "up"
  /\ over = "bye" => mpc = "return"
  /\ over = "signal" => server = "reset"
  /\ over = "no" => ~unread

\* What the send thread has in its buffer: nothing, the line it has just read,
\* or again nothing, since the terminal's file is at its end.
Spoken ==
  /\ spc \in {"none", "read"} => buff = EMPTY
  /\ spc \in {"test", "send"} => IF buff = EMPTY THEN eof /\ read = Len(typed)
                                                 ELSE read >= 1 /\ buff = typed[read]
  /\ spc = "done" => read >= 1 /\ typed[read] = EXIT

\* m is the k-th message the server is to hear, when n of the lines t were
\* read and e says that there will be no more.
Due(k, m, t, n, e) ==
  IF k = 1 THEN m = NAME
  ELSE IF k - 1 <= n THEN m = t[k - 1] /\ m # EXIT
  ELSE m = EMPTY /\ e /\ n = Len(t)

\* What was heard was due, and what is queued will be.
HeardDue ==
  /\ \A k \in 1..Len(heard) : Due(k, heard[k], typed, read, eof)
  /\ server = "up" => \A k \in 1..Len(out) :
                      Due(Len(heard) + k, out[k], typed, read, eof)

Messages == Len(heard) + Len(out)

\* While the server is there, as many messages were heard or are queued as the
\* send thread has sent.
Count ==
  server = "up" /\ ~unread =>
    /\ spc = "read" => Messages >= read + 1
    /\ spc \in {"test", "send"} =>
         IF buff = EMPTY THEN Messages >= read + 1 ELSE Messages = read
    /\ spc = "done" => Messages = read

DeliveryInv == Places /\ Spoken /\ HeardDue /\ Count

\* At the start nothing is typed, read, sent or heard.
LEMMA InitDelivery == Init => DeliveryInv
  <1> SUFFICES ASSUME Init PROVE DeliveryInv
    OBVIOUS
  <1>1. Places /\ Spoken /\ Count
    BY DEF Init, Places, Spoken, Count
  <1>2. Len(heard) = 0 /\ Len(out) = 0
    BY DEF Init
  <1>3. HeardDue
    BY <1>2 DEF HeardDue
  <1> QED BY <1>1, <1>3 DEF DeliveryInv

\* A line is read or typed, or the file ends, or the terminal is left alone.
TerminalMoves ==
  \/ read < Len(typed) /\ read' = read + 1 /\ UNCHANGED <<typed, eof>>
  \/ ~eof /\ (\E t \in Texts \cup {EXIT} : typed' = Append(typed, t)) /\ UNCHANGED <<read, eof>>
  \/ eof' = TRUE /\ UNCHANGED <<typed, read>>
  \/ UNCHANGED <<typed, read, eof>>

\* What was due stays due when the user types or a line is read.
LEMMA DueStays ==
  ASSUME TypeInv, TerminalMoves,
         NEW k \in Nat \ {0}, NEW m, Due(k, m, typed, read, eof)
  PROVE  Due(k, m, typed', read', eof')
  <1>1. typed \in Seq(Texts \cup {EXIT}) /\ read \in 0..Len(typed) /\ Len(typed) \in Nat
    BY DEF TypeInv, TypeOK
  <1>2. CASE read < Len(typed) /\ read' = read + 1 /\ UNCHANGED <<typed, eof>>
    BY <1>1, <1>2 DEF Due
  <1>3. CASE ~eof /\ (\E t \in Texts \cup {EXIT} : typed' = Append(typed, t))
             /\ UNCHANGED <<read, eof>>
    <2>1. \A j \in 1..Len(typed) : typed'[j] = typed[j]
      BY <1>1, <1>3, Appended
    <2>2. CASE k = 1
      BY <2>2 DEF Due
    <2>3. CASE k # 1
      <3>1. k - 1 <= read /\ k - 1 \in 1..Len(typed)
        BY <1>1, <1>3, <2>3 DEF Due
      <3> QED BY <1>3, <2>1, <2>3, <3>1 DEF Due
    <2> QED BY <2>2, <2>3
  <1>4. CASE eof' = TRUE /\ UNCHANGED <<typed, read>>
    BY <1>4 DEF Due
  <1>5. CASE UNCHANGED <<typed, read, eof>>
    BY <1>5 DEF Due
  <1> QED BY <1>2, <1>3, <1>4, <1>5 DEF TerminalMoves

\* A step that sends and hears nothing keeps HeardDue.
LEMMA QuietDue ==
  ASSUME TypeInv, HeardDue,
         TerminalMoves,
         heard' = heard, server' = "up" => server = "up" /\ (Shorter \/ out' = out)
  PROVE  HeardDue'
  <1>1. Len(heard) \in Nat
    BY DEF TypeInv, TypeOK
  <1>2. \A k \in 1..Len(heard) : Due(k, heard[k], typed', read', eof')
    BY <1>1, DueStays DEF HeardDue
  <1>3. ASSUME server' = "up", NEW k \in 1..Len(out')
        PROVE  Due(Len(heard) + k, out'[k], typed', read', eof')
    <2>0. Len(out) \in Nat /\ Shorter
      BY <1>3, SameQueue DEF TypeInv, TypeOK
    <2>1. out'[k] = out[k] /\ server = "up" /\ k \in 1..Len(out) /\ k \in Nat \ {0}
      BY <1>3, <2>0 DEF Shorter
    <2>2. Due(Len(heard) + k, out[k], typed, read, eof)
      BY <2>1 DEF HeardDue
    <2>3. Len(heard) + k \in Nat \ {0}
      BY <1>1, <2>1
    <2> QED BY <2>1, <2>2, <2>3, DueStays
  <1> QED BY <1>2, <1>3 DEF HeardDue

\* The process ends: what is queued is kept or thrown away.
LEMMA EndsQueue ==
  ASSUME TypeInv, NEW how, Ends(how)
  PROVE  over' = how /\ Shorter /\ (~unread' => out' = out) /\ (shown = news => out' = out)
  <1>1. shown \in Nat /\ news \in Nat /\ TypeOK
    BY DEF TypeInv, TypeOK
  <1>2. CASE shown < news
    <2>1. over' = how /\ QueueLost /\ unread'
      BY <1>2 DEF Ends
    <2>2. Shorter
      BY <1>1, <2>1, LostQueue
    <2> QED BY <1>1, <1>2, <2>1, <2>2
  <1>3. CASE ~(shown < news)
    <2>1. over' = how /\ out' = out
      BY <1>3 DEF Ends
    <2> QED BY <1>1, <2>1, SameQueue
  <1> QED BY <1>2, <1>3

LEMMA ConnectDelivery == ASSUME TypeInv, DeliveryInv, Connect PROVE DeliveryInv'
  <1> USE DEF DeliveryInv, Connect
  <1>1. CASE server = "up"
    <2>1. Places'
      BY <1>1 DEF Places
    <2>2. Spoken'
      BY <1>1 DEF Spoken, Places
    <2>3. heard' = <<>> /\ out' = <<NAME>> /\ Len(heard') = 0 /\ Len(out') = 1 /\ read' = 0
      BY <1>1 DEF Places
    <2>4. HeardDue'
      BY <2>3 DEF HeardDue, Due
    <2>5. Count'
      BY <1>1, <2>3 DEF Count, Messages
    <2> QED BY <2>1, <2>2, <2>4, <2>5
  <1>2. CASE server # "up"
    <2>1. Ends("refused")
      BY <1>2
    <2>2. over' = "refused" /\ out' = out
      BY <2>1, EndsQueue DEF Places, TypeInv, TypeOK
    <2>3. Places'
      BY <1>2, <2>2 DEF Places
    <2>4. Spoken'
      BY <1>2 DEF Spoken
    <2>5. HeardDue'
      BY <1>2, <2>2, QuietDue DEF TerminalMoves
    <2>6. Count'
      BY <1>2 DEF Count
    <2> QED BY <2>3, <2>4, <2>5, <2>6
  <1> QED BY <1>1, <1>2

LEMMA ByeDelivery == ASSUME TypeInv, DeliveryInv, Bye PROVE DeliveryInv'
  <1> USE DEF DeliveryInv, Bye
  <1>1. Places'
    BY DEF Places, Running
  <1>2. Spoken' /\ Count'
    BY DEF Spoken, Count, Messages
  <1>3. HeardDue'
    BY QuietDue DEF TerminalMoves
  <1> QED BY <1>1, <1>2, <1>3

LEMMA ReturnDelivery == ASSUME TypeInv, DeliveryInv, Return PROVE DeliveryInv'
  <1> USE DEF DeliveryInv, Return
  <1>1. over' = "bye" /\ Shorter /\ ~unread
        /\ (~unread' => out' = out)
    BY EndsQueue DEF Running, Places
  <1>2. Places'
    BY <1>1 DEF Places
  <1>3. Spoken'
    BY DEF Spoken
  <1>4. Count'
    BY <1>1 DEF Count, Messages
  <1>5. HeardDue'
    BY <1>1, QuietDue DEF TerminalMoves
  <1> QED BY <1>2, <1>3, <1>4, <1>5

LEMMA ReadLineDelivery == ASSUME TypeInv, DeliveryInv, ReadLine PROVE DeliveryInv'
  <1> USE DEF DeliveryInv, ReadLine
  <1>1. typed \in Seq(Texts \cup {EXIT}) /\ read \in 0..Len(typed) /\ Len(typed) \in Nat
        /\ Len(heard) \in Nat /\ Len(out) \in Nat
    BY DEF TypeInv, TypeOK
  <1>2. Places'
    BY DEF Places
  <1>3. HeardDue'
    BY QuietDue DEF TerminalMoves
  <1>4. CASE read < Len(typed) /\ buff' = typed[read + 1] /\ read' = read + 1
    <2>1. buff' # EMPTY
      BY <1>1, <1>4, ChatClientAssumption
    <2>2. Spoken'
      BY <1>1, <1>4, <2>1 DEF Spoken
    <2>3. ASSUME server = "up", ~unread PROVE Messages = read + 1
      <3>1. Messages \in Nat /\ Messages >= read + 1
        BY <1>1, <2>3 DEF Count, Messages
      <3>2. ASSUME Messages > read + 1 PROVE FALSE
        <4>1. CASE Messages > Len(heard)
          <5>1. Len(out) \in 1..Len(out) /\ Len(heard) + Len(out) = Messages
            BY <1>1, <4>1 DEF Messages
          <5>2. Due(Messages, out[Len(out)], typed, read, eof)
            BY <2>3, <5>1 DEF HeardDue
          <5> QED BY <1>1, <1>4, <3>1, <3>2, <5>2 DEF Due
        <4>2. CASE Messages <= Len(heard)
          <5>1. Messages \in 1..Len(heard)
            BY <1>1, <3>1, <3>2, <4>2
          <5>2. Due(Messages, heard[Messages], typed, read, eof)
            BY <5>1 DEF HeardDue
          <5> QED BY <1>1, <1>4, <3>1, <3>2, <5>2 DEF Due
        <4> QED BY <1>1, <3>1, <4>1, <4>2
      <3> QED BY <1>1, <3>1, <3>2
    <2>4. Count'
      BY <1>1, <1>4, <2>1, <2>3 DEF Count, Messages
    <2> QED BY <1>2, <1>3, <2>2, <2>4
  <1>5. CASE read = Len(typed) /\ eof /\ UNCHANGED <<buff, read>>
    <2>1. Spoken' /\ Count'
      BY <1>5 DEF Spoken, Count, Messages
    <2> QED BY <1>2, <1>3, <2>1
  <1> QED BY <1>4, <1>5

LEMMA TestDelivery == ASSUME TypeInv, DeliveryInv, Test PROVE DeliveryInv'
  <1> USE DEF DeliveryInv, Test, Leave
  <1>1. Places'
    BY DEF Places, Running
  <1>2. HeardDue'
    BY QuietDue DEF TerminalMoves
  <1>3. EXIT # EMPTY
    BY ChatClientAssumption
  <1>4. Spoken' /\ Count'
    BY <1>3 DEF Spoken, Count, Messages
  <1> QED BY <1>1, <1>2, <1>4

LEMMA SendLineDelivery == ASSUME TypeInv, DeliveryInv, SendLine PROVE DeliveryInv'
  <1> USE DEF DeliveryInv, SendLine
  <1>1. out \in Seq(Message) /\ Len(heard) \in Nat /\ Len(out) \in Nat /\ buff \in Message
        /\ read \in Nat /\ buff # EXIT
    BY DEF TypeInv, TypeOK, SendsNoExit, Message
  <1>2. CASE server # "reset" /\ Queue /\ UNCHANGED <<over, failed, unread>>
    <2>1. out' = Append(out, buff) /\ Len(out') = Len(out) + 1 /\ out'[Len(out) + 1] = buff
          /\ \A k \in 1..Len(out) : out'[k] = out[k]
      BY <1>1, <1>2, Appended DEF Queue
    <2>2. Places'
      BY <1>2 DEF Places
    <2>3. Spoken'
      BY DEF Spoken
    <2>4. Count'
      BY <1>1, <1>2, <2>1 DEF Count, Messages
    <2>5. ASSUME server = "up" PROVE Due(Messages + 1, buff, typed, read, eof)
      <3>1. ~unread
        BY DEF Places, Running
      <3> QED BY <1>1, <2>5, <3>1 DEF Count, Messages, Spoken, Due
    <2>6. ASSUME server = "up", NEW k \in 1..(Len(out) + 1)
          PROVE  Due(Len(heard) + k, out'[k], typed, read, eof)
      <3>1. CASE k = Len(out) + 1
        BY <1>1, <2>1, <2>5, <2>6, <3>1 DEF Messages
      <3>2. CASE k \in 1..Len(out)
        BY <2>1, <2>6, <3>2 DEF HeardDue
      <3> QED BY <1>1, <3>1, <3>2
    <2>7. HeardDue'
      BY <2>1, <2>6 DEF HeardDue
    <2> QED BY <2>2, <2>3, <2>4, <2>7
  <1>3. CASE server = "reset" /\ \/ failed' = FALSE /\ UNCHANGED <<out, over, unread>>
                                 \/ Ends("signal") /\ UNCHANGED failed
    <2>1. (over' = over /\ unread' = unread) \/ over' = "signal"
      BY <1>3, EndsQueue
    <2>2. Places'
      BY <1>3, <2>1 DEF Places
    <2>3. Spoken' /\ Count'
      BY <1>3 DEF Spoken, Count
    <2>4. HeardDue'
      BY <1>3, QuietDue DEF TerminalMoves
    <2> QED BY <2>2, <2>3, <2>4
  <1> QED BY <1>2, <1>3

\* The server hears what has been queued longest.
LEMMA HearDelivery == ASSUME TypeInv, DeliveryInv, Hear PROVE DeliveryInv'
  <1> USE DEF DeliveryInv, Hear
  <1>1. out \in Seq(Message) /\ heard \in Seq(Message) /\ Len(heard) \in Nat /\ Len(out) \in Nat
    BY DEF TypeInv, TypeOK
  <1>2. /\ Head(out) \in Message /\ Head(out) = out[1] /\ Len(out) >= 1
        /\ Len(out') = Len(out) - 1 /\ \A k \in 1..(Len(out) - 1) : out'[k] = out[k + 1]
    BY <1>1, HeadTail
  <1>3. /\ Len(heard') = Len(heard) + 1 /\ heard'[Len(heard) + 1] = out[1]
        /\ \A k \in 1..Len(heard) : heard'[k] = heard[k]
    BY <1>1, <1>2, Appended
  <1>4. Places'
    BY DEF Places
  <1>5. Spoken' /\ Count'
    BY <1>1, <1>2, <1>3 DEF Spoken, Count, Messages
  <1>6. ASSUME NEW k \in 1..(Len(heard) + 1) PROVE Due(k, heard'[k], typed, read, eof)
    <2>1. CASE k = Len(heard) + 1
      BY <1>1, <1>2, <1>3, <2>1 DEF HeardDue
    <2>2. CASE k \in 1..Len(heard)
      BY <1>3, <2>2 DEF HeardDue
    <2> QED BY <1>1, <2>1, <2>2
  <1>7. ASSUME NEW k \in 1..(Len(out) - 1)
        PROVE  Due(Len(heard) + 1 + k, out'[k], typed, read, eof)
    <2>1. k + 1 \in 1..Len(out) /\ Len(heard) + (k + 1) = Len(heard) + 1 + k
      BY <1>1
    <2>2. Due(Len(heard) + (k + 1), out[k + 1], typed, read, eof)
      BY <2>1 DEF HeardDue
    <2> QED BY <1>2, <2>1, <2>2
  <1>8. HeardDue'
    BY <1>1, <1>2, <1>3, <1>6, <1>7 DEF HeardDue
  <1> QED BY <1>4, <1>5, <1>8

LEMMA TypeDelivery ==
  ASSUME TypeInv, DeliveryInv, NEW t \in Texts \cup {EXIT}, Type(t)
  PROVE  DeliveryInv'
  <1> USE DEF DeliveryInv, Type
  <1>1. typed \in Seq(Texts \cup {EXIT}) /\ read \in 0..Len(typed) /\ Len(typed) \in Nat
    BY DEF TypeInv, TypeOK
  <1>2. \A k \in 1..Len(typed) : typed'[k] = typed[k]
    BY <1>1, Appended
  <1>3. Places'
    BY DEF Places
  <1>4. Spoken'
    BY <1>1, <1>2 DEF Spoken
  <1>5. Count'
    BY DEF Count, Messages
  <1>6. HeardDue'
    BY QuietDue DEF TerminalMoves
  <1> QED BY <1>3, <1>4, <1>5, <1>6

\* The steps that leave the send thread and the connection to the server alone.
LEMMA OtherDelivery ==
  ASSUME TypeInv, DeliveryInv, CallRecv \/ RecvReturns \/ EndOfFile \/ UNCHANGED vars
  PROVE  DeliveryInv'
  <1> USE DEF DeliveryInv, CallRecv, RecvReturns, EndOfFile, vars
  <1>1. Places'
    BY DEF Places
  <1>2. Spoken'
    BY DEF Spoken
  <1>3. Count'
    BY DEF Count, Messages
  <1>4. HeardDue'
    BY QuietDue DEF TerminalMoves
  <1> QED BY <1>1, <1>2, <1>3, <1>4

\* The server sends something, perhaps too late to be read.
LEMMA TellDelivery == ASSUME TypeInv, DeliveryInv, Tell PROVE DeliveryInv'
  <1> USE DEF DeliveryInv, Tell
  <1>1. Shorter /\ (~unread' => out' = out /\ ~unread) /\ (Running => unread' = unread)
    BY SameQueue, LostQueue DEF TypeInv
  <1>2. Places'
    BY <1>1 DEF Places, Running
  <1>3. Spoken'
    BY DEF Spoken
  <1>4. Count'
    BY <1>1 DEF Count, Messages
  <1>5. HeardDue'
    BY <1>1, QuietDue DEF TerminalMoves
  <1> QED BY <1>2, <1>3, <1>4, <1>5

\* The server goes, and with it what it has not heard.
LEMMA GoneDelivery ==
  ASSUME TypeInv, DeliveryInv, ServerCloses \/ ResetComes
  PROVE  DeliveryInv'
  <1> USE DEF DeliveryInv, ServerCloses, ResetComes
  <1>1. server' # "up"
    OBVIOUS
  <1>2. Places'
    BY <1>1 DEF Places
  <1>3. Spoken' /\ Count'
    BY <1>1 DEF Spoken, Count
  <1>4. HeardDue'
    BY <1>1, QuietDue DEF TerminalMoves
  <1> QED BY <1>2, <1>3, <1>4

LEMMA DeliveryStep == TypeInv /\ DeliveryInv /\ [Next]_vars => DeliveryInv'
  BY ConnectDelivery, ByeDelivery, ReturnDelivery, ReadLineDelivery, TestDelivery,
     SendLineDelivery, HearDelivery, TellDelivery, TypeDelivery, OtherDelivery, GoneDelivery
     DEF Next, Main, SendHandler, ReceiveHandler

\* A set of natural numbers that is not empty has a least element.
LEMMA LeastNumber ==
  ASSUME NEW T \in SUBSET Nat, T # {}
  PROVE  \E m \in T : \A k \in T : m <= k
  <1> DEFINE R == OpToRel(<, Nat)
  <1>1. IsWellFoundedOn(R, Nat)
    BY NatLessThanWellFounded
  <1>2. \A x, y \in Nat : x < y => <<x, y>> \in R
    BY DEF OpToRel
  <1> HIDE DEF R
  <1>3. PICK x \in T : \A y \in T : ~ (<<y, x>> \in R)
    BY <1>1, WFMin
  <1>4. \A y \in T : ~ (y < x)
    BY <1>2, <1>3
  <1>5. \A y \in T : x <= y
    BY <1>4
  <1> QED BY <1>5

\* Lines is what was typed before the first "exit".
LEMMA LinesAre ==
  ASSUME TypeOK
  PROVE  \E n \in 0..Len(typed) :
           /\ Len(Lines) = n
           /\ \A j \in 1..n : Lines[j] = typed[j] /\ typed[j] # EXIT
           /\ n = Len(typed) \/ typed[n + 1] = EXIT
  <1> DEFINE exits == { k \in DOMAIN typed : typed[k] = EXIT }
             first == CHOOSE k \in exits : \A j \in exits : k <= j
             end   == IF exits = {} THEN Len(typed) ELSE first - 1
  <1>1. typed \in Seq(Texts \cup {EXIT}) /\ Len(typed) \in Nat /\ DOMAIN typed = 1..Len(typed)
    BY DEF TypeOK
  <1>2. exits \in SUBSET Nat /\ \A k \in exits : k \in 1..Len(typed) /\ typed[k] = EXIT
    BY <1>1
  <1>3. \A k \in 1..Len(typed) : k \notin exits => typed[k] # EXIT
    BY <1>1
  <1>4. Lines = SubSeq(typed, 1, end)
    BY DEF Lines
  <1>5. exits # {} => first \in exits /\ \A j \in exits : first <= j
    <2> HIDE DEF exits
    <2> QED BY <1>2, LeastNumber
  <1> HIDE DEF exits, first
  <1>6. end \in 0..Len(typed) /\ (end = Len(typed) \/ typed[end + 1] = EXIT)
    <2>1. CASE exits = {}
      BY <1>1, <2>1
    <2>2. CASE exits # {}
      <3>1. first \in 1..Len(typed) /\ typed[first] = EXIT /\ end = first - 1
        BY <1>2, <1>5, <2>2
      <3>2. end + 1 = first /\ end \in 0..Len(typed)
        BY <1>1, <3>1
      <3> QED BY <3>1, <3>2
    <2> QED BY <2>1, <2>2
  <1>7. \A j \in 1..end : j \in 1..Len(typed) /\ j \notin exits
    <2>1. CASE exits = {}
      BY <1>1, <2>1
    <2>2. CASE exits # {}
      <3>1. first \in 1..Len(typed) /\ end = first - 1 /\ \A j \in exits : first <= j
        BY <1>2, <1>5, <2>2
      <3> HIDE DEF end
      <3> QED BY <1>1, <1>2, <3>1
    <2> QED BY <2>1, <2>2
  <1>8. PICK n : n = end
    OBVIOUS
  <1> HIDE DEF end
  <1>9. Lines = SubSeq(typed, 1, n) /\ n \in 0..Len(typed)
    BY <1>4, <1>6, <1>8
  <1>10. Len(Lines) = n /\ \A j \in 1..n : Lines[j] = typed[j]
    BY <1>1, <1>9
  <1>11. \A j \in 1..n : typed[j] # EXIT
    BY <1>3, <1>7, <1>8
  <1> QED BY <1>6, <1>8, <1>9, <1>10, <1>11

\* What is due is what HeardAsTyped says.
LEMMA HeardAsTypedHolds == TypeInv /\ DeliveryInv => HeardAsTyped
  <1> SUFFICES ASSUME TypeInv, DeliveryInv PROVE HeardAsTyped
    OBVIOUS
  <1>1. /\ typed \in Seq(Texts \cup {EXIT}) /\ Len(typed) \in Nat /\ read \in 0..Len(typed)
        /\ heard \in Seq(Message) /\ Len(heard) \in Nat /\ DOMAIN heard = 1..Len(heard)
    BY DEF TypeInv, TypeOK
  <1>2. PICK n \in 0..Len(typed) :
          /\ Len(Lines) = n
          /\ \A j \in 1..n : Lines[j] = typed[j] /\ typed[j] # EXIT
          /\ n = Len(typed) \/ typed[n + 1] = EXIT
    BY LinesAre DEF TypeInv
  <1>3. \A k \in 1..Len(heard) : Due(k, heard[k], typed, read, eof)
    BY DEF DeliveryInv, HeardDue
  \* The first "exit" is not among the lines that were sent.
  <1>4. ASSUME NEW k \in 2..Len(heard), k - 1 <= read PROVE k - 1 <= n
    <2>1. SUFFICES ASSUME n + 1 <= k - 1 PROVE FALSE
      BY <1>1, <1>2
    <2>2. n + 2 \in 1..Len(heard) /\ n + 1 <= read /\ n + 1 \in 1..Len(typed)
      BY <1>1, <1>2, <1>4, <2>1
    <2>3. Due(n + 2, heard[n + 2], typed, read, eof)
      BY <1>3, <2>2
    <2>4. n + 2 # 1 /\ (n + 2) - 1 = n + 1
      BY <1>2
    <2>5. typed[n + 1] # EXIT
      BY <2>2, <2>3, <2>4 DEF Due
    <2> QED BY <1>2, <2>2, <2>5
  <1>5. ASSUME NEW k \in 2..Len(heard), ~(k - 1 <= read)
        PROVE  heard[k] = EMPTY /\ eof /\ n = Len(typed) /\ n = read
    <2>1. heard[k] = EMPTY /\ eof /\ read = Len(typed)
      BY <1>1, <1>3, <1>5 DEF Due
    <2>2. CASE read = 0
      BY <1>2, <2>1, <2>2
    <2>3. CASE read >= 1
      <3>1. read + 1 \in 2..Len(heard) /\ (read + 1) - 1 <= read
        BY <1>1, <1>5, <2>3
      <3>2. read <= n
        BY <1>1, <1>4, <3>1
      <3> QED BY <1>1, <1>2, <2>1, <3>2
    <2> QED BY <1>1, <2>2, <2>3
  <1>6. ASSUME NEW k \in 1..Len(heard)
        PROVE  IF k = 1 THEN heard[k] = NAME
               ELSE IF k <= Len(Lines) + 1 THEN heard[k] = Lines[k - 1]
               ELSE heard[k] = EMPTY /\ eof
    <2>1. Due(k, heard[k], typed, read, eof)
      BY <1>3
    <2>2. CASE k = 1
      BY <2>1, <2>2 DEF Due
    <2>3. CASE k # 1 /\ k - 1 <= read
      <3>1. k - 1 \in 1..n
        BY <1>1, <1>2, <1>4, <2>3
      <3>2. heard[k] = typed[k - 1] /\ Lines[k - 1] = typed[k - 1] /\ k <= Len(Lines) + 1
        BY <1>2, <2>1, <2>3, <3>1 DEF Due
      <3> QED BY <2>3, <3>2
    <2>4. CASE k # 1 /\ ~(k - 1 <= read)
      <3>1. heard[k] = EMPTY /\ eof /\ n = read
        BY <1>1, <1>5, <2>4
      <3>2. ~(k <= Len(Lines) + 1)
        BY <1>1, <1>2, <2>4, <3>1
      <3> QED BY <2>4, <3>1, <3>2
    <2> QED BY <2>2, <2>3, <2>4
  <1> QED BY <1>1, <1>6 DEF HeardAsTyped

\* When main has seen the flag, the thread has sent all before "exit".
LEMMA NothingDroppedHolds == TypeInv /\ DeliveryInv => NothingDropped
  <1> SUFFICES ASSUME TypeInv, DeliveryInv, over = "bye", server = "up", ~unread
               PROVE  Len(heard) + Len(out) = Len(Lines) + 1
    BY DEF NothingDropped
  <1>1. /\ typed \in Seq(Texts \cup {EXIT}) /\ Len(typed) \in Nat /\ read \in 0..Len(typed)
        /\ Len(heard) \in Nat /\ Len(out) \in Nat
    BY DEF TypeInv, TypeOK
  <1>2. PICK n \in 0..Len(typed) :
          /\ Len(Lines) = n
          /\ \A j \in 1..n : Lines[j] = typed[j] /\ typed[j] # EXIT
          /\ n = Len(typed) \/ typed[n + 1] = EXIT
    BY LinesAre DEF TypeInv
  <1>3. spc = "done"
    BY DEF DeliveryInv, Places
  <1>4. read >= 1 /\ typed[read] = EXIT /\ Len(heard) + Len(out) = read
    BY <1>3 DEF DeliveryInv, Spoken, Count, Messages
  <1>5. n < read
    BY <1>1, <1>2, <1>4
  <1>6. ASSUME NEW k \in 2..read PROVE typed[k - 1] # EXIT
    <2>1. CASE k \in 1..Len(heard)
      <3>1. Due(k, heard[k], typed, read, eof)
        BY <2>1 DEF DeliveryInv, HeardDue
      <3> QED BY <1>1, <1>6, <3>1 DEF Due
    <2>2. CASE k - Len(heard) \in 1..Len(out)
      <3>1. Due(Len(heard) + (k - Len(heard)), out[k - Len(heard)], typed, read, eof)
        BY <2>2 DEF DeliveryInv, HeardDue
      <3>2. Len(heard) + (k - Len(heard)) = k
        BY <1>1
      <3>3. Due(k, out[k - Len(heard)], typed, read, eof)
        BY <3>1, <3>2
      <3> QED BY <1>1, <1>6, <3>3 DEF Due
    <2> QED BY <1>1, <1>4, <2>1, <2>2
  <1>7. n + 1 >= read
    <2>1. SUFFICES ASSUME n + 1 < read PROVE FALSE
      BY <1>1, <1>2
    <2>2. n + 2 \in 2..read /\ (n + 2) - 1 = n + 1
      BY <1>1, <1>2, <2>1
    <2> QED BY <1>1, <1>2, <1>6, <2>1, <2>2
  <1> QED BY <1>1, <1>2, <1>4, <1>5, <1>7

\* Whoever runs first, and whenever the user types, the file of the terminal
\* ends, the server goes or sends something: the server hears the name and the
\* lines in their order and each once, and a user who typed "exit" has all of
\* them under way, as long as no message of the server was left unread or came
\* after the end.
THEOREM HeardWhatWasTyped == Spec => []Delivered
  <1>1. TypeInv /\ DeliveryInv => Delivered
    BY HeardAsTypedHolds, NothingDroppedHolds DEF Delivered
  <1> QED BY <1>1, InitType, InitDelivery, TypeStep, DeliveryStep, PTL DEF Spec

=============================================================================

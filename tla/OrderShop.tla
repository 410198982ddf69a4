------------------------------ MODULE OrderShop ------------------------------
(***************************************************************************)
(* The shop A1/C/server.c with its customers A1/C/client.c.                *)
(*                                                                         *)
(* The server takes one connection after the other: it sends the amount of *)
(* apples and, a second later, that of mangoes, receives an order "buy     *)
(* apple 10" and answers.  It reads the item from the fifth character and  *)
(* the quantity from the eleventh on of a buffer that is never cleared,    *)
(* whatever recv returned.  It closes no connection.                       *)
(*                                                                         *)
(* An order is the item at its place and the quantity at its place.  There *)
(* is one step per system call on a connection.                            *)
(***************************************************************************)
EXTENDS Integers, Sequences, SequencesExt

CONSTANTS
  Clients,        \* runs of client.c
  Items,          \* apple, mango
  First,          \* the item whose amount is sent first
  InitialStock,
  Orders,         \* what customers type
  NOITEM,          \* a fifth character that stands for no item
  SHORT,          \* there is no fifth character
  Garbage,        \* what an uninitialised buffer may hold
  MaxFd,          \* descriptors left for connections
  Slow,           \* clients that may read both amounts at once
  Mortal,         \* clients that may be ended
  NULL

Order == [item : Items \cup {NOITEM, SHORT}, qty : Nat]

ASSUME OrderAssumption ==
  /\ First \in Items /\ (\E f \in Items : f # First /\ Items = {First, f})
  /\ InitialStock \in [Items -> Nat]
  /\ NOITEM \notin Items /\ SHORT \notin Items /\ NOITEM # SHORT
  /\ Orders \subseteq Order /\ \A o \in Orders : o.item = SHORT => o.qty = 0
  /\ Garbage \subseteq [item : Items \cup {NOITEM}, qty : Nat]
  /\ MaxFd \in Nat /\ Slow \cup Mortal \subseteq Clients /\ NULL \notin Clients

VARIABLES
  phase, shown, asked, told, \* clients: where they are, amounts shown, order, answer
  up, down, rst,             \* connections
  backlog, nOpen,            \* listen queue, connections not closed
  pc, cur, receiverBuffer, error,
  stock, transactionID,
  sales                      \* history of sales

clientVars == <<phase, shown, asked, told>>
connVars   == <<up, down, rst>>
mainVars   == <<receiverBuffer, error, stock, transactionID, sales>>

vars == <<clientVars, connVars, backlog, nOpen, pc, cur, mainVars>>

Ended == {"done", "left"}

\* What a client shows before an amount has come, for two amounts read as one
\* number, and for digits that uninitialised memory continues.
UNKNOWN == -1
JOINED  == -2
GARBLED == -3

Second == CHOOSE f \in Items : f # First

NoOrder == [item |-> NOITEM, qty |-> 0]

Amount(f) == [kind |-> "amount", n |-> stock[f]]

Init ==
  /\ phase = [c \in Clients |-> "idle"]
  /\ shown = [c \in Clients |-> [f \in Items |-> UNKNOWN]]
  /\ asked = [c \in Clients |-> NoOrder]
  /\ told  = [c \in Clients |-> [kind |-> "nothing", n |-> 0]]
  /\ up   = [c \in Clients |-> <<>>]
  /\ down = [c \in Clients |-> <<>>]
  /\ rst  = [c \in Clients |-> FALSE]
  /\ backlog = <<>>
  /\ nOpen = 0
  /\ pc = "accept"
  /\ cur = NULL
  /\ receiverBuffer \in Garbage
  /\ error = FALSE
  /\ stock = InitialStock
  /\ transactionID = 0
  /\ sales = <<>>

-----------------------------------------------------------------------------
(* client.c                                                                *)

Connect(c) ==
  /\ phase[c] = "idle" /\ pc # "exited"
  /\ phase' = [phase EXCEPT ![c] = "connected"]
  /\ backlog' = Append(backlog, c)
  /\ UNCHANGED <<shown, asked, told, connVars, nOpen, pc, cur, mainVars>>

\* recv() finds the end of the stream: the server closes only by its end.
AtEnd(c) == pc = "exited" /\ down[c] = <<>>

\* Messages that one recv() of c may return together.
Together(c) == IF c \in Slow THEN 1..Len(down[c]) ELSE {1} \cap DOMAIN down[c]

Shows(c, f, n) == shown' = [shown EXCEPT ![c][f] = n]

\* The first amount; atoi reads on where recv has put no zero.
RecvFirst(c) ==
  /\ phase[c] = "connected"
  /\ phase' = [phase EXCEPT ![c] = "half"]
  /\ \/ AtEnd(c) /\ UNCHANGED <<shown, down>>
     \/ \E k \in Together(c) :
          /\ \/ Shows(c, First, IF k > 1 THEN JOINED ELSE down[c][1].n)
             \/ Shows(c, First, GARBLED)
          /\ down' = [down EXCEPT ![c] = SubSeq(@, k + 1, Len(@))]
  /\ UNCHANGED <<asked, told, up, rst, backlog, nOpen, pc, cur, mainVars>>

RecvSecond(c) ==
  /\ phase[c] = "half"
  /\ phase' = [phase EXCEPT ![c] = "shown"]
  /\ \/ AtEnd(c) /\ UNCHANGED <<shown, down>>
     \/ /\ down[c] # <<>>
        /\ Shows(c, Second, Head(down[c]).n) \/ Shows(c, Second, GARBLED)
        /\ down' = [down EXCEPT ![c] = Tail(@)]
  /\ UNCHANGED <<asked, told, up, rst, backlog, nOpen, pc, cur, mainVars>>

\* The process ends; what it has not read makes its kernel reset.
End(c, how) ==
  /\ phase' = [phase EXCEPT ![c] = how]
  /\ rst' = [rst EXCEPT ![c] = @ \/ down'[c] # <<>>]

\* The user types an order; to a server that has gone it is lost, or ends
\* the client.
SendOrder(c) ==
  /\ phase[c] = "shown"
  /\ \E o \in Orders :
       /\ asked' = [asked EXCEPT ![c] = o]
       /\ up' = [up EXCEPT ![c] = IF pc = "exited" THEN @ ELSE <<o>>]
  /\ UNCHANGED <<shown, told, down, backlog, nOpen, pc, cur, mainVars>>
  /\ \/ phase' = [phase EXCEPT ![c] = "waiting"] /\ UNCHANGED rst
     \/ pc = "exited" /\ End(c, "left")

\* The answer, or "Either Connection Closed or Error".
RecvReply(c) ==
  /\ phase[c] = "waiting"
  /\ \/ /\ down[c] # <<>>
        /\ told' = [told EXCEPT ![c] = Head(down[c])]
        /\ down' = [down EXCEPT ![c] = Tail(@)]
     \/ AtEnd(c) /\ UNCHANGED <<told, down>>
  /\ End(c, "done")
  /\ UNCHANGED <<shown, asked, up, backlog, nOpen, pc, cur, mainVars>>

Kill(c) ==
  /\ c \in Mortal /\ phase[c] \notin {"idle"} \cup Ended
  /\ UNCHANGED down
  /\ End(c, "left")
  /\ UNCHANGED <<shown, asked, told, up, backlog, nOpen, pc, cur, mainVars>>

-----------------------------------------------------------------------------
(* server.c                                                                *)

Accept ==
  /\ pc = "accept" /\ nOpen < MaxFd /\ backlog # <<>>
  /\ cur' = Head(backlog)
  /\ backlog' = Tail(backlog)
  /\ nOpen' = nOpen + 1
  /\ pc' = "first"
  /\ UNCHANGED <<clientVars, connVars, mainVars>>

\* Without a free descriptor accept() fails at once, which is not tested; the
\* two send() fail as well.
AcceptFails ==
  /\ pc = "accept" /\ nOpen = MaxFd
  /\ cur' = NULL
  /\ pc' = "order"
  /\ UNCHANGED <<clientVars, connVars, backlog, nOpen, mainVars>>

\* send() to a client: queued, or lost on one that has gone, whose kernel
\* answers with a reset; after a reset SIGPIPE ends the server.
Send(m, next) ==
  IF phase[cur] \notin Ended
  THEN down' = [down EXCEPT ![cur] = Append(@, m)] /\ pc' = next /\ UNCHANGED rst
  ELSE /\ pc' = IF rst[cur] THEN "exited" ELSE next
       /\ rst' = [rst EXCEPT ![cur] = TRUE]
       /\ UNCHANGED down

SendFirst ==
  /\ pc = "first"
  /\ Send(Amount(First), "second")
  /\ UNCHANGED <<clientVars, up, backlog, nOpen, cur, mainVars>>

\* After sleep(1).
SendSecond ==
  /\ pc = "second"
  /\ Send(Amount(Second), "order")
  /\ UNCHANGED <<clientVars, up, backlog, nOpen, cur, mainVars>>

\* Mutant: the zero is not written after what was received.
BufferedMutant(o) == IF o.item = SHORT THEN receiverBuffer ELSE o

\* A short order puts its final zero before the quantity; the item is read
\* from what an earlier order left.
Buffered(o) == IF o.item = SHORT THEN [receiverBuffer EXCEPT !.qty = 0] ELSE o

\* recv() failed: the whole last order is still there.
Failed == receiverBuffer

\* The end of the stream, or an error if the connection was reset or there
\* is none.
Received ==
  IF cur # NULL /\ up[cur] # <<>> THEN {Buffered(Head(up[cur]))}
  ELSE UNION { IF cur # NULL /\ phase[cur] \in Ended
                 THEN {Buffered([item |-> SHORT, qty |-> 0])} ELSE {},
               IF cur = NULL \/ (phase[cur] \in Ended /\ rst[cur])
                 THEN {Failed} ELSE {} }

\* Mutant: the amount is not tested.
EnoughMutant(f, q) == TRUE

\* stock - q is not below zero.
Enough(f, q) == stock[f] >= q

CanBeMet(o) == o.item \in Items /\ Enough(o.item, o.qty)

\* Mutant: error is not cleared for the next customer.
RefusesMutant(o) == error \/ (o.item \in Items /\ ~Enough(o.item, o.qty))
Refuses(o) == o.item \in Items /\ ~Enough(o.item, o.qty)

\* The order is received and met, or cannot be met.
ReceiveOrder ==
  /\ pc = "order"
  /\ \E o \in Received :
       /\ receiverBuffer' = o
       /\ error' = Refuses(o)
       /\ IF CanBeMet(o)
          THEN /\ stock' = [stock EXCEPT ![o.item] = @ - o.qty]
               /\ transactionID' = transactionID + 1
               /\ sales' = Append(sales, [item |-> o.item, qty |-> o.qty, to |-> cur])
          ELSE UNCHANGED <<stock, transactionID, sales>>
  /\ up' = [c \in Clients |-> IF c = cur THEN <<>> ELSE up[c]]
  /\ pc' = "reply"
  /\ UNCHANGED <<clientVars, down, rst, backlog, nOpen, cur>>

\* Also an order for nothing the shop has is answered with a number.
Answer == IF error THEN [kind |-> "refused", n |-> 0]
          ELSE [kind |-> "id", n |-> transactionID]

\* Mutant: an order for nothing the shop has is not answered.
ReplyMutant ==
  /\ pc = "reply"
  /\ IF cur = NULL THEN pc' = "exited" /\ UNCHANGED <<down, rst>>
     ELSE IF receiverBuffer.item = NOITEM THEN pc' = "accept" /\ UNCHANGED <<down, rst>>
     ELSE Send(Answer, "accept")
  /\ UNCHANGED <<clientVars, up, backlog, nOpen, cur, mainVars>>

\* The answer; without a connection send() fails and the server ends.
Reply ==
  /\ pc = "reply"
  /\ IF cur = NULL THEN pc' = "exited" /\ UNCHANGED <<down, rst>>
                   ELSE Send(Answer, "accept")
  /\ UNCHANGED <<clientVars, up, backlog, nOpen, cur, mainVars>>

-----------------------------------------------------------------------------
ClientProgram(c) == RecvFirst(c) \/ RecvSecond(c) \/ RecvReply(c)

Server == Accept \/ AcceptFails \/ SendFirst \/ SendSecond \/ ReceiveOrder \/ Reply

Next == \/ \E c \in Clients : Connect(c) \/ ClientProgram(c) \/ SendOrder(c) \/ Kill(c)
        \/ Server

Spec == Init /\ [][Next]_vars

\* Both programs run, and customers who see the amounts order in the end.
FairSpec == /\ Spec
            /\ WF_vars(Server)
            /\ \A c \in Clients : WF_vars(ClientProgram(c)) /\ WF_vars(SendOrder(c))

-----------------------------------------------------------------------------
MessageSet == [kind : {"amount", "id", "refused", "nothing"}, n : Nat]

ClientsOK ==
  /\ phase \in [Clients -> {"idle", "connected", "half", "shown", "waiting"} \cup Ended]
  /\ shown \in [Clients -> [Items -> Nat \cup {UNKNOWN, JOINED, GARBLED}]]
  /\ asked \in [Clients -> Orders \cup {NoOrder}]
  /\ told \in [Clients -> MessageSet]
  /\ up \in [Clients -> Seq(Orders)]
  /\ down \in [Clients -> Seq(MessageSet)]
  /\ rst \in [Clients -> BOOLEAN]

ServerOK ==
  /\ backlog \in Seq(Clients)
  /\ nOpen \in 0..MaxFd
  /\ pc \in {"accept", "first", "second", "order", "reply", "exited"}
  /\ cur \in Clients \cup {NULL}
  /\ pc \in {"first", "second"} => cur # NULL
  /\ receiverBuffer \in [item : Items \cup {NOITEM}, qty : Nat]
  /\ error \in BOOLEAN
  /\ stock \in [Items -> Nat]
  /\ transactionID \in Nat
  /\ sales \in Seq([item : Items, qty : Nat, to : Clients \cup {NULL}])

\* Every variable has its type; no amount falls below zero.
TypeOK == ClientsOK /\ ServerOK

\* Stock goes down only by sales, whatever was left in the buffer.
Stock == INSTANCE Shop WITH sales <- [k \in DOMAIN sales |->
                                        [item |-> sales[k].item, qty |-> sales[k].qty]]

ShopSpec == Stock!Spec

\* What was sold was asked for by the customer being served, or it is nothing
\* at all, or it is the last thing the server does.
SoldAsAsked ==
  \A k \in DOMAIN sales : LET s == sales[k] IN
    \/ s.qty = 0
    \/ s.to # NULL /\ asked[s.to] = [item |-> s.item, qty |-> s.qty]
    \/ k = Len(sales) /\ pc \in {"reply", "exited"}

\* The books are in order: no amount is below zero, and nobody is sold what an
\* earlier customer left in the buffer.
SalesInOrder == TypeOK /\ SoldAsAsked

Sold(c) == \E k \in DOMAIN sales : sales[k].to = c

\* Two customers who were sold something have two transaction numbers.
TransactionsDistinct ==
  \A c, d \in Clients :
    c # d /\ Sold(c) /\ Sold(d) /\ told[c].kind = "id" /\ told[d].kind = "id" =>
      told[c].n # told[d].n

\* "Quantity not available" is told only to customers who were sold nothing,
\* and a number, to one who named an item, only if all of it was sold.
AnsweredRight ==
  \A c \in Clients :
    /\ told[c].kind = "refused" => ~Sold(c)
    /\ told[c].kind = "id" /\ asked[c].item \in Items =>
         \E k \in DOMAIN sales :
           sales[k] = [item |-> asked[c].item, qty |-> asked[c].qty, to |-> c]

\* Amounts that were read one by one are still right when the customer orders.
ShownStock ==
  \A c \in Clients : phase[c] = "shown" /\ pc # "exited" =>
    \A f \in Items : shown[c][f] \in {stock[f], GARBLED}

\* All a customer is told is right: the amounts, the refusal, the number.
ToldRight == ShownStock /\ AnsweredRight /\ TransactionsDistinct

\* Everybody who connects comes to an end, unless somebody waits for a second
\* amount that it has read as a part of the first.
EveryoneServed ==
  \A c \in Clients : phase[c] = "connected" ~>
    \/ phase[c] \in Ended
    \/ \E d \in Slow : phase[d] = "half" /\ shown[d][First] \in {JOINED, GARBLED}
=============================================================================

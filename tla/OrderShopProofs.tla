--------------------------- MODULE OrderShopProofs ---------------------------
(***************************************************************************)
(* What TLAPS proves of OrderShop, for any clients, items, orders and      *)
(* quantities.                                                             *)
(***************************************************************************)
EXTENDS OrderShop, SequenceTheorems, TLAPS

USE DEF clientVars, connVars, mainVars

-----------------------------------------------------------------------------
(* Types.                                                                  *)

\* There are two items, and they are two.
LEMMA SecondItem == Second \in Items /\ Second # First /\ Items = {First, Second}
  BY OrderAssumption DEF Second

\* The first of a sequence, and the rest.
LEMMA HeadTail ==
  ASSUME NEW S, NEW s \in Seq(S), s # <<>>
  PROVE  /\ Head(s) \in S /\ s[1] \in S /\ Tail(s) \in Seq(S)
         /\ Len(s) \in Nat /\ Len(s) >= 1
  OBVIOUS

\* What is left of a stream.
LEMMA RestOfSeq ==
  ASSUME NEW S, NEW s \in Seq(S), NEW k \in 1..Len(s)
  PROVE  SubSeq(s, k + 1, Len(s)) \in Seq(S)
  BY SubSeqProperties

\* The server starts with values of the right types.
LEMMA InitType == Init => TypeOK
  <1> SUFFICES ASSUME Init PROVE TypeOK
    OBVIOUS
  <1> USE DEF Init
  <1>1. ClientsOK
    BY DEF ClientsOK, Ended, MessageSet
  <1>2. receiverBuffer \in [item : Items \cup {NOITEM}, qty : Nat]
    BY OrderAssumption
  <1>3. nOpen \in 0..MaxFd /\ stock \in [Items -> Nat]
    BY OrderAssumption
  <1>4. /\ backlog \in Seq(Clients) /\ pc = "accept" /\ cur = NULL
        /\ sales \in Seq([item : Items, qty : Nat, to : Clients \cup {NULL}])
        /\ transactionID \in Nat
    OBVIOUS
  <1>5. error \in BOOLEAN
    OBVIOUS
  <1>6. ServerOK
    BY <1>2, <1>3, <1>4, <1>5 DEF ServerOK
  <1> QED BY <1>1, <1>6 DEF TypeOK

LEMMA ConnectType == ASSUME TypeOK, NEW c \in Clients, Connect(c) PROVE TypeOK'
  <1> USE DEF TypeOK, Connect
  <1>1. ClientsOK'
    BY DEF ClientsOK, Ended
  <1>2. ServerOK'
    BY DEF ServerOK
  <1> QED BY <1>1, <1>2

\* Writing down an amount keeps what is shown what can be shown.
LEMMA ShowsType ==
  ASSUME ClientsOK, NEW c \in Clients, NEW f \in Items,
         NEW n \in Nat \cup {JOINED, GARBLED}, Shows(c, f, n)
  PROVE  shown' \in [Clients -> [Items -> Nat \cup {UNKNOWN, JOINED, GARBLED}]]
  BY DEF ClientsOK, Shows

LEMMA RecvFirstType == ASSUME TypeOK, NEW c \in Clients, RecvFirst(c) PROVE TypeOK'
  <1> USE DEF TypeOK, RecvFirst
  <1>1. ClientsOK'
    <2>1. CASE UNCHANGED <<shown, down>>
      BY <2>1 DEF ClientsOK, Ended
    <2>2. ASSUME NEW k \in Together(c),
                 \/ Shows(c, First, IF k > 1 THEN JOINED ELSE down[c][1].n)
                 \/ Shows(c, First, GARBLED),
                 down' = [down EXCEPT ![c] = SubSeq(@, k + 1, Len(@))]
          PROVE  ClientsOK'
      <3>1. down[c] \in Seq(MessageSet)
        BY DEF ClientsOK
      <3>2. k \in 1..Len(down[c])
        BY <3>1 DEF Together
      <3>3. SubSeq(down[c], k + 1, Len(down[c])) \in Seq(MessageSet)
        BY <3>1, <3>2, RestOfSeq
      <3>4. down' \in [Clients -> Seq(MessageSet)]
        BY <2>2, <3>3 DEF ClientsOK
      <3>5. down[c][1] \in MessageSet
        BY <3>1, <3>2
      <3>6. down[c][1].n \in Nat
        BY <3>5 DEF MessageSet
      <3>7. shown' \in [Clients -> [Items -> Nat \cup {UNKNOWN, JOINED, GARBLED}]]
        BY <2>2, <3>6, ShowsType, OrderAssumption
      <3> QED BY <3>4, <3>7 DEF ClientsOK, Ended
    <2> QED BY <2>1, <2>2
  <1>2. ServerOK'
    BY DEF ServerOK
  <1> QED BY <1>1, <1>2

LEMMA RecvSecondType == ASSUME TypeOK, NEW c \in Clients, RecvSecond(c) PROVE TypeOK'
  <1> USE DEF TypeOK, RecvSecond
  <1>1. ClientsOK'
    <2>1. CASE UNCHANGED <<shown, down>>
      BY <2>1 DEF ClientsOK, Ended
    <2>2. CASE /\ down[c] # <<>>
               /\ Shows(c, Second, Head(down[c]).n) \/ Shows(c, Second, GARBLED)
               /\ down' = [down EXCEPT ![c] = Tail(@)]
      <3>1. down[c] \in Seq(MessageSet)
        BY DEF ClientsOK
      <3>2. Head(down[c]) \in MessageSet /\ Tail(down[c]) \in Seq(MessageSet)
        BY <2>2, <3>1, HeadTail
      <3>3. shown' \in [Clients -> [Items -> Nat \cup {UNKNOWN, JOINED, GARBLED}]]
        BY <2>2, <3>2, ShowsType, SecondItem DEF MessageSet
      <3> QED BY <2>2, <3>2, <3>3 DEF ClientsOK, Ended
    <2> QED BY <2>1, <2>2
  <1>2. ServerOK'
    BY DEF ServerOK
  <1> QED BY <1>1, <1>2

\* A client that ends has ended, with or without a reset.
LEMMA EndType ==
  ASSUME ClientsOK, NEW c \in Clients, NEW how \in Ended, End(c, how)
  PROVE  /\ phase' \in [Clients -> {"idle", "connected", "half", "shown", "waiting"} \cup Ended]
         /\ rst' \in [Clients -> BOOLEAN]
  BY DEF ClientsOK, End

LEMMA SendOrderType == ASSUME TypeOK, NEW c \in Clients, SendOrder(c) PROVE TypeOK'
  <1> USE DEF TypeOK, SendOrder
  <1>1. ClientsOK'
    <2>1. phase' \in [Clients -> {"idle", "connected", "half", "shown", "waiting"} \cup Ended]
          /\ rst' \in [Clients -> BOOLEAN]
      <3>1. CASE phase' = [phase EXCEPT ![c] = "waiting"] /\ UNCHANGED rst
        BY <3>1 DEF ClientsOK
      <3>2. CASE End(c, "left")
        BY <3>2, EndType DEF Ended
      <3> QED BY <3>1, <3>2
    <2>2. asked' \in [Clients -> Orders \cup {NoOrder}] /\ up' \in [Clients -> Seq(Orders)]
      <3>1. PICK o \in Orders : /\ asked' = [asked EXCEPT ![c] = o]
                                /\ up' = [up EXCEPT ![c] = IF pc = "exited" THEN @ ELSE <<o>>]
        OBVIOUS
      <3>2. <<o>> \in Seq(Orders)
        OBVIOUS
      <3> QED BY <3>1, <3>2 DEF ClientsOK
    <2> QED BY <2>1, <2>2 DEF ClientsOK
  <1>2. ServerOK'
    BY DEF ServerOK
  <1> QED BY <1>1, <1>2

LEMMA RecvReplyType == ASSUME TypeOK, NEW c \in Clients, RecvReply(c) PROVE TypeOK'
  <1> USE DEF TypeOK, RecvReply
  <1>1. ClientsOK'
    <2>1. phase' \in [Clients -> {"idle", "connected", "half", "shown", "waiting"} \cup Ended]
          /\ rst' \in [Clients -> BOOLEAN]
      BY EndType DEF Ended
    <2>2. told' \in [Clients -> MessageSet] /\ down' \in [Clients -> Seq(MessageSet)]
      <3>1. CASE /\ down[c] # <<>>
                 /\ told' = [told EXCEPT ![c] = Head(down[c])]
                 /\ down' = [down EXCEPT ![c] = Tail(@)]
        <4>1. Head(down[c]) \in MessageSet /\ Tail(down[c]) \in Seq(MessageSet)
          BY <3>1, HeadTail DEF ClientsOK
        <4> QED BY <3>1, <4>1 DEF ClientsOK
      <3>2. CASE UNCHANGED <<told, down>>
        BY <3>2 DEF ClientsOK
      <3> QED BY <3>1, <3>2
    <2> QED BY <2>1, <2>2 DEF ClientsOK
  <1>2. ServerOK'
    BY DEF ServerOK
  <1> QED BY <1>1, <1>2

LEMMA KillType == ASSUME TypeOK, NEW c \in Clients, Kill(c) PROVE TypeOK'
  <1> USE DEF TypeOK, Kill
  <1>1. ClientsOK'
    BY EndType DEF ClientsOK, Ended
  <1>2. ServerOK'
    BY DEF ServerOK
  <1> QED BY <1>1, <1>2

LEMMA AcceptType == ASSUME TypeOK, Accept PROVE TypeOK'
  <1> USE DEF TypeOK, Accept
  <1>1. ClientsOK'
    BY DEF ClientsOK
  <1>2. ServerOK'
    <2>1. Head(backlog) \in Clients /\ Tail(backlog) \in Seq(Clients)
      BY HeadTail DEF ServerOK
    <2>2. nOpen + 1 \in 0..MaxFd
      BY OrderAssumption DEF ServerOK
    <2> QED BY <2>1, <2>2, OrderAssumption DEF ServerOK
  <1> QED BY <1>1, <1>2

LEMMA AcceptFailsType == ASSUME TypeOK, AcceptFails PROVE TypeOK'
  <1> USE DEF TypeOK, AcceptFails
  <1>1. ClientsOK'
    BY DEF ClientsOK
  <1>2. ServerOK'
    BY DEF ServerOK
  <1> QED BY <1>1, <1>2

\* send() queues a message or resets the connection of a client that has gone.
LEMMA SendType ==
  ASSUME ClientsOK, cur \in Clients, NEW m \in MessageSet,
         NEW next \in {"second", "order", "accept"}, Send(m, next)
  PROVE  /\ down' \in [Clients -> Seq(MessageSet)]
         /\ rst' \in [Clients -> BOOLEAN]
         /\ pc' \in {next, "exited"}
  <1>1. CASE phase[cur] \notin Ended
    <2>1. down[cur] \in Seq(MessageSet)
      BY DEF ClientsOK
    <2>2. Append(down[cur], m) \in Seq(MessageSet)
      BY <2>1
    <2> QED BY <1>1, <2>2 DEF ClientsOK, Send
  <1>2. CASE phase[cur] \in Ended
    BY <1>2 DEF ClientsOK, Send
  <1> QED BY <1>1, <1>2

\* The messages of the server are messages.
LEMMA AmountType == ASSUME ServerOK, NEW f \in Items PROVE Amount(f) \in MessageSet
  BY DEF ServerOK, Amount, MessageSet

LEMMA AnswerType == ASSUME ServerOK PROVE Answer \in MessageSet
  BY DEF ServerOK, Answer, MessageSet

LEMMA SendFirstType == ASSUME TypeOK, SendFirst PROVE TypeOK'
  <1> USE DEF TypeOK, SendFirst
  <1>1. cur \in Clients /\ Amount(First) \in MessageSet
    BY AmountType, OrderAssumption DEF ServerOK
  <1>2. /\ down' \in [Clients -> Seq(MessageSet)] /\ rst' \in [Clients -> BOOLEAN]
        /\ pc' \in {"second", "exited"}
    BY <1>1, SendType
  <1>3. ClientsOK'
    BY <1>2 DEF ClientsOK
  <1>4. ServerOK'
    BY <1>1, <1>2, OrderAssumption DEF ServerOK
  <1> QED BY <1>3, <1>4

LEMMA SendSecondType == ASSUME TypeOK, SendSecond PROVE TypeOK'
  <1> USE DEF TypeOK, SendSecond
  <1>1. cur \in Clients /\ Amount(Second) \in MessageSet
    BY AmountType, SecondItem DEF ServerOK
  <1>2. /\ down' \in [Clients -> Seq(MessageSet)] /\ rst' \in [Clients -> BOOLEAN]
        /\ pc' \in {"order", "exited"}
    BY <1>1, SendType
  <1>3. ClientsOK'
    BY <1>2 DEF ClientsOK
  <1>4. ServerOK'
    BY <1>1, <1>2 DEF ServerOK
  <1> QED BY <1>3, <1>4

\* What lies in the buffer after recv().
LEMMA ReceivedType ==
  ASSUME TypeOK, NEW o \in Received PROVE o \in [item : Items \cup {NOITEM}, qty : Nat]
  <1> DEFINE B == [item : Items \cup {NOITEM}, qty : Nat]
  <1>1. receiverBuffer \in B
    BY DEF TypeOK, ServerOK
  <1>2. ASSUME NEW x \in Order PROVE Buffered(x) \in B
    BY <1>1 DEF Buffered, Order
  <1>3. [item |-> SHORT, qty |-> 0] \in Order
    BY DEF Order
  <1>4. CASE cur # NULL /\ up[cur] # <<>>
    <2>1. up[cur] \in Seq(Orders)
      BY <1>4 DEF TypeOK, ClientsOK, ServerOK
    <2>2. Head(up[cur]) \in Order
      BY <1>4, <2>1, HeadTail, OrderAssumption
    <2> QED BY <1>2, <1>4, <2>2 DEF Received
  <1>5. CASE ~(cur # NULL /\ up[cur] # <<>>)
    <2>1. o \in {Buffered([item |-> SHORT, qty |-> 0]), Failed}
      BY <1>5 DEF Received
    <2> QED BY <1>1, <1>2, <1>3, <2>1 DEF Failed
  <1> QED BY <1>4, <1>5

LEMMA ReceiveOrderType == ASSUME TypeOK, ReceiveOrder PROVE TypeOK'
  <1> USE DEF TypeOK, ReceiveOrder
  <1>1. ClientsOK'
    <2>1. \A c \in Clients : up[c] \in Seq(Orders)
      BY DEF ClientsOK
    <2>2. <<>> \in Seq(Orders)
      OBVIOUS
    <2>3. up' \in [Clients -> Seq(Orders)]
      BY <2>1, <2>2
    <2> QED BY <2>3 DEF ClientsOK
  <1>2. ServerOK'
    <2>1. PICK o \in Received :
            /\ receiverBuffer' = o
            /\ error' = Refuses(o)
            /\ IF CanBeMet(o)
               THEN /\ stock' = [stock EXCEPT ![o.item] = @ - o.qty]
                    /\ transactionID' = transactionID + 1
                    /\ sales' = Append(sales, [item |-> o.item, qty |-> o.qty, to |-> cur])
               ELSE UNCHANGED <<stock, transactionID, sales>>
      OBVIOUS
    <2>2. o \in [item : Items \cup {NOITEM}, qty : Nat]
      BY ReceivedType
    <2>3. Refuses(o) \in BOOLEAN
      BY DEF Refuses
    <2>4. /\ stock' \in [Items -> Nat] /\ transactionID' \in Nat
          /\ sales' \in Seq([item : Items, qty : Nat, to : Clients \cup {NULL}])
      <3>1. CASE CanBeMet(o)
        <4>1. stock[o.item] - o.qty \in Nat /\ o.item \in Items
          BY <2>2, <3>1 DEF CanBeMet, Enough, ServerOK
        <4>2. [item |-> o.item, qty |-> o.qty, to |-> cur]
                \in [item : Items, qty : Nat, to : Clients \cup {NULL}]
          BY <2>2, <3>1 DEF CanBeMet, ServerOK
        <4>3. Append(sales, [item |-> o.item, qty |-> o.qty, to |-> cur])
                \in Seq([item : Items, qty : Nat, to : Clients \cup {NULL}])
          BY <4>2 DEF ServerOK
        <4>4. [stock EXCEPT ![o.item] = @ - o.qty] \in [Items -> Nat]
          BY <4>1 DEF ServerOK
        <4>5. transactionID + 1 \in Nat
          BY DEF ServerOK
        <4> QED BY <2>1, <3>1, <4>3, <4>4, <4>5
      <3>2. CASE ~CanBeMet(o)
        BY <2>1, <3>2 DEF ServerOK
      <3> QED BY <3>1, <3>2
    <2> QED BY <2>1, <2>2, <2>3, <2>4 DEF ServerOK
  <1> QED BY <1>1, <1>2

LEMMA ReplyType == ASSUME TypeOK, Reply PROVE TypeOK'
  <1> USE DEF TypeOK, Reply
  <1>1. /\ down' \in [Clients -> Seq(MessageSet)] /\ rst' \in [Clients -> BOOLEAN]
        /\ pc' \in {"accept", "exited"}
    <2>1. CASE cur = NULL
      BY <2>1 DEF ClientsOK
    <2>2. CASE cur # NULL
      BY <2>2, AnswerType, SendType DEF ServerOK
    <2> QED BY <2>1, <2>2
  <1>2. ClientsOK'
    BY <1>1 DEF ClientsOK
  <1>3. ServerOK'
    BY <1>1 DEF ServerOK
  <1> QED BY <1>2, <1>3

\* Every step keeps the types.
LEMMA TypeStep == TypeOK /\ [Next]_vars => TypeOK'
  <1> SUFFICES ASSUME TypeOK, [Next]_vars PROVE TypeOK'
    OBVIOUS
  <1>1. ASSUME NEW c \in Clients, Connect(c) \/ ClientProgram(c) \/ SendOrder(c) \/ Kill(c)
        PROVE  TypeOK'
    BY <1>1, ConnectType, RecvFirstType, RecvSecondType, RecvReplyType, SendOrderType,
       KillType DEF ClientProgram
  <1>2. CASE Server
    BY <1>2, AcceptType, AcceptFailsType, SendFirstType, SendSecondType, ReceiveOrderType,
       ReplyType DEF Server
  <1>3. CASE UNCHANGED vars
    BY <1>3 DEF vars, TypeOK, ClientsOK, ServerOK
  <1> QED BY <1>1, <1>2, <1>3 DEF Next

\* Every variable keeps its type: no amount in stock falls below zero, and the
\* answers and the buffer never hold anything but an item and a number.
THEOREM OrderTypeCorrect == Spec => []TypeOK
  BY InitType, TypeStep, PTL DEF Spec

-----------------------------------------------------------------------------
(* Stock.                                                                  *)

Sale == [item : Items, qty : Nat, to : Clients \cup {NULL}]

\* A sequence with one more element: what is where.
LEMMA Appended ==
  ASSUME NEW S, NEW s \in Seq(S), NEW e \in S
  PROVE  /\ Append(s, e) \in Seq(S) /\ Len(Append(s, e)) = Len(s) + 1 /\ Len(s) \in Nat
         /\ DOMAIN s = 1..Len(s) /\ DOMAIN Append(s, e) = 1..(Len(s) + 1)
         /\ \A k \in 1..Len(s) : Append(s, e)[k] = s[k]
         /\ Append(s, e)[Len(s) + 1] = e
  OBVIOUS

\* What the abstract shop has on record of the sales.
Record(ss) == [k \in DOMAIN ss |-> [item |-> ss[k].item, qty |-> ss[k].qty]]

\* The record of one more sale is the record of the sales with one more.
LEMMA RecordAppend ==
  ASSUME NEW ss \in Seq(Sale), NEW e \in Sale
  PROVE  Record(Append(ss, e)) = Append(Record(ss), [item |-> e.item, qty |-> e.qty])
  <1> DEFINE T == [item : Items, qty : Nat]
             l == Record(Append(ss, e))
             r == Append(Record(ss), [item |-> e.item, qty |-> e.qty])
  <1>1. Record(ss) \in Seq(T) /\ Len(Record(ss)) = Len(ss)
    <2>1. ASSUME NEW k \in 1..Len(ss) PROVE [item |-> ss[k].item, qty |-> ss[k].qty] \in T
      <3>1. ss[k] \in Sale
        OBVIOUS
      <3> QED BY <3>1 DEF Sale
    <2>2. DOMAIN ss = 1..Len(ss) /\ Len(ss) \in Nat
      OBVIOUS
    <2>3. Record(ss) = [k \in 1..Len(ss) |-> [item |-> ss[k].item, qty |-> ss[k].qty]]
      BY <2>2 DEF Record
    <2> QED BY <2>1, <2>2, <2>3
  <1>2. [item |-> e.item, qty |-> e.qty] \in T
    BY DEF Sale
  <1>3. r \in Seq(T) /\ DOMAIN r = 1..(Len(ss) + 1)
    BY <1>1, <1>2
  <1>4. DOMAIN l = 1..(Len(ss) + 1)
    BY Appended DEF Record
  <1>5. ASSUME NEW k \in 1..(Len(ss) + 1) PROVE l[k] = r[k]
    <2>1. CASE k = Len(ss) + 1
      BY <1>1, <1>2, <2>1 DEF Record
    <2>2. CASE k # Len(ss) + 1
      <3>1. k \in 1..Len(ss)
        BY <2>2
      <3>2. Append(ss, e)[k] = ss[k] /\ r[k] = Record(ss)[k]
        BY <1>1, <1>2, <3>1
      <3> QED BY <3>1, <3>2 DEF Record
    <2> QED BY <2>1, <2>2
  <1>6. l = [k \in 1..(Len(ss) + 1) |-> l[k]] /\ r = [k \in 1..(Len(ss) + 1) |-> r[k]]
    <2>1. l = [k \in DOMAIN l |-> l[k]]
      BY DEF Record
    <2>2. r = [k \in DOMAIN r |-> r[k]]
      BY <1>3
    <2> QED BY <1>3, <1>4, <2>1, <2>2
  <1> HIDE DEF l, r
  <1>7. l = r
    BY <1>5, <1>6
  <1> QED BY <1>7 DEF l, r

\* Only an order that is received changes the books.
LEMMA OnlyReceiveOrder ==
  ASSUME [Next]_vars PROVE ReceiveOrder \/ UNCHANGED mainVars
  <1>1. ASSUME NEW c \in Clients, Connect(c) \/ ClientProgram(c) \/ SendOrder(c) \/ Kill(c)
        PROVE  UNCHANGED mainVars
    BY <1>1 DEF Connect, ClientProgram, RecvFirst, RecvSecond, RecvReply, SendOrder, Kill
  <1>2. CASE Server
    BY <1>2 DEF Server, Accept, AcceptFails, SendFirst, SendSecond, Reply
  <1>3. CASE UNCHANGED vars
    BY <1>3 DEF vars
  <1> QED BY <1>1, <1>2, <1>3 DEF Next

\* What an order that is received does to the books: it is sold and answered
\* with its number, or nothing is sold.
LEMMA OrderSells ==
  ASSUME TypeOK, NEW o \in Received,
         IF CanBeMet(o)
         THEN /\ stock' = [stock EXCEPT ![o.item] = @ - o.qty]
              /\ transactionID' = transactionID + 1
              /\ sales' = Append(sales, [item |-> o.item, qty |-> o.qty, to |-> cur])
         ELSE UNCHANGED <<stock, transactionID, sales>>
  PROVE  \/ /\ ~CanBeMet(o) /\ UNCHANGED <<stock, transactionID, sales>>
         \/ /\ CanBeMet(o) /\ o.item \in Items /\ o.qty \in Nat /\ o.qty <= stock[o.item]
            /\ stock' = [stock EXCEPT ![o.item] = @ - o.qty]
            /\ transactionID' = transactionID + 1
            /\ sales' = Append(sales, [item |-> o.item, qty |-> o.qty, to |-> cur])
            /\ [item |-> o.item, qty |-> o.qty, to |-> cur] \in Sale
  <1>1. CASE ~CanBeMet(o)
    BY <1>1
  <1>2. CASE CanBeMet(o)
    <2>1. o \in [item : Items \cup {NOITEM}, qty : Nat]
      BY ReceivedType
    <2>2. o.item \in Items /\ o.qty \in Nat /\ stock[o.item] \in Nat
      BY <1>2, <2>1 DEF CanBeMet, TypeOK, ServerOK
    <2>3. o.qty <= stock[o.item]
      BY <1>2, <2>2 DEF CanBeMet, Enough
    <2>4. [item |-> o.item, qty |-> o.qty, to |-> cur] \in Sale
      BY <2>2 DEF Sale, TypeOK, ServerOK
    <2> QED BY <1>2, <2>2, <2>3, <2>4
  <1> QED BY <1>1, <1>2

\* A step of the server is a sale of the abstract shop, or changes nothing.
LEMMA ShopStep ==
  ASSUME TypeOK, [Next]_vars PROVE [Stock!Next]_(Stock!shopVars)
  <1>1. CASE UNCHANGED <<stock, sales>>
    BY <1>1 DEF Stock!shopVars
  <1>2. ASSUME NEW f \in Items, NEW q \in Nat, q <= stock[f],
               stock' = [stock EXCEPT ![f] = @ - q],
               [item |-> f, qty |-> q, to |-> cur] \in Sale,
               sales' = Append(sales, [item |-> f, qty |-> q, to |-> cur])
        PROVE  Stock!Sell(f)
    <2>1. stock[f] \in Nat /\ stock'[f] = stock[f] - q
      BY <1>2 DEF TypeOK, ServerOK
    <2>2. sales \in Seq(Sale)
      BY DEF TypeOK, ServerOK, Sale
    <2>3. q = stock[f] - stock'[f]
      BY <1>2, <2>1
    <2>4. Record(sales') = Append(Record(sales), [item |-> f, qty |-> q])
      BY <1>2, <2>2, RecordAppend
    <2>5. Record(sales') = Append(Record(sales), [item |-> f, qty |-> stock[f] - stock'[f]])
      BY <2>3, <2>4
    <2>6. stock' = [stock EXCEPT ![f] = @ - (stock[f] - stock'[f])]
      BY <1>2, <2>3
    <2>7. stock[f] - stock'[f] >= 0 /\ stock[f] - stock'[f] <= stock[f]
      BY <1>2, <2>1
    <2> QED BY <2>5, <2>6, <2>7 DEF Stock!Sell, Record
  <1>3. CASE ReceiveOrder
    <2>1. PICK o \in Received :
            IF CanBeMet(o)
            THEN /\ stock' = [stock EXCEPT ![o.item] = @ - o.qty]
                 /\ transactionID' = transactionID + 1
                 /\ sales' = Append(sales, [item |-> o.item, qty |-> o.qty, to |-> cur])
            ELSE UNCHANGED <<stock, transactionID, sales>>
      BY <1>3 DEF ReceiveOrder
    <2> QED BY <1>1, <1>2, <2>1, OrderSells DEF Stock!Next
  <1> QED BY <1>1, <1>3, OnlyReceiveOrder DEF Stock!Next

\* The stock of the server is that of the abstract shop: it goes down by
\* sales on record only and never below zero, though the order that is read
\* may be what an earlier customer left in the buffer.
THEOREM OrderImplementsShop == Spec => ShopSpec
  <1>1. Init => Stock!Init
    BY OrderAssumption DEF Init, Stock!Init
  <1>2. TypeOK /\ [Next]_vars => [Stock!Next]_(Stock!shopVars)
    BY ShopStep
  <1> QED BY <1>1, <1>2, OrderTypeCorrect, PTL DEF Spec, ShopSpec, Stock!Spec

-----------------------------------------------------------------------------
(* The inductive invariant.                                                *)

Live(c) == phase[c] \notin Ended

Queued(c) == \E k \in DOMAIN backlog : backlog[k] = c

\* Not accepted yet.
Fresh(c) == phase[c] = "idle" \/ Queued(c)

\* Accepted, and the server is through with it.
Served(c) == ~Fresh(c) /\ (cur # c \/ pc \in {"accept", "exited"})

\* An order is sent once, by a client that has seen both amounts.
OrderedOnce ==
  \A c \in Clients : up[c] # <<>> =>
    up[c] = <<asked[c]>> /\ phase[c] \in {"waiting"} \cup Ended

\* No way back to accept(): the client is gone and has reset its connection,
\* or there is no connection.
Lost == pc = "exited" \/ (pc = "reply" /\ (cur = NULL \/ (phase[cur] \in Ended /\ rst[cur])))

\* What was sold was asked for, is nothing, or was sold by a server that is lost.
SoldToAsker ==
  \A k \in DOMAIN sales : LET s == sales[k] IN
    \/ s.qty = 0
    \/ /\ s.to # NULL /\ asked[s.to] = [item |-> s.item, qty |-> s.qty]
       /\ phase[s.to] \in {"waiting"} \cup Ended
    \/ k = Len(sales) /\ Lost

\* Nobody is in the queue twice, or in the queue and served.
QueueOnce ==
  /\ \A j, k \in DOMAIN backlog : j # k => backlog[j] # backlog[k]
  /\ \A c \in Clients : phase[c] = "idle" => ~Queued(c)
  /\ \A c \in Clients : Fresh(c) => cur # c

\* Before it is accepted a client has received nothing and was sold nothing.
Untouched(c) == Fresh(c) =>
  /\ ~Sold(c) /\ down[c] = <<>>
  /\ pc # "exited" => phase[c] \in {"idle", "connected"} \cup Ended

\* A transaction number counts the sales; the one being served has no other.
Numbered ==
  /\ transactionID = Len(sales)
  /\ \A c \in Clients : cur = c /\ pc \in {"first", "second", "order"} => ~Sold(c)

\* An answer to c is right, and its number is that of the sale to c.
Right(c, m) ==
  /\ m.kind = "refused" => ~Sold(c)
  /\ m.kind = "id" /\ asked[c].item \in Items =>
       \E k \in DOMAIN sales :
         sales[k] = [item |-> asked[c].item, qty |-> asked[c].qty, to |-> c]
  /\ m.kind = "id" /\ Sold(c) => m.n \in DOMAIN sales /\ sales[m.n].to = c

ShownRight(c, f) == shown[c][f] \in {stock[f], GARBLED}

\* Where the client that is served is, and what is on its way to it, after
\* each of the server's steps.
AtFirst(c) == phase[c] = "connected" /\ down[c] = <<>>

AtSecond(c) ==
  \/ phase[c] = "connected" /\ down[c] = <<Amount(First)>>
  \/ phase[c] = "half" /\ down[c] = <<>> /\ ShownRight(c, First)

AtOrder(c) ==
  \/ phase[c] = "connected" /\ down[c] = <<Amount(First), Amount(Second)>>
  \/ phase[c] = "half" /\ down[c] = <<Amount(Second)>> /\ ShownRight(c, First)
  \/ phase[c] = "half" /\ down[c] = <<>>
  \/ phase[c] = "shown" /\ down[c] = <<>> /\ ShownRight(c, First) /\ ShownRight(c, Second)
  \/ phase[c] = "waiting" /\ down[c] = <<>> /\ up[c] # <<>>

AtReply(c) == phase[c] = "waiting" /\ down[c] = <<>> /\ Right(c, Answer)

AfterReply(c) == phase[c] = "waiting" /\ Len(down[c]) = 1 /\ Right(c, down[c][1])

InStep(c) == Live(c) =>
  /\ cur = c => /\ pc = "first" => AtFirst(c)
                /\ pc = "second" => AtSecond(c)
                /\ pc = "order" => AtOrder(c)
                /\ pc = "reply" => AtReply(c)
  /\ Served(c) => AfterReply(c)

\* Who has been told something has ended, the server is through with it, and
\* it was told the truth.
ToldTrue(c) == told[c].kind # "nothing" =>
  phase[c] \in Ended /\ Served(c) /\ Right(c, told[c])

InOrder(c) == Untouched(c) /\ InStep(c) /\ ToldTrue(c)

\* A lost server sells no more; every sale before was asked for.
BooksInv == OrderedOnce /\ SoldToAsker

\* Every client is in order, whatever the server is doing.
ServiceInv == QueueOnce /\ Numbered /\ \A c \in Clients : InOrder(c)
-----------------------------------------------------------------------------
(* What was sold was asked for.                                            *)

ClientStep(c) == Connect(c) \/ ClientProgram(c) \/ SendOrder(c) \/ Kill(c)

\* A step of a client: who has ended takes none, who waits can only end, and
\* an order is asked for once, between the amounts and the answer.
LEMMA ClientMoves ==
  ASSUME TypeOK, NEW c \in Clients, ClientStep(c)
  PROVE  /\ phase[c] \notin Ended /\ phase' = [phase EXCEPT ![c] = phase'[c]]
         /\ phase[c] = "waiting" => phase'[c] \in Ended
         /\ \A d \in Clients : rst[d] => rst'[d]
         /\ UNCHANGED <<cur, pc, mainVars>>
         /\ \/ UNCHANGED <<asked, up>>
            \/ /\ phase[c] = "shown" /\ phase'[c] \in {"waiting", "left"}
               /\ \E o \in Orders :
                    /\ asked' = [asked EXCEPT ![c] = o]
                    /\ up' = [up EXCEPT ![c] = IF pc = "exited" THEN @ ELSE <<o>>]
  <1> USE DEF TypeOK, ClientsOK
  <1>1. CASE Connect(c)
    BY <1>1 DEF Connect, Ended
  <1>2. CASE RecvFirst(c)
    BY <1>2 DEF RecvFirst, Ended
  <1>3. CASE RecvSecond(c)
    BY <1>3 DEF RecvSecond, Ended
  <1>4. CASE RecvReply(c)
    BY <1>4 DEF RecvReply, End, Ended
  <1>5. CASE SendOrder(c)
    <2>1. phase' = [phase EXCEPT ![c] = "waiting"] \/ phase' = [phase EXCEPT ![c] = "left"]
      BY <1>5 DEF SendOrder, End
    <2>2. \A d \in Clients : rst[d] => rst'[d]
      BY <1>5 DEF SendOrder, End
    <2> QED BY <1>5, <2>1, <2>2 DEF SendOrder, Ended
  <1>6. CASE Kill(c)
    BY <1>6 DEF Kill, End, Ended
  <1> QED BY <1>1, <1>2, <1>3, <1>4, <1>5, <1>6 DEF ClientStep, ClientProgram

\* Steps of clients do not save a lost server.
LEMMA LostStays == ASSUME TypeOK, NEW c \in Clients, ClientStep(c) PROVE Lost => Lost'
  <1>1. UNCHANGED <<cur, pc>>
    BY ClientMoves
  <1>2. ASSUME cur # NULL, phase[cur] \in Ended, rst[cur]
        PROVE  phase'[cur] \in Ended /\ rst'[cur]
    <2>1. cur \in Clients /\ cur # c
      BY <1>2, ClientMoves DEF TypeOK, ServerOK
    <2> QED BY <1>2, <2>1, ClientMoves DEF TypeOK, ClientsOK
  <1> QED BY <1>1, <1>2 DEF Lost

LEMMA ClientBooks ==
  ASSUME TypeOK, BooksInv, NEW c \in Clients, ClientStep(c) PROVE BooksInv'
  <1>1. OrderedOnce'
    <2>1. CASE UNCHANGED <<asked, up>>
      BY <2>1, ClientMoves DEF BooksInv, OrderedOnce, TypeOK, ClientsOK
    <2>2. CASE ~UNCHANGED <<asked, up>>
      <3>1. /\ phase[c] = "shown" /\ phase'[c] \in {"waiting", "left"}
            /\ phase' = [phase EXCEPT ![c] = phase'[c]]
        BY <2>2, ClientMoves
      <3>2. PICK o \in Orders :
              /\ asked' = [asked EXCEPT ![c] = o]
              /\ up' = [up EXCEPT ![c] = IF pc = "exited" THEN @ ELSE <<o>>]
        BY <2>2, ClientMoves
      <3>3. up[c] = <<>>
        BY <3>1 DEF BooksInv, OrderedOnce, Ended
      <3> QED BY <3>1, <3>2, <3>3 DEF BooksInv, OrderedOnce, TypeOK, ClientsOK, Ended
    <2> QED BY <2>1, <2>2
  <1>2. SoldToAsker'
    <2> SUFFICES ASSUME NEW k \in DOMAIN sales
                 PROVE  \/ sales[k].qty = 0
                        \/ /\ sales[k].to # NULL
                           /\ asked'[sales[k].to] = [item |-> sales[k].item, qty |-> sales[k].qty]
                           /\ phase'[sales[k].to] \in {"waiting"} \cup Ended
                        \/ k = Len(sales) /\ Lost'
      BY ClientMoves DEF SoldToAsker
    <2>1. CASE k = Len(sales) /\ Lost
      BY <2>1, LostStays
    <2>2. CASE /\ sales[k].to # NULL
               /\ asked[sales[k].to] = [item |-> sales[k].item, qty |-> sales[k].qty]
               /\ phase[sales[k].to] \in {"waiting"} \cup Ended
      <3> DEFINE t == sales[k].to
      <3>1. t \in Clients
        <4>1. sales \in Seq(Sale)
          BY DEF TypeOK, ServerOK, Sale
        <4>2. sales[k] \in Sale
          BY <4>1
        <4> QED BY <2>2, <4>2 DEF Sale
      <3>2. phase[t] # "shown"
        BY <2>2 DEF Ended
      <3>3. asked'[t] = asked[t]
        BY <3>1, <3>2, ClientMoves DEF TypeOK, ClientsOK
      <3>4. phase'[t] \in {"waiting"} \cup Ended
        BY <2>2, <3>1, ClientMoves DEF TypeOK, ClientsOK
      <3> QED BY <2>2, <3>3, <3>4
    <2> QED BY <2>1, <2>2 DEF BooksInv, SoldToAsker
  <1> QED BY <1>1, <1>2 DEF BooksInv

\* Steps of the server that receive no order.
LEMMA ServerBooks ==
  ASSUME TypeOK, BooksInv, Accept \/ AcceptFails \/ SendFirst \/ SendSecond \/ Reply
  PROVE  BooksInv'
  <1>1. UNCHANGED <<clientVars, up, mainVars>>
    BY DEF Accept, AcceptFails, SendFirst, SendSecond, Reply
  <1>2. Lost => Lost'
    <2>1. CASE pc # "reply"
      BY <2>1 DEF Accept, AcceptFails, SendFirst, SendSecond, Reply, Lost
    <2>2. CASE pc = "reply"
      BY <2>2 DEF Accept, AcceptFails, SendFirst, SendSecond, Reply, Send, Lost
    <2> QED BY <2>1, <2>2
  <1> QED BY <1>1, <1>2 DEF BooksInv, OrderedOnce, SoldToAsker

\* The order of a client that is still there, or has sent one before it left,
\* is its order; what is read of no order is nothing, or the server is lost.
LEMMA ReceivedAsked ==
  ASSUME TypeOK, BooksInv, NEW o \in Received
  PROVE  \/ o.qty = 0
         \/ /\ cur \in Clients /\ o = asked[cur] /\ phase[cur] \in {"waiting"} \cup Ended
         \/ cur = NULL \/ (phase[cur] \in Ended /\ rst[cur])
  <1>1. CASE cur # NULL /\ up[cur] # <<>>
    <2>1. up[cur] = <<asked[cur]>> /\ phase[cur] \in {"waiting"} \cup Ended /\ cur \in Clients
      BY <1>1 DEF BooksInv, OrderedOnce, TypeOK, ServerOK
    <2>2. o = Buffered(asked[cur])
      BY <1>1, <2>1 DEF Received
    <2>3. receiverBuffer \in [item : Items \cup {NOITEM}, qty : Nat]
      BY DEF TypeOK, ServerOK
    <2> QED BY <2>1, <2>2, <2>3 DEF Buffered
  <1>2. CASE ~(cur # NULL /\ up[cur] # <<>>)
    <2>1. receiverBuffer \in [item : Items \cup {NOITEM}, qty : Nat]
      BY DEF TypeOK, ServerOK
    <2>2. Buffered([item |-> SHORT, qty |-> 0]).qty = 0
      BY <2>1 DEF Buffered
    <2>3. o = Buffered([item |-> SHORT, qty |-> 0]) \/ cur = NULL \/ (phase[cur] \in Ended /\ rst[cur])
      BY <1>2 DEF Received
    <2> QED BY <2>2, <2>3
  <1> QED BY <1>1, <1>2

LEMMA ReceiveOrderBooks == ASSUME TypeOK, BooksInv, ReceiveOrder PROVE BooksInv'
  <1>1. OrderedOnce'
    BY DEF ReceiveOrder, BooksInv, OrderedOnce
  <1>2. SoldToAsker'
    <2>1. PICK o \in Received :
            IF CanBeMet(o)
            THEN /\ stock' = [stock EXCEPT ![o.item] = @ - o.qty]
                 /\ transactionID' = transactionID + 1
                 /\ sales' = Append(sales, [item |-> o.item, qty |-> o.qty, to |-> cur])
            ELSE UNCHANGED <<stock, transactionID, sales>>
      BY DEF ReceiveOrder
    <2>2. ~Lost /\ UNCHANGED <<asked, phase, rst, cur>> /\ pc' = "reply"
      BY DEF ReceiveOrder, Lost
    <2>3. CASE UNCHANGED sales
      BY <2>2, <2>3 DEF BooksInv, SoldToAsker
    <2>4. CASE ~UNCHANGED sales
      <3> DEFINE e == [item |-> o.item, qty |-> o.qty, to |-> cur]
      <3>1. /\ sales' = Append(sales, e) /\ e \in Sale /\ CanBeMet(o)
        BY <2>1, <2>4, OrderSells
      <3>2. sales \in Seq(Sale)
        BY DEF TypeOK, ServerOK, Sale
      <3>3. /\ Len(sales') = Len(sales) + 1 /\ Len(sales) \in Nat
            /\ DOMAIN sales = 1..Len(sales) /\ DOMAIN sales' = 1..(Len(sales) + 1)
            /\ \A k \in 1..Len(sales) : sales'[k] = sales[k]
            /\ sales'[Len(sales) + 1] = e
        BY <3>1, <3>2, Appended
      <3>4. \/ e.qty = 0
            \/ e.to # NULL /\ asked[e.to] = [item |-> e.item, qty |-> e.qty]
               /\ phase[e.to] \in {"waiting"} \cup Ended
            \/ Lost'
        <4>1. CASE cur \in Clients /\ o = asked[cur] /\ phase[cur] \in {"waiting"} \cup Ended
          <5>1. o \in [item : Items \cup {NOITEM}, qty : Nat]
            BY ReceivedType
          <5> QED BY <4>1, <5>1, OrderAssumption
        <4>2. CASE o.qty = 0
          BY <4>2
        <4>3. CASE cur = NULL \/ (phase[cur] \in Ended /\ rst[cur])
          BY <4>3, <2>2 DEF Lost
        <4> QED BY <4>1, <4>2, <4>3, ReceivedAsked
      <3> HIDE DEF e
      <3>5. ASSUME NEW k \in 1..(Len(sales) + 1)
            PROVE  \/ sales'[k].qty = 0
                   \/ /\ sales'[k].to # NULL
                      /\ asked'[sales'[k].to] = [item |-> sales'[k].item, qty |-> sales'[k].qty]
                      /\ phase'[sales'[k].to] \in {"waiting"} \cup Ended
                   \/ k = Len(sales') /\ Lost'
        <4>1. CASE k = Len(sales) + 1
          BY <2>2, <3>3, <3>4, <4>1
        <4>2. CASE k # Len(sales) + 1
          <5>1. k \in 1..Len(sales) /\ sales'[k] = sales[k]
            BY <3>3, <4>2
          <5> QED BY <2>2, <3>3, <5>1 DEF BooksInv, SoldToAsker
        <4> QED BY <4>1, <4>2
      <3> QED BY <3>3, <3>5 DEF SoldToAsker
    <2> QED BY <2>3, <2>4
  <1> QED BY <1>1, <1>2 DEF BooksInv

LEMMA BooksStep == TypeOK /\ BooksInv /\ [Next]_vars => BooksInv'
  <1> SUFFICES ASSUME TypeOK, BooksInv, [Next]_vars PROVE BooksInv'
    OBVIOUS
  <1>1. ASSUME NEW c \in Clients, ClientStep(c) PROVE BooksInv'
    BY <1>1, ClientBooks
  <1>2. CASE Server
    BY <1>2, ServerBooks, ReceiveOrderBooks DEF Server
  <1>3. CASE UNCHANGED vars
    BY <1>3 DEF vars, BooksInv, OrderedOnce, SoldToAsker, Lost
  <1> QED BY <1>1, <1>2, <1>3 DEF Next, ClientStep

LEMMA InitBooks == Init => BooksInv
  BY DEF Init, BooksInv, OrderedOnce, SoldToAsker

\* The books are in order in every state: no amount is below zero, and nobody
\* is sold what an earlier customer left in the buffer, but by a server that
\* sells nothing more.
THEOREM BooksInOrder == Spec => []SalesInOrder
  <1>1. TypeOK /\ BooksInv => SalesInOrder
    BY DEF BooksInv, SoldToAsker, SalesInOrder, SoldAsAsked, Lost
  <1> QED BY <1>1, InitType, TypeStep, InitBooks, BooksStep, PTL DEF Spec
-----------------------------------------------------------------------------
(* What a customer is told is right.                                       *)

\* One more in the queue, or the first one gone.
LEMMA QueueAppend ==
  ASSUME backlog \in Seq(Clients), NEW c \in Clients, backlog' = Append(backlog, c)
  PROVE  \A d : Queued(d)' <=> Queued(d) \/ d = c
  <1>1. /\ DOMAIN backlog = 1..Len(backlog) /\ DOMAIN backlog' = 1..(Len(backlog) + 1)
        /\ \A k \in 1..Len(backlog) : backlog'[k] = backlog[k]
        /\ backlog'[Len(backlog) + 1] = c /\ Len(backlog) \in Nat
    BY Appended
  <1>2. DOMAIN backlog' = DOMAIN backlog \cup {Len(backlog) + 1}
    BY <1>1
  <1> QED BY <1>1, <1>2 DEF Queued

LEMMA QueueTail ==
  ASSUME QueueOnce, backlog \in Seq(Clients), backlog # <<>>, backlog' = Tail(backlog)
  PROVE  /\ Queued(Head(backlog))
         /\ \A d : Queued(d)' <=> Queued(d) /\ d # Head(backlog)
         /\ \A j, k \in DOMAIN backlog' : j # k => backlog'[j] # backlog'[k]
  <1>1. /\ Len(backlog) \in Nat /\ Len(backlog) >= 1
        /\ DOMAIN backlog = 1..Len(backlog) /\ DOMAIN backlog' = 1..(Len(backlog) - 1)
        /\ \A k \in 1..(Len(backlog) - 1) : backlog'[k] = backlog[k + 1]
        /\ Head(backlog) = backlog[1]
    OBVIOUS
  <1>2. Queued(Head(backlog))
    BY <1>1 DEF Queued
  <1>3. \A j, k \in DOMAIN backlog' : j # k => backlog'[j] # backlog'[k]
    BY <1>1 DEF QueueOnce
  <1>4. ASSUME NEW d, Queued(d)' PROVE Queued(d) /\ d # Head(backlog)
    <2>1. PICK k \in 1..(Len(backlog) - 1) : backlog[k + 1] = d
      BY <1>1, <1>4 DEF Queued
    <2>2. k + 1 \in DOMAIN backlog /\ k + 1 # 1 /\ 1 \in DOMAIN backlog
      BY <1>1
    <2> QED BY <1>1, <2>1, <2>2 DEF Queued, QueueOnce
  <1>5. ASSUME NEW d, Queued(d), d # Head(backlog) PROVE Queued(d)'
    <2>1. PICK k \in 1..Len(backlog) : backlog[k] = d
      BY <1>1, <1>5 DEF Queued
    <2>2. k # 1
      BY <1>1, <1>5, <2>1
    <2>3. k - 1 \in DOMAIN backlog' /\ backlog'[k - 1] = backlog[k]
      BY <1>1, <2>2
    <2> QED BY <2>1, <2>3 DEF Queued
  <1> QED BY <1>2, <1>3, <1>4, <1>5

\* A step of client c keeps who is in the queue, and the books, as they are.
LEMMA ClientKeeps ==
  ASSUME TypeOK, QueueOnce, NEW c \in Clients, ClientStep(c)
  PROVE  /\ UNCHANGED <<cur, pc, mainVars>>
         /\ \A d \in Clients : /\ Fresh(d)' <=> Fresh(d)
                               /\ Served(d)' <=> Served(d)
                               /\ Sold(d)' <=> Sold(d)
         /\ \A d \in Clients \ {c} :
              /\ phase'[d] = phase[d] /\ shown'[d] = shown[d] /\ asked'[d] = asked[d]
              /\ told'[d] = told[d] /\ up'[d] = up[d] /\ down'[d] = down[d]
         /\ phase'[c] # "idle"
         /\ QueueOnce'
  <1> USE DEF TypeOK
  <1>1. UNCHANGED <<cur, pc, mainVars>>
    BY ClientMoves
  <1>2. \A d \in Clients \ {c} :
          /\ phase'[d] = phase[d] /\ shown'[d] = shown[d] /\ asked'[d] = asked[d]
          /\ told'[d] = told[d] /\ up'[d] = up[d] /\ down'[d] = down[d]
    BY DEF ClientsOK, ClientStep, ClientProgram, Connect, RecvFirst, RecvSecond, RecvReply,
           SendOrder, Kill, End, Shows
  <1>3. phase'[c] # "idle"
    BY DEF ClientsOK, ClientStep, ClientProgram, Connect, RecvFirst, RecvSecond, RecvReply,
           SendOrder, Kill, End, Ended
  <1>4. (\A d \in Clients : Fresh(d)' <=> Fresh(d)) /\ QueueOnce'
    <2>1. CASE Connect(c)
      <3>1. backlog \in Seq(Clients) /\ backlog' = Append(backlog, c) /\ phase[c] = "idle"
        BY <2>1 DEF ServerOK, Connect
      <3>2. \A d : Queued(d)' <=> Queued(d) \/ d = c
        BY <3>1, QueueAppend
      <3>3. \A d \in Clients : Fresh(d)' <=> Fresh(d)
        BY <1>2, <3>1, <3>2 DEF Fresh
      <3>4. \A j, k \in DOMAIN backlog' : j # k => backlog'[j] # backlog'[k]
        <4>1. ~Queued(c)
          BY <3>1 DEF QueueOnce
        <4>2. /\ DOMAIN backlog = 1..Len(backlog) /\ DOMAIN backlog' = 1..(Len(backlog) + 1)
              /\ \A k \in 1..Len(backlog) : backlog'[k] = backlog[k]
              /\ backlog'[Len(backlog) + 1] = c /\ Len(backlog) \in Nat
          BY <3>1, Appended
        <4>3. DOMAIN backlog' = DOMAIN backlog \cup {Len(backlog) + 1}
          BY <4>2
        <4> QED BY <4>1, <4>2, <4>3 DEF Queued, QueueOnce
      <3> QED BY <1>1, <1>2, <1>3, <3>2, <3>3, <3>4 DEF QueueOnce
    <2>2. CASE ~Connect(c)
      <3>1. UNCHANGED backlog /\ phase[c] # "idle"
        BY <2>2 DEF ClientStep, ClientProgram, RecvFirst, RecvSecond, RecvReply, SendOrder, Kill
      <3>2. \A d : Queued(d)' <=> Queued(d)
        BY <3>1 DEF Queued
      <3>3. \A d \in Clients : Fresh(d)' <=> Fresh(d)
        BY <1>2, <1>3, <3>1, <3>2 DEF Fresh
      <3> QED BY <1>1, <1>2, <1>3, <3>1, <3>2, <3>3 DEF QueueOnce
    <2> QED BY <2>1, <2>2
  <1>5. \A d \in Clients : Served(d)' <=> Served(d)
    BY <1>1, <1>4 DEF Served
  <1>6. \A d \in Clients : Sold(d)' <=> Sold(d)
    BY <1>1 DEF Sold
  <1> QED BY <1>1, <1>2, <1>3, <1>4, <1>5, <1>6

\* Nothing changes for a client when its own variables, the books, and where
\* the server is with it stay.
LEMMA OthersInOrder ==
  ASSUME NEW d \in Clients, InOrder(d),
         UNCHANGED <<stock, sales, transactionID, error>>,
         phase'[d] = phase[d], shown'[d] = shown[d], asked'[d] = asked[d],
         told'[d] = told[d], up'[d] = up[d], down'[d] = down[d],
         Fresh(d)' <=> Fresh(d), Served(d)' <=> Served(d),
         UNCHANGED <<cur, pc>> \/ cur' # d, pc = "exited" => pc' = "exited"
  PROVE  InOrder(d)'
  <1>1. Untouched(d)'
    BY DEF InOrder, Untouched, Sold
  <1>2. ToldTrue(d)'
    BY DEF InOrder, ToldTrue, Right, Sold
  <1>3. InStep(d)'
    <2> SUFFICES ASSUME Live(d)' PROVE InStep(d)'
      BY DEF InStep
    <2>1. Live(d)
      BY DEF Live
    <2>2. Served(d)' => AfterReply(d)'
      BY <2>1 DEF InOrder, InStep, AfterReply, Right, Sold
    <2>3. CASE cur' # d
      BY <2>2, <2>3 DEF InStep
    <2>4. CASE UNCHANGED <<cur, pc>>
      <3>1. /\ AtFirst(d) => AtFirst(d)'
            /\ AtSecond(d) => AtSecond(d)'
            /\ AtOrder(d) => AtOrder(d)'
        BY DEF AtFirst, AtSecond, AtOrder, ShownRight, Amount
      <3>2. AtReply(d) => AtReply(d)'
        BY DEF AtReply, Right, Sold, Answer
      <3> QED BY <2>1, <2>2, <2>4, <3>1, <3>2 DEF InOrder, InStep
    <2> QED BY <2>3, <2>4
  <1> QED BY <1>1, <1>2, <1>3 DEF InOrder

\* Where a client is that has not ended and to which the server has not yet
\* sent an answer, or sends none any more.
LEMMA Whereabouts ==
  ASSUME ServerOK, ServiceInv, NEW c \in Clients, Live(c)
  PROVE  /\ told[c].kind = "nothing"
         /\ \/ Fresh(c) /\ ~Served(c) /\ cur # c /\ down[c] = <<>>
               /\ (pc # "exited" => phase[c] \in {"idle", "connected"})
            \/ Served(c) /\ ~Fresh(c) /\ AfterReply(c)
            \/ ~Fresh(c) /\ ~Served(c) /\ cur = c /\ pc # "exited"
               /\ \/ pc = "first" /\ AtFirst(c)
                  \/ pc = "second" /\ AtSecond(c)
                  \/ pc = "order" /\ AtOrder(c)
                  \/ pc = "reply" /\ AtReply(c)
  <1> USE DEF ServiceInv, InOrder
  <1>1. told[c].kind = "nothing"
    BY DEF ToldTrue, Live
  <1>2. CASE Fresh(c)
    BY <1>1, <1>2 DEF Untouched, QueueOnce, Served, Live
  <1>3. CASE Served(c)
    BY <1>1, <1>3 DEF InStep, Served
  <1>4. CASE ~Fresh(c) /\ ~Served(c)
    <2>1. cur = c /\ pc \in {"first", "second", "order", "reply"}
      BY <1>4 DEF Served, ServerOK
    <2> QED BY <1>1, <1>4, <2>1 DEF InStep
  <1> QED BY <1>2, <1>3, <1>4

LEMMA ConnectInOrder ==
  ASSUME TypeOK, ServiceInv, NEW c \in Clients, Connect(c) PROVE InOrder(c)'
  <1>1. phase[c] = "idle" /\ phase'[c] = "connected" /\ Live(c) /\ pc # "exited"
    BY DEF Connect, TypeOK, ClientsOK, Live, Ended
  <1>2. UNCHANGED <<shown, asked, told, connVars, nOpen, pc, cur, mainVars>>
    BY DEF Connect
  <1>3. Fresh(c) /\ ~Served(c) /\ cur # c /\ down[c] = <<>> /\ told[c].kind = "nothing"
    BY <1>1, Whereabouts DEF AfterReply, AtFirst, AtSecond, AtOrder, AtReply, TypeOK, Fresh,
       ServiceInv, QueueOnce, Served
  <1>4. Fresh(c)' /\ ~Served(c)' /\ ~Sold(c)'
    BY <1>3, ClientKeeps DEF ClientStep, ServiceInv, InOrder, Untouched
  <1> QED BY <1>1, <1>2, <1>3, <1>4 DEF InOrder, Untouched, InStep, ToldTrue

\* At the end of the stream a client that was not served goes on as it was.
LEMMA AtEndInOrder ==
  ASSUME TypeOK, ServiceInv, NEW c \in Clients, ClientStep(c), Live(c), pc = "exited",
         phase[c] # "waiting", told'[c] = told[c], down'[c] = down[c]
  PROVE  InOrder(c)'
  <1>1. Fresh(c) /\ ~Served(c) /\ cur # c /\ down[c] = <<>> /\ told[c].kind = "nothing"
    BY Whereabouts DEF AfterReply, TypeOK
  <1>2. Fresh(c)' /\ ~Served(c)' /\ ~Sold(c)' /\ UNCHANGED <<pc, cur>>
    BY <1>1, ClientKeeps DEF ServiceInv, InOrder, Untouched
  <1> QED BY <1>1, <1>2 DEF InOrder, Untouched, InStep, ToldTrue

\* Of two, the first one read.
LEMMA SecondOfTwo == ASSUME NEW x, NEW y PROVE SubSeq(<<x, y>>, 2, 2) = <<y>>
  <1> DEFINE s == SubSeq(<<x, y>>, 2, 2)
             t == <<y>>
  <1>1. s \in Seq({x, y}) /\ Len(s) = 1 /\ s[1] = y
    <2>1. <<x, y>> \in Seq({x, y}) /\ <<x, y>>[2] = y
      OBVIOUS
    <2> QED BY <2>1
  <1>2. t \in Seq({x, y}) /\ Len(t) = 1 /\ t[1] = y
    OBVIOUS
  <1> HIDE DEF s, t
  <1>3. s = t
    <2>1. \A i \in 1..Len(s) : s[i] = t[i]
      BY <1>1, <1>2
    <2> QED BY <1>1, <1>2, <2>1, SeqEqual
  <1> QED BY <1>3 DEF s, t

LEMMA RecvFirstInOrder ==
  ASSUME TypeOK, ServiceInv, NEW c \in Clients, RecvFirst(c) PROVE InOrder(c)'
  <1>1. /\ ClientStep(c) /\ phase[c] = "connected" /\ phase'[c] = "half" /\ Live(c)
        /\ UNCHANGED <<asked, told, up, rst, backlog, nOpen, pc, cur, mainVars>>
    BY DEF RecvFirst, TypeOK, ClientsOK, Live, Ended, ClientStep, ClientProgram
  <1>2. CASE AtEnd(c) /\ UNCHANGED <<shown, down>>
    BY <1>1, <1>2, AtEndInOrder DEF AtEnd
  <1>3. ASSUME NEW k \in Together(c),
               \/ Shows(c, First, IF k > 1 THEN JOINED ELSE down[c][1].n)
               \/ Shows(c, First, GARBLED),
               down' = [down EXCEPT ![c] = SubSeq(@, k + 1, Len(@))]
        PROVE  InOrder(c)'
    <2>1. down[c] \in Seq(MessageSet) /\ k \in 1..Len(down[c])
      BY DEF TypeOK, ClientsOK, Together
    <2>2. down[c] # <<>>
      BY <2>1
    <2>3. /\ cur = c /\ ~Fresh(c) /\ ~Served(c) /\ told[c].kind = "nothing"
          /\ \/ pc = "second" /\ AtSecond(c)
             \/ pc = "order" /\ AtOrder(c)
      BY <1>1, <2>2, Whereabouts DEF AfterReply, AtFirst, AtReply, TypeOK
    <2>4. ~Fresh(c)' /\ ~Served(c)'
      BY <1>1, <2>3, ClientKeeps DEF ServiceInv
    <2>5. /\ down'[c] = SubSeq(down[c], k + 1, Len(down[c]))
          /\ shown'[c][First] \in {IF k > 1 THEN JOINED ELSE down[c][1].n, GARBLED}
      <3>1. ASSUME NEW n, Shows(c, First, n) PROVE shown'[c][First] = n
        BY <3>1, OrderAssumption DEF TypeOK, ClientsOK, Shows
      <3>2. down'[c] = SubSeq(down[c], k + 1, Len(down[c]))
        BY <1>3 DEF TypeOK, ClientsOK
      <3> QED BY <1>3, <3>1, <3>2
    <2>6. CASE pc = "second"
      <3>1. down[c] = <<Amount(First)>>
        BY <1>1, <2>3, <2>6 DEF AtSecond
      <3>2. k = 1 /\ Len(down[c]) = 1
        BY <2>1, <3>1
      <3>3. down'[c] = <<>>
        BY <2>1, <2>5, <3>2
      <3>4. AtSecond(c)'
        BY <1>1, <2>5, <3>1, <3>2, <3>3 DEF AtSecond, ShownRight, Amount
      <3> QED BY <1>1, <2>3, <2>4, <2>6, <3>4 DEF InOrder, Untouched, InStep, ToldTrue
    <2>7. CASE pc = "order"
      <3>1. down[c] = <<Amount(First), Amount(Second)>>
        BY <1>1, <2>3, <2>7 DEF AtOrder
      <3>2. k \in {1, 2} /\ Len(down[c]) = 2
        BY <2>1, <3>1
      <3>3. k = 2 => down'[c] = <<>>
        BY <2>1, <2>5, <3>2
      <3>4. k = 1 => down'[c] = <<Amount(Second)>>
        BY <2>5, <3>1, <3>2, SecondOfTwo
      <3>5. UNCHANGED stock /\ Amount(Second)' = Amount(Second)
        BY <1>1 DEF Amount
      <3>6. k = 1 => ShownRight(c, First)'
        BY <2>5, <3>1, <3>5 DEF ShownRight, Amount
      <3>7. AtOrder(c)'
        BY <1>1, <3>2, <3>3, <3>4, <3>5, <3>6 DEF AtOrder
      <3> QED BY <1>1, <2>3, <2>4, <2>7, <3>7 DEF InOrder, Untouched, InStep, ToldTrue
    <2> QED BY <2>3, <2>6, <2>7
  <1> QED BY <1>2, <1>3 DEF RecvFirst

LEMMA RecvSecondInOrder ==
  ASSUME TypeOK, ServiceInv, NEW c \in Clients, RecvSecond(c) PROVE InOrder(c)'
  <1>1. /\ ClientStep(c) /\ phase[c] = "half" /\ phase'[c] = "shown" /\ Live(c)
        /\ UNCHANGED <<asked, told, up, rst, backlog, nOpen, pc, cur, mainVars>>
    BY DEF RecvSecond, TypeOK, ClientsOK, Live, Ended, ClientStep, ClientProgram
  <1>2. CASE AtEnd(c) /\ UNCHANGED <<shown, down>>
    BY <1>1, <1>2, AtEndInOrder DEF AtEnd
  <1>3. CASE /\ down[c] # <<>>
             /\ Shows(c, Second, Head(down[c]).n) \/ Shows(c, Second, GARBLED)
             /\ down' = [down EXCEPT ![c] = Tail(@)]
    <2>1. /\ cur = c /\ ~Fresh(c) /\ ~Served(c) /\ told[c].kind = "nothing"
          /\ pc = "order" /\ down[c] = <<Amount(Second)>> /\ ShownRight(c, First)
      BY <1>1, <1>3, Whereabouts DEF AfterReply, AtFirst, AtSecond, AtOrder, AtReply, TypeOK
    <2>2. ~Fresh(c)' /\ ~Served(c)'
      BY <1>1, <2>1, ClientKeeps DEF ServiceInv
    <2>3. down'[c] = <<>>
      BY <1>3, <2>1 DEF TypeOK, ClientsOK
    <2>4. /\ shown'[c][Second] \in {Amount(Second).n, GARBLED}
          /\ shown'[c][First] = shown[c][First]
      BY <1>3, <2>1, SecondItem, OrderAssumption DEF TypeOK, ClientsOK, Shows
    <2>5. AtOrder(c)'
      BY <1>1, <2>1, <2>3, <2>4 DEF AtOrder, ShownRight, Amount
    <2> QED BY <1>1, <2>1, <2>2, <2>5 DEF InOrder, Untouched, InStep, ToldTrue
  <1> QED BY <1>2, <1>3 DEF RecvSecond

LEMMA SendOrderInOrder ==
  ASSUME TypeOK, ServiceInv, NEW c \in Clients, SendOrder(c) PROVE InOrder(c)'
  <1>1. /\ ClientStep(c) /\ phase[c] = "shown" /\ Live(c)
        /\ UNCHANGED <<shown, told, down, backlog, nOpen, pc, cur, mainVars>>
    BY DEF SendOrder, TypeOK, ClientsOK, Live, Ended, ClientStep
  <1>2. CASE pc = "exited"
    BY <1>1, <1>2, AtEndInOrder
  <1>3. CASE pc # "exited"
    <2>1. /\ cur = c /\ ~Fresh(c) /\ ~Served(c) /\ told[c].kind = "nothing"
          /\ pc = "order" /\ down[c] = <<>>
      BY <1>1, <1>3, Whereabouts DEF AfterReply, AtFirst, AtSecond, AtOrder, AtReply, TypeOK
    <2>2. ~Fresh(c)' /\ ~Served(c)'
      BY <1>1, <2>1, ClientKeeps DEF ServiceInv
    <2>3. phase'[c] = "waiting" /\ up'[c] # <<>>
      BY <1>3 DEF SendOrder, TypeOK, ClientsOK
    <2>4. AtOrder(c)'
      BY <1>1, <2>1, <2>3 DEF AtOrder
    <2> QED BY <1>1, <2>1, <2>2, <2>4 DEF InOrder, Untouched, InStep, ToldTrue
  <1> QED BY <1>2, <1>3

LEMMA RecvReplyInOrder ==
  ASSUME TypeOK, ServiceInv, NEW c \in Clients, RecvReply(c) PROVE InOrder(c)'
  <1>1. /\ ClientStep(c) /\ phase[c] = "waiting" /\ Live(c)
        /\ UNCHANGED <<shown, asked, up, backlog, nOpen, pc, cur, mainVars>>
    BY DEF RecvReply, TypeOK, ClientsOK, Live, Ended, ClientStep, ClientProgram
  <1>2. phase'[c] = "done" /\ ~Live(c)'
    BY DEF RecvReply, End, TypeOK, ClientsOK, Live, Ended
  <1>3. Fresh(c) => ~Sold(c)
    BY DEF ServiceInv, InOrder, Untouched
  <1>4. CASE /\ down[c] # <<>>
             /\ told' = [told EXCEPT ![c] = Head(down[c])]
             /\ down' = [down EXCEPT ![c] = Tail(@)]
    <2>1. Served(c) /\ ~Fresh(c) /\ Right(c, down[c][1])
      BY <1>1, <1>4, Whereabouts DEF AfterReply, AtFirst, AtSecond, AtOrder, AtReply, TypeOK
    <2>2. Served(c)' /\ ~Fresh(c)'
      BY <1>1, <2>1, ClientKeeps DEF ServiceInv
    <2>3. told'[c] = down[c][1]
      BY <1>4 DEF TypeOK, ClientsOK
    <2>4. Right(c, told[c])'
      BY <1>1, <2>1, <2>3 DEF Right, Sold
    <2> QED BY <1>2, <2>2, <2>4 DEF InOrder, Untouched, InStep, ToldTrue, Ended
  <1>5. CASE AtEnd(c) /\ UNCHANGED <<told, down>>
    <2>1. told[c].kind = "nothing" /\ down[c] = <<>> /\ pc = "exited"
      BY <1>1, <1>5, Whereabouts DEF TypeOK, AtEnd
    <2>2. Fresh(c)' => ~Sold(c)'
      BY <1>1, <1>3, ClientKeeps DEF ServiceInv
    <2> QED BY <1>1, <1>2, <1>5, <2>1, <2>2 DEF InOrder, Untouched, InStep, ToldTrue
  <1> QED BY <1>4, <1>5 DEF RecvReply

LEMMA KillInOrder ==
  ASSUME TypeOK, ServiceInv, NEW c \in Clients, Kill(c) PROVE InOrder(c)'
  <1>1. /\ ClientStep(c) /\ Live(c)
        /\ UNCHANGED <<shown, asked, told, up, down, backlog, nOpen, pc, cur, mainVars>>
    BY DEF Kill, Live, ClientStep
  <1>2. phase'[c] = "left"
    BY DEF Kill, End, TypeOK, ClientsOK
  <1>3. told[c].kind = "nothing"
    BY <1>1, Whereabouts DEF TypeOK
  <1>4. (Fresh(c)' <=> Fresh(c)) /\ (Sold(c)' <=> Sold(c))
    BY <1>1, ClientKeeps DEF ServiceInv
  <1> QED BY <1>1, <1>2, <1>3, <1>4
      DEF InOrder, Untouched, InStep, ToldTrue, Live, Ended, ServiceInv

\* Steps of clients keep everybody in order.
LEMMA ClientService ==
  ASSUME TypeOK, ServiceInv, NEW c \in Clients, ClientStep(c) PROVE ServiceInv'
  <1>1. QueueOnce' /\ UNCHANGED <<cur, pc, mainVars>>
    BY ClientKeeps DEF ServiceInv
  <1>2. Numbered'
    BY <1>1, ClientKeeps DEF ServiceInv, Numbered
  <1>3. InOrder(c)'
    BY ConnectInOrder, RecvFirstInOrder, RecvSecondInOrder, RecvReplyInOrder, SendOrderInOrder,
       KillInOrder DEF ClientStep, ClientProgram
  <1>4. ASSUME NEW d \in Clients \ {c} PROVE InOrder(d)'
    <2>1. InOrder(d) /\ QueueOnce
      BY DEF ServiceInv
    <2> QED BY <1>1, <2>1, ClientKeeps, OthersInOrder
  <1> QED BY <1>1, <1>2, <1>3, <1>4 DEF ServiceInv
\* The next in the queue: it has been sent nothing, and the one that was served
\* before stays as it is.
LEMMA AcceptService == ASSUME TypeOK, ServiceInv, Accept PROVE ServiceInv'
  <1> PICK c \in Clients : c = Head(backlog)
    BY HeadTail DEF Accept, TypeOK, ServerOK
  <1>1. /\ backlog \in Seq(Clients) /\ backlog # <<>> /\ backlog' = Tail(backlog)
        /\ cur' = c /\ pc = "accept" /\ pc' = "first"
        /\ UNCHANGED <<clientVars, connVars, mainVars>>
    BY DEF Accept, TypeOK, ServerOK
  <1>2. /\ Queued(c)
        /\ \A d : Queued(d)' <=> Queued(d) /\ d # c
        /\ \A j, k \in DOMAIN backlog' : j # k => backlog'[j] # backlog'[k]
    BY <1>1, QueueTail DEF ServiceInv
  <1>3. Fresh(c) /\ phase[c] # "idle" /\ ~Sold(c) /\ down[c] = <<>>
        /\ phase[c] \in {"connected"} \cup Ended
    BY <1>1, <1>2 DEF ServiceInv, QueueOnce, InOrder, Untouched, Fresh
  <1>4. \A d \in Clients : Fresh(d)' <=> Fresh(d) /\ d # c
    BY <1>1, <1>2, <1>3 DEF Fresh
  <1>5. QueueOnce'
    BY <1>1, <1>2, <1>4 DEF ServiceInv, QueueOnce
  <1>6. Numbered'
    BY <1>1, <1>3 DEF ServiceInv, Numbered, Sold
  <1>7. ASSUME NEW d \in Clients, d # c PROVE InOrder(d)'
    <2>1. (Fresh(d)' <=> Fresh(d)) /\ (Served(d)' <=> Served(d))
      BY <1>1, <1>4, <1>7 DEF Served
    <2> QED BY <1>1, <1>7, <2>1, OthersInOrder DEF ServiceInv
  <1>8. InOrder(c)'
    <2>1. ~Fresh(c)' /\ ~Served(c)'
      BY <1>1, <1>4 DEF Served
    <2>2. told[c].kind = "nothing"
      BY <1>1, <1>3 DEF ServiceInv, InOrder, ToldTrue, Served
    <2>3. InStep(c)'
      BY <1>1, <1>3, <2>1 DEF InStep, Live, AtFirst
    <2> QED BY <1>1, <2>1, <2>2, <2>3 DEF InOrder, Untouched, ToldTrue
  <1> QED BY <1>5, <1>6, <1>7, <1>8 DEF ServiceInv

LEMMA AcceptFailsService == ASSUME TypeOK, ServiceInv, AcceptFails PROVE ServiceInv'
  <1>1. /\ cur' = NULL /\ NULL \notin Clients /\ pc = "accept" /\ pc' = "order"
        /\ UNCHANGED <<clientVars, connVars, backlog, nOpen, mainVars>>
    BY OrderAssumption DEF AcceptFails
  <1>2. \A d \in Clients : (Fresh(d)' <=> Fresh(d)) /\ (Served(d)' <=> Served(d))
    BY <1>1 DEF Fresh, Queued, Served
  <1>3. QueueOnce'
    BY <1>1, <1>2 DEF ServiceInv, QueueOnce, Queued
  <1>4. Numbered'
    BY <1>1 DEF ServiceInv, Numbered
  <1>5. ASSUME NEW d \in Clients PROVE InOrder(d)'
    BY <1>1, <1>2, OthersInOrder DEF ServiceInv
  <1> QED BY <1>3, <1>4, <1>5 DEF ServiceInv

\* A send() to the client that is served concerns nobody else.
LEMMA SendKeeps ==
  ASSUME TypeOK, ServiceInv, cur \in Clients, pc \notin {"accept", "exited"},
         NEW m, NEW next, Send(m, next),
         UNCHANGED <<clientVars, up, backlog, nOpen, cur, mainVars>>
  PROVE  /\ QueueOnce'
         /\ \A d \in Clients : Fresh(d)' <=> Fresh(d)
         /\ ~Fresh(cur) /\ told[cur].kind = "nothing"
         /\ \A d \in Clients \ {cur} : InOrder(d)'
         /\ Live(cur) => down'[cur] = Append(down[cur], m) /\ pc' = next
         /\ ~Live(cur) => pc' \in {next, "exited"} /\ ~Live(cur)'
  <1>1. \A d \in Clients : Fresh(d)' <=> Fresh(d)
    BY DEF Fresh, Queued
  <1>2. QueueOnce'
    BY <1>1 DEF ServiceInv, QueueOnce, Queued
  <1>3. ~Fresh(cur) /\ told[cur].kind = "nothing"
    BY DEF ServiceInv, InOrder, QueueOnce, ToldTrue, Served
  <1>4. ASSUME NEW d \in Clients \ {cur} PROVE InOrder(d)'
    <2>1. down'[d] = down[d]
      BY DEF Send, TypeOK, ClientsOK
    <2>2. Served(d)' <=> Served(d)
      BY <1>1 DEF Served
    <2> QED BY <1>1, <2>1, <2>2, OthersInOrder DEF ServiceInv
  <1>5. Live(cur) => down'[cur] = Append(down[cur], m) /\ pc' = next
    BY DEF Live, Send, TypeOK, ClientsOK
  <1>6. ~Live(cur) => pc' \in {next, "exited"} /\ ~Live(cur)'
    BY DEF Live, Send
  <1> QED BY <1>1, <1>2, <1>3, <1>4, <1>5, <1>6

LEMMA SendFirstService == ASSUME TypeOK, ServiceInv, SendFirst PROVE ServiceInv'
  <1>1. /\ cur \in Clients /\ pc = "first" /\ Send(Amount(First), "second")
        /\ UNCHANGED <<clientVars, up, backlog, nOpen, cur, mainVars>>
    BY DEF SendFirst, TypeOK, ServerOK
  <1>2. /\ QueueOnce'
        /\ ~Fresh(cur)' /\ told[cur].kind = "nothing"
        /\ \A d \in Clients \ {cur} : InOrder(d)'
        /\ Live(cur) => down'[cur] = Append(down[cur], Amount(First)) /\ pc' = "second"
        /\ ~Live(cur) => pc' \in {"second", "exited"} /\ ~Live(cur)'
    BY <1>1, SendKeeps
  <1>3. Numbered'
    BY <1>1, <1>2 DEF ServiceInv, Numbered, Sold
  <1>4. ASSUME Live(cur) PROVE InStep(cur)'
    <2>1. AtFirst(cur)
      BY <1>1, <1>4 DEF ServiceInv, InOrder, InStep
    <2>2. down'[cur] = <<Amount(First)>> /\ pc' = "second"
      BY <1>2, <1>4, <2>1 DEF AtFirst
    <2> QED BY <1>1, <2>1, <2>2 DEF InStep, AtFirst, AtSecond, Amount, Served
  <1>5. InOrder(cur)'
    BY <1>1, <1>2, <1>4 DEF InOrder, Untouched, ToldTrue, InStep
  <1> QED BY <1>1, <1>2, <1>3, <1>5 DEF ServiceInv

\* Two sent one after the other.
LEMMA TwoQueued == ASSUME NEW x, NEW y PROVE Append(<<x>>, y) = <<x, y>>
  <1> DEFINE s == Append(<<x>>, y)
             t == <<x, y>>
  <1>1. s \in Seq({x, y}) /\ Len(s) = 2 /\ s[1] = x /\ s[2] = y
    <2>1. <<x>> \in Seq({x, y}) /\ Len(<<x>>) = 1 /\ <<x>>[1] = x
      OBVIOUS
    <2> QED BY <2>1
  <1>2. t \in Seq({x, y}) /\ Len(t) = 2 /\ t[1] = x /\ t[2] = y
    OBVIOUS
  <1> HIDE DEF s, t
  <1>3. s = t
    <2>1. \A i \in 1..Len(s) : s[i] = t[i]
      BY <1>1, <1>2
    <2> QED BY <1>1, <1>2, <2>1, SeqEqual
  <1> QED BY <1>3 DEF s, t

LEMMA SendSecondService == ASSUME TypeOK, ServiceInv, SendSecond PROVE ServiceInv'
  <1>1. /\ cur \in Clients /\ pc = "second" /\ Send(Amount(Second), "order")
        /\ UNCHANGED <<clientVars, up, backlog, nOpen, cur, mainVars>>
    BY DEF SendSecond, TypeOK, ServerOK
  <1>2. /\ QueueOnce'
        /\ ~Fresh(cur)' /\ told[cur].kind = "nothing"
        /\ \A d \in Clients \ {cur} : InOrder(d)'
        /\ Live(cur) => down'[cur] = Append(down[cur], Amount(Second)) /\ pc' = "order"
        /\ ~Live(cur) => pc' \in {"order", "exited"} /\ ~Live(cur)'
    BY <1>1, SendKeeps
  <1>3. Numbered'
    BY <1>1, <1>2 DEF ServiceInv, Numbered, Sold
  <1>4. ASSUME Live(cur) PROVE InStep(cur)'
    <2>1. AtSecond(cur)
      BY <1>1, <1>4 DEF ServiceInv, InOrder, InStep
    <2>2. /\ down'[cur] = Append(down[cur], Amount(Second)) /\ pc' = "order"
          /\ Amount(First)' = Amount(First) /\ Amount(Second)' = Amount(Second)
      BY <1>1, <1>2, <1>4 DEF Amount
    <2>3. CASE phase[cur] = "connected" /\ down[cur] = <<Amount(First)>>
      <3>1. down'[cur] = <<Amount(First), Amount(Second)>>
        BY <2>2, <2>3, TwoQueued
      <3> QED BY <1>1, <2>2, <2>3, <3>1 DEF InStep, Served, AtOrder
    <2>4. CASE phase[cur] = "half" /\ down[cur] = <<>> /\ ShownRight(cur, First)
      <3>1. down'[cur] = <<Amount(Second)>>
        BY <2>2, <2>4
      <3> QED BY <1>1, <2>2, <2>4, <3>1 DEF InStep, Served, AtOrder, ShownRight
    <2> QED BY <2>1, <2>3, <2>4 DEF AtSecond
  <1>5. InOrder(cur)'
    BY <1>1, <1>2, <1>4 DEF InOrder, Untouched, ToldTrue, InStep
  <1> QED BY <1>1, <1>2, <1>3, <1>5 DEF ServiceInv

LEMMA ReplyService == ASSUME TypeOK, ServiceInv, Reply PROVE ServiceInv'
  <1>1. CASE cur = NULL
    <2>1. /\ pc = "reply" /\ pc' = "exited" /\ cur \notin Clients
          /\ UNCHANGED <<clientVars, connVars, backlog, nOpen, cur, mainVars>>
      BY <1>1, OrderAssumption DEF Reply
    <2>2. \A d \in Clients : (Fresh(d)' <=> Fresh(d)) /\ (Served(d)' <=> Served(d))
      BY <2>1 DEF Fresh, Queued, Served
    <2>3. QueueOnce' /\ Numbered'
      BY <2>1, <2>2 DEF ServiceInv, QueueOnce, Numbered, Queued
    <2>4. ASSUME NEW d \in Clients PROVE InOrder(d)'
      BY <2>1, <2>2, OthersInOrder DEF ServiceInv
    <2> QED BY <2>3, <2>4 DEF ServiceInv
  <1>2. CASE cur # NULL
    <2>1. /\ cur \in Clients /\ pc = "reply" /\ Send(Answer, "accept")
          /\ UNCHANGED <<clientVars, up, backlog, nOpen, cur, mainVars>>
      BY <1>2 DEF Reply, TypeOK, ServerOK
    <2>2. /\ QueueOnce'
          /\ ~Fresh(cur)' /\ told[cur].kind = "nothing"
          /\ \A d \in Clients \ {cur} : InOrder(d)'
          /\ Live(cur) => down'[cur] = Append(down[cur], Answer) /\ pc' = "accept"
          /\ ~Live(cur) => pc' \in {"accept", "exited"} /\ ~Live(cur)'
      BY <2>1, SendKeeps
    <2>3. Numbered'
      BY <2>1, <2>2 DEF ServiceInv, Numbered, Sold
    <2>4. ASSUME Live(cur) PROVE InStep(cur)'
      <3>1. AtReply(cur)
        BY <2>1, <2>4 DEF ServiceInv, InOrder, InStep
      <3>2. down'[cur] = <<Answer>> /\ pc' = "accept"
        BY <2>2, <2>4, <3>1 DEF AtReply
      <3>3. Len(down'[cur]) = 1 /\ down'[cur][1] = Answer
        BY <3>2
      <3>4. AfterReply(cur)'
        BY <2>1, <3>1, <3>3 DEF AtReply, AfterReply, Right, Sold
      <3> QED BY <2>1, <3>2, <3>4 DEF InStep
    <2>5. InOrder(cur)'
      BY <2>1, <2>2, <2>4 DEF InOrder, Untouched, ToldTrue, InStep
    <2> QED BY <2>1, <2>2, <2>3, <2>5 DEF ServiceInv
  <1> QED BY <1>1, <1>2
\* A sale to the client that is served is no concern of the others.
LEMMA SaleKeepsRight ==
  ASSUME TypeOK, NEW e \in Sale, e.to = cur,
         UNCHANGED sales \/ sales' = Append(sales, e)
  PROVE  \A d \in Clients \ {cur} :
           /\ Sold(d)' <=> Sold(d)
           /\ \A m : asked'[d] = asked[d] /\ Right(d, m) =>
                /\ m.kind = "refused" => ~Sold(d)'
                /\ m.kind = "id" /\ asked'[d].item \in Items =>
                     \E k \in DOMAIN sales' :
                       sales'[k] = [item |-> asked'[d].item, qty |-> asked'[d].qty, to |-> d]
                /\ m.kind = "id" /\ Sold(d)' => m.n \in DOMAIN sales' /\ sales'[m.n].to = d
  <1>1. CASE UNCHANGED sales
    BY <1>1 DEF Sold, Right
  <1>2. CASE sales' = Append(sales, e)
    <2>1. sales \in Seq(Sale)
      BY DEF TypeOK, ServerOK, Sale
    <2>2. /\ DOMAIN sales = 1..Len(sales) /\ DOMAIN sales' = 1..(Len(sales) + 1)
          /\ \A k \in 1..Len(sales) : sales'[k] = sales[k]
          /\ sales'[Len(sales) + 1] = e /\ Len(sales) \in Nat
      BY <1>2, <2>1, Appended
    <2>3. DOMAIN sales' = DOMAIN sales \cup {Len(sales) + 1}
      BY <2>2
    <2>4. ASSUME NEW d \in Clients \ {cur} PROVE Sold(d)' <=> Sold(d)
      BY <2>2, <2>3 DEF Sold
    <2>5. \A k \in DOMAIN sales : k \in DOMAIN sales' /\ sales'[k] = sales[k]
      BY <2>2, <2>3
    <2> QED BY <2>4, <2>5 DEF Right
  <1> QED BY <1>1, <1>2

\* The order that is met or refused is that of the client, if it is still
\* there; its answer is right.
LEMMA ReceiveOrderService ==
  ASSUME TypeOK, BooksInv, ServiceInv, ReceiveOrder PROVE ServiceInv'
  <1>1. PICK o \in Received :
          /\ receiverBuffer' = o
          /\ error' = Refuses(o)
          /\ IF CanBeMet(o)
             THEN /\ stock' = [stock EXCEPT ![o.item] = @ - o.qty]
                  /\ transactionID' = transactionID + 1
                  /\ sales' = Append(sales, [item |-> o.item, qty |-> o.qty, to |-> cur])
             ELSE UNCHANGED <<stock, transactionID, sales>>
    BY DEF ReceiveOrder
  <1>2. pc = "order" /\ pc' = "reply" /\ UNCHANGED <<clientVars, down, rst, backlog, nOpen, cur>>
    BY DEF ReceiveOrder
  <1> DEFINE e == [item |-> o.item, qty |-> o.qty, to |-> cur]
  <1>3. \/ ~CanBeMet(o) /\ UNCHANGED <<stock, transactionID, sales>>
        \/ /\ CanBeMet(o) /\ sales' = Append(sales, e) /\ e \in Sale
           /\ transactionID' = transactionID + 1
    BY <1>1, OrderSells
  <1>4. sales \in Seq(Sale) /\ transactionID \in Nat
    BY DEF TypeOK, ServerOK, Sale
  <1>5. \A d \in Clients : (Fresh(d)' <=> Fresh(d)) /\ (Served(d)' <=> Served(d))
    BY <1>2 DEF Fresh, Queued, Served
  <1>6. QueueOnce'
    BY <1>2, <1>5 DEF ServiceInv, QueueOnce, Queued
  <1>7. Numbered'
    <2>1. Len(sales') = Len(sales) \/ (Len(sales') = Len(sales) + 1 /\ transactionID' = transactionID + 1)
      BY <1>3, <1>4, Appended
    <2>2. transactionID' = Len(sales')
      BY <1>3, <1>4, Appended DEF ServiceInv, Numbered
    <2> QED BY <1>2, <2>2 DEF Numbered
  <1>8. ASSUME NEW d \in Clients, d # cur PROVE InOrder(d)'
    <2>1. /\ Sold(d)' <=> Sold(d)
          /\ \A m : Right(d, m) =>
               /\ m.kind = "refused" => ~Sold(d)'
               /\ m.kind = "id" /\ asked'[d].item \in Items =>
                    \E k \in DOMAIN sales' :
                      sales'[k] = [item |-> asked'[d].item, qty |-> asked'[d].qty, to |-> d]
               /\ m.kind = "id" /\ Sold(d)' => m.n \in DOMAIN sales' /\ sales'[m.n].to = d
      <3>1. CASE UNCHANGED sales
        BY <1>2, <3>1 DEF Sold, Right
      <3>2. CASE ~UNCHANGED sales
        BY <1>2, <1>3, <1>8, <3>2, SaleKeepsRight
      <3> QED BY <3>1, <3>2
    <2>2. Untouched(d)'
      BY <1>2, <1>5, <2>1 DEF ServiceInv, InOrder, Untouched
    <2>3. ToldTrue(d)'
      BY <1>2, <1>5, <2>1 DEF ServiceInv, InOrder, ToldTrue, Right
    <2>4. InStep(d)'
      BY <1>2, <1>5, <1>8, <2>1 DEF ServiceInv, InOrder, InStep, Live, AfterReply, Right
    <2> QED BY <2>2, <2>3, <2>4 DEF InOrder
  <1>9. ASSUME cur \in Clients PROVE InOrder(cur)'
    <2>1. ~Fresh(cur)' /\ ~Served(cur) /\ ~Served(cur)' /\ ~Sold(cur)
      BY <1>2, <1>5, <1>9 DEF ServiceInv, QueueOnce, Numbered, Served
    <2>2. told'[cur].kind = "nothing"
      BY <1>2, <1>9, <2>1 DEF ServiceInv, InOrder, ToldTrue
    <2>3. ASSUME Live(cur) PROVE AtReply(cur)'
      <3>1. AtOrder(cur) /\ cur # NULL
        BY <1>2, <1>9, <2>3, OrderAssumption DEF ServiceInv, InOrder, InStep
      <3>2. up[cur] # <<>>
        BY <2>3, <3>1 DEF Received, Live
      <3>3. up[cur] = <<asked[cur]>> /\ phase[cur] = "waiting"
        BY <1>9, <2>3, <3>2 DEF BooksInv, OrderedOnce, Live
      <3>4. down[cur] = <<>>
        BY <3>1, <3>3 DEF AtOrder
      <3>5. o = Buffered(asked[cur])
        BY <3>1, <3>2, <3>3 DEF Received
      <3>6. asked[cur].item \in Items => o = asked[cur]
        BY <3>5, OrderAssumption DEF Buffered
      <3>7. Right(cur, Answer)'
        <4>1. CASE CanBeMet(o)
          <5>1. /\ Len(sales) \in Nat /\ DOMAIN sales' = 1..(Len(sales) + 1)
                /\ sales'[Len(sales) + 1] = e
            BY <1>3, <1>4, <4>1, Appended
          <5>2. ~Refuses(o)
            BY <4>1 DEF CanBeMet, Refuses
          <5>3. Answer' = [kind |-> "id", n |-> Len(sales) + 1]
            BY <1>1, <1>3, <4>1, <5>2 DEF Answer, ServiceInv, Numbered
          <5>4. Len(sales) + 1 \in DOMAIN sales' /\ e.to = cur
            BY <5>1
          <5>5. asked[cur].item \in Items =>
                  e = [item |-> asked[cur].item, qty |-> asked[cur].qty, to |-> cur]
            BY <3>6
          <5> HIDE DEF e
          <5> QED BY <1>2, <5>1, <5>3, <5>4, <5>5 DEF Right
        <4>2. CASE ~CanBeMet(o)
          <5>1. UNCHANGED sales /\ ~Sold(cur)'
            BY <1>2, <1>3, <2>1, <4>2 DEF Sold
          <5>2. asked[cur].item \in Items => error' = TRUE
            BY <1>1, <3>6, <4>2 DEF CanBeMet, Refuses
          <5> QED BY <1>2, <5>1, <5>2 DEF Right, Answer
        <4> QED BY <4>1, <4>2
      <3> QED BY <1>2, <3>3, <3>4, <3>7 DEF AtReply
    <2> QED BY <1>2, <2>1, <2>2, <2>3 DEF InOrder, Untouched, ToldTrue, InStep, Live
  <1>10. \A c \in Clients : InOrder(c)'
    BY <1>2, <1>8, <1>9
  <1> QED BY <1>6, <1>7, <1>10 DEF ServiceInv

LEMMA ServiceStep == TypeOK /\ BooksInv /\ ServiceInv /\ [Next]_vars => ServiceInv'
  <1> SUFFICES ASSUME TypeOK, BooksInv, ServiceInv, [Next]_vars PROVE ServiceInv'
    OBVIOUS
  <1>1. ASSUME NEW c \in Clients, ClientStep(c) PROVE ServiceInv'
    BY <1>1, ClientService
  <1>2. CASE Server
    BY <1>2, AcceptService, AcceptFailsService, SendFirstService, SendSecondService,
       ReceiveOrderService, ReplyService DEF Server
  <1>3. CASE UNCHANGED vars
    <2>1. \A d \in Clients : (Fresh(d)' <=> Fresh(d)) /\ (Served(d)' <=> Served(d))
      BY <1>3 DEF vars, Fresh, Queued, Served
    <2>2. QueueOnce' /\ Numbered'
      BY <1>3, <2>1 DEF vars, ServiceInv, QueueOnce, Queued, Numbered, Sold
    <2>3. ASSUME NEW d \in Clients PROVE InOrder(d)'
      BY <1>3, <2>1, OthersInOrder DEF vars, ServiceInv
    <2> QED BY <2>2, <2>3 DEF ServiceInv
  <1> QED BY <1>1, <1>2, <1>3 DEF Next, ClientStep

LEMMA InitService == Init => ServiceInv
  <1> SUFFICES ASSUME Init PROVE ServiceInv
    OBVIOUS
  <1>1. backlog = <<>> /\ sales = <<>> /\ cur = NULL /\ transactionID = 0 /\ pc = "accept"
    BY DEF Init
  <1>2. \A c \in Clients : phase[c] = "idle" /\ down[c] = <<>> /\ told[c].kind = "nothing" /\ cur # c
    BY OrderAssumption DEF Init
  <1>3. \A c \in Clients : ~Queued(c) /\ ~Sold(c) /\ Fresh(c) /\ ~Served(c)
    BY <1>1, <1>2 DEF Queued, Sold, Fresh, Served
  <1>4. QueueOnce
    BY <1>1, <1>2, <1>3 DEF QueueOnce
  <1>5. Numbered
    BY <1>1, <1>3 DEF Numbered
  <1>6. \A c \in Clients : InOrder(c)
    BY <1>1, <1>2, <1>3 DEF InOrder, Untouched, InStep, ToldTrue
  <1> QED BY <1>4, <1>5, <1>6 DEF ServiceInv

\* What the invariants say of the customers.
LEMMA ToldRightHolds == TypeOK /\ ServiceInv => ToldRight
  <1> SUFFICES ASSUME TypeOK, ServiceInv PROVE ToldRight
    OBVIOUS
  <1>1. ShownStock
    <2> SUFFICES ASSUME NEW c \in Clients, phase[c] = "shown", pc # "exited", NEW f \in Items
                 PROVE  shown[c][f] \in {stock[f], GARBLED}
      BY DEF ShownStock
    <2>1. ShownRight(c, First) /\ ShownRight(c, Second)
      BY Whereabouts DEF TypeOK, Live, Ended, AfterReply, AtFirst, AtSecond, AtOrder, AtReply
    <2> QED BY <2>1, SecondItem DEF ShownRight
  <1>2. AnsweredRight
    BY DEF ServiceInv, InOrder, ToldTrue, Right, AnsweredRight
  <1>3. TransactionsDistinct
    BY DEF ServiceInv, InOrder, ToldTrue, Right, TransactionsDistinct
  <1> QED BY <1>1, <1>2, <1>3 DEF ToldRight

\* All a customer is told is right, in whatever order clients come, read and
\* leave: amounts that were read one by one are those of the stock when it
\* orders, "Quantity not available" means that nothing was sold to it, a number
\* that what it named was, and no two customers who bought have one number.
THEOREM CustomersToldRight == Spec => []ToldRight
  <1>1. TypeOK /\ BooksInv /\ ServiceInv /\ [Next]_vars => (TypeOK /\ BooksInv /\ ServiceInv)'
    BY TypeStep, BooksStep, ServiceStep
  <1> QED BY <1>1, InitType, InitBooks, InitService, ToldRightHolds, PTL DEF Spec
=============================================================================

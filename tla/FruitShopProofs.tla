--------------------------- MODULE FruitShopProofs ---------------------------
(***************************************************************************)
(* What TLAPS proves of FruitShop, for any clients, ports, fruits, orders  *)
(* and quantities.                                                         *)
(***************************************************************************)
EXTENDS FruitShop, SequenceTheorems, TLAPS

USE DEF clientVars, connVars, mainVars, saleVars, listVars

-----------------------------------------------------------------------------
(* Lemmas about the operators of purchase().                               *)

\* What a char holds is a char.
LEMMA AsCharRange == ASSUME NEW n \in Nat PROVE AsChar(n) \in -128..127
  BY DEF AsChar

\* Digits written over longer digits are a number of the longer width.
LEMMA OverlayNumber ==
  ASSUME NEW new \in Number, NEW old \in Number PROVE Overlay(new, old) \in Number
  <1>1. CASE old.w <= new.w
    BY <1>1 DEF Overlay
  <1>2. CASE old.w > new.w
    <2>1. old.w - new.w \in 1..4
      BY <1>2 DEF Number
    <2> DEFINE p == Pow10[old.w - new.w]
    <2>2. p \in {10, 100, 1000, 10000}
      BY <2>1 DEF Pow10
    <2>3. (new.n * p) + (old.n % p) \in Nat
      BY <2>2 DEF Number
    <2> HIDE DEF p
    <2>4. Overlay(new, old) = [n |-> (new.n * p) + (old.n % p), w |-> old.w]
      BY <1>2 DEF Overlay, Number, p
    <2> QED BY <2>3, <2>4 DEF Number
  <1> QED BY <1>1, <1>2 DEF Number

\* tolower keeps an order an order.
LEMMA LoweredOrder == ASSUME NEW o \in Orders PROVE Lowered(o) \in Order
  <1>1. o \in [name : Seq(Letters), qty : Number]
    BY ShopAssumption
  <1> DEFINE f == [k \in DOMAIN o.name |-> Lower[o.name[k]]]
  <1>2. f \in Seq(Letters)
    <2>1. o.name \in Seq(Letters) /\ DOMAIN o.name = 1..Len(o.name) /\ Len(o.name) \in Nat
      BY <1>1
    <2>2. \A k \in 1..Len(o.name) : Lower[o.name[k]] \in Letters
      BY <2>1, ShopAssumption
    <2> QED BY <2>1, <2>2
  <1>3. Lowered(o) = [o EXCEPT !.name = f]
    BY DEF Lowered
  <1> QED BY <1>1, <1>2, <1>3 DEF Order

-----------------------------------------------------------------------------
(* Types.                                                                  *)

\* The server starts with values of the right types.
LEMMA InitType == Init => TypeOK
  <1> SUFFICES ASSUME Init PROVE TypeOK
    OBVIOUS
  <1> USE ShopAssumption DEF Init
  <1>1. Msg("none", 0) \in Message
    BY DEF Msg, Message
  <1>2. Unmatched \in Order /\ EmptyText \in Order /\ NoDigits \in Number
    BY DEF Unmatched, EmptyText, NoDigits, Order, Number
  <1>3. ClientsOK
    BY <1>1 DEF ClientsOK, Ended
  <1>4. ConnectionsOK
    BY DEF ConnectionsOK
  <1>5. MainOK
    BY <1>2 DEF MainOK
  <1>6. ShopOK
    BY DEF ShopOK
  <1> QED BY <1>3, <1>4, <1>5, <1>6 DEF TypeOK

\* What read takes from a stream, and what it leaves, are sequences.
LEMMA SplitSeq ==
  ASSUME NEW S, NEW s \in Seq(S), NEW k \in 0..Len(s)
  PROVE  /\ SubSeq(s, k + 1, Len(s)) \in Seq(S)
         /\ SubSeq(s, 1, k) \in Seq(S) /\ Len(SubSeq(s, 1, k)) = k
  BY SubSeqProperties

\* The first of a sequence, and the rest.
LEMMA HeadTail ==
  ASSUME NEW S, NEW s \in Seq(S), s # <<>>
  PROVE  Head(s) \in S /\ s[1] \in S /\ Tail(s) \in Seq(S)
  OBVIOUS

\* The outcome of a read is a message.
LEMMA VerdictType == ASSUME NEW msgs \in Seq(Message) PROVE Verdict(msgs) \in Message
  <1>1. Msg("unknown", 0) \in Message
    BY DEF Msg, Message
  <1>2. Len(msgs) = 1 => msgs[1] \in Message
    OBVIOUS
  <1> QED BY <1>1, <1>2 DEF Verdict

\* write() queues a message or resets.
LEMMA WriteType ==
  ASSUME ConnectionsOK, cur \in Clients, NEW msg \in Message, Write(msg)
  PROVE  /\ down' \in [Clients -> Seq(Message)]
         /\ reset' \in [Clients -> BOOLEAN]
  <1>1. CASE phase[cur] \in Ended
    BY <1>1 DEF ConnectionsOK, Write
  <1>2. CASE phase[cur] \notin Ended
    <2>1. down[cur] \in Seq(Message)
      BY DEF ConnectionsOK
    <2>2. Append(down[cur], msg) \in Seq(Message)
      BY <2>1
    <2> QED BY <1>2, <2>2 DEF ConnectionsOK, Write
  <1> QED BY <1>1, <1>2

\* The end of a client is an end, with or without a reset.
LEMMA EndType ==
  ASSUME ClientsOK, ConnectionsOK, NEW c \in Clients, NEW how \in Ended, End(c, how)
  PROVE  /\ phase' \in [Clients -> {"idle", "connected", "counted", "waiting", "short"} \cup Ended]
         /\ reset' \in [Clients -> BOOLEAN]
  BY DEF ClientsOK, ConnectionsOK, End

\* Connect keeps the types.
LEMMA ConnectType == ASSUME TypeOK, NEW c \in Clients, Connect(c) PROVE TypeOK'
  <1> USE DEF TypeOK, Connect
  <1>1. ClientsOK'
    BY DEF ClientsOK, Ended
  <1>2. ConnectionsOK'
    BY DEF ConnectionsOK
  <1>3. MainOK'
    BY DEF MainOK
  <1>4. ShopOK'
    BY DEF ShopOK
  <1> QED BY <1>1, <1>2, <1>3, <1>4

\* ReadCount keeps the types.
LEMMA ReadCountType == ASSUME TypeOK, NEW c \in Clients, ReadCount(c) PROVE TypeOK'
  <1> USE DEF TypeOK, ReadCount
  <1>1. ClientsOK'
    BY DEF ClientsOK, Ended
  <1>2. ConnectionsOK'
    BY DEF ConnectionsOK
  <1>3. MainOK'
    BY DEF MainOK
  <1>4. ShopOK'
    BY DEF ShopOK
  <1> QED BY <1>1, <1>2, <1>3, <1>4

\* SendOrder keeps the types.
LEMMA SendOrderType == ASSUME TypeOK, NEW c \in Clients, SendOrder(c) PROVE TypeOK'
  <1> USE DEF TypeOK, SendOrder
  <1>1. ClientsOK'
    BY EndType DEF ClientsOK, Ended, Msg, Message
  <1>2. ConnectionsOK'
    BY EndType DEF ConnectionsOK, Ended, Msg, Message
  <1>3. MainOK'
    BY DEF MainOK
  <1>4. ShopOK'
    BY DEF ShopOK
  <1> QED BY <1>1, <1>2, <1>3, <1>4

\* ReadReply keeps the types.
LEMMA ReadReplyType == ASSUME TypeOK, NEW c \in Clients, ReadReply(c) PROVE TypeOK'
  <1> USE DEF TypeOK, ReadReply
  <1>1. PICK k \in 0..Len(down[c]) :
          /\ down' = [down EXCEPT ![c] = SubSeq(@, k + 1, Len(@))]
          /\ IF k = 1 /\ down[c][1].kind = "no_quan"
             THEN /\ phase' = [phase EXCEPT ![c] = "short"]
                  /\ UNCHANGED <<told, reset>>
             ELSE /\ told' = [told EXCEPT ![c] = Verdict(SubSeq(down[c], 1, k))]
                  /\ End(c, "closed")
    OBVIOUS
  <1>2. down[c] \in Seq(Message)
    BY DEF ConnectionsOK
  <1>3. /\ SubSeq(down[c], k + 1, Len(down[c])) \in Seq(Message)
        /\ SubSeq(down[c], 1, k) \in Seq(Message)
    BY <1>2, SplitSeq
  <1>4. Verdict(SubSeq(down[c], 1, k)) \in Message
    BY <1>3, VerdictType
  <1>5. /\ down' \in [Clients -> Seq(Message)]
        /\ told' \in [Clients -> Message]
    BY <1>1, <1>3, <1>4 DEF ClientsOK, ConnectionsOK
  <1>6. /\ phase' \in [Clients -> {"idle", "connected", "counted", "waiting", "short"} \cup Ended]
        /\ reset' \in [Clients -> BOOLEAN]
    <2>1. CASE k = 1 /\ down[c][1].kind = "no_quan"
      BY <1>1, <2>1 DEF ClientsOK, ConnectionsOK
    <2>2. CASE ~(k = 1 /\ down[c][1].kind = "no_quan")
      BY <1>1, <2>2, EndType DEF Ended
    <2> QED BY <2>1, <2>2
  <1>7. ClientsOK'
    BY <1>5, <1>6 DEF ClientsOK
  <1>8. ConnectionsOK'
    BY <1>5, <1>6 DEF ConnectionsOK
  <1>9. MainOK'
    BY DEF MainOK
  <1>10. ShopOK'
    BY DEF ShopOK
  <1> QED BY <1>7, <1>8, <1>9, <1>10

\* ReadQuantity keeps the types.
LEMMA ReadQuantityType == ASSUME TypeOK, NEW c \in Clients, ReadQuantity(c) PROVE TypeOK'
  <1> USE DEF TypeOK, ReadQuantity
  <1>1. ClientsOK'
    <2>1. down[c] # <<>> => Head(down[c]) \in Message
      BY HeadTail DEF ConnectionsOK
    <2>2. told'[c] \in Message
      BY <2>1 DEF ClientsOK, Msg, Message
    <2>3. told' \in [Clients -> Message]
      BY <2>2 DEF ClientsOK
    <2> QED BY <2>3, EndType DEF ClientsOK, Ended
  <1>2. ConnectionsOK'
    BY EndType DEF ConnectionsOK, Ended, Msg, Message
  <1>3. MainOK'
    BY DEF MainOK
  <1>4. ShopOK'
    BY DEF ShopOK
  <1> QED BY <1>1, <1>2, <1>3, <1>4

\* ReadFails keeps the types.
LEMMA ReadFailsType == ASSUME TypeOK, NEW c \in Clients, ReadFails(c) PROVE TypeOK'
  <1> USE DEF TypeOK, ReadFails
  <1>1. ClientsOK'
    BY EndType DEF ClientsOK, Ended, Msg, Message
  <1>2. ConnectionsOK'
    BY EndType DEF ConnectionsOK, Ended, Msg, Message
  <1>3. MainOK'
    BY DEF MainOK
  <1>4. ShopOK'
    BY DEF ShopOK
  <1> QED BY <1>1, <1>2, <1>3, <1>4

\* Kill keeps the types.
LEMMA KillType == ASSUME TypeOK, NEW c \in Clients, Kill(c) PROVE TypeOK'
  <1> USE DEF TypeOK, Kill
  <1>1. ClientsOK'
    BY EndType DEF ClientsOK, Ended, Msg, Message
  <1>2. ConnectionsOK'
    BY EndType DEF ConnectionsOK, Ended, Msg, Message
  <1>3. MainOK'
    BY DEF MainOK
  <1>4. ShopOK'
    BY DEF ShopOK
  <1> QED BY <1>1, <1>2, <1>3, <1>4

\* Accept keeps the types.
LEMMA AcceptType == ASSUME TypeOK, Accept PROVE TypeOK'
  <1> USE ShopAssumption DEF TypeOK, Accept
  <1>1. Head(backlog) \in Clients /\ Tail(backlog) \in Seq(Clients)
    BY HeadTail DEF ConnectionsOK
  <1>2. ClientsOK'
    BY DEF ClientsOK, Ended
  <1>3. ConnectionsOK'
    <2>1. nOpen' \in 0..MaxFd
      BY DEF ConnectionsOK
    <2>2. dropped' \in [Clients -> BOOLEAN]
      BY <1>1 DEF ConnectionsOK
    <2> QED BY <1>1, <2>1, <2>2 DEF ConnectionsOK
  <1>4. MainOK'
    <2>1. CASE clientLen = "negative"
      BY <2>1 DEF MainOK
    <2>2. CASE clientLen # "negative"
      <3>1. cur' \in Clients /\ nOpen' > 0 /\ pc' = "count" /\ clientLen' = "full"
        BY <1>1, <2>2 DEF ConnectionsOK
      <3>2. cad' \in Addresses \cup {NULL}
        BY <1>1, <2>2 DEF Addresses
      <3> QED BY <3>1, <3>2 DEF MainOK
    <2> QED BY <2>1, <2>2
  <1>5. ShopOK'
    BY DEF ShopOK
  <1> QED BY <1>2, <1>3, <1>4, <1>5

\* WriteCount keeps the types.
LEMMA WriteCountType == ASSUME TypeOK, WriteCount PROVE TypeOK'
  <1> USE DEF TypeOK, WriteCount
  <1>1. ClientsOK'
    BY DEF ClientsOK, Ended
  <1>2. ConnectionsOK'
    BY WriteType DEF ConnectionsOK, MainOK, ShopOK, Msg, Message
  <1>3. MainOK'
    BY DEF MainOK
  <1>4. ShopOK'
    BY DEF ShopOK
  <1> QED BY <1>1, <1>2, <1>3, <1>4

\* ReadOrder keeps the types.
LEMMA ReadOrderType == ASSUME TypeOK, ReadOrder PROVE TypeOK'
  <1> USE DEF TypeOK, ReadOrder
  <1>1. cur \in Clients
    BY DEF MainOK
  <1>2. order' \in Order
    <2>1. CASE up[cur] # <<>>
      <3>1. up[cur][1] \in Orders
        BY <1>1, <2>1, HeadTail DEF ConnectionsOK
      <3> QED BY <2>1, <3>1, LoweredOrder
    <2>2. CASE up[cur] = <<>>
      <3>1. EmptyText \in Order /\ Unmatched \in Order
        BY DEF EmptyText, Unmatched, Order, Number
      <3> QED BY <2>2, <3>1 DEF MainOK
    <2> QED BY <2>1, <2>2
  <1>3. ClientsOK'
    BY DEF ClientsOK, Ended
  <1>4. ConnectionsOK'
    <2>1. up' \in [Clients -> Seq(Orders)]
      BY <1>1 DEF ConnectionsOK
    <2> QED BY <2>1 DEF ConnectionsOK
  <1>5. MainOK'
    BY <1>2 DEF MainOK
  <1>6. ShopOK'
    BY DEF ShopOK
  <1> QED BY <1>3, <1>4, <1>5, <1>6

\* ReadOrderFails keeps the types.
LEMMA ReadOrderFailsType == ASSUME TypeOK, ReadOrderFails PROVE TypeOK'
  <1> USE DEF TypeOK, ReadOrderFails
  <1>1. ClientsOK'
    BY DEF ClientsOK, Ended
  <1>2. ConnectionsOK'
    <2>1. nOpen > 0 /\ nOpen \in 0..MaxFd /\ MaxFd \in Nat
      BY ShopAssumption DEF MainOK, ConnectionsOK
    <2>2. nOpen' \in 0..MaxFd
      BY <2>1
    <2> QED BY <2>2 DEF ConnectionsOK
  <1>3. MainOK'
    BY DEF MainOK
  <1>4. ShopOK'
    BY DEF ShopOK
  <1> QED BY <1>1, <1>2, <1>3, <1>4

\* Purchase keeps the types.
LEMMA PurchaseType == ASSUME TypeOK, Purchase PROVE TypeOK'
  <1> USE DEF TypeOK
  <1>1. ClientsOK' /\ ConnectionsOK'
    BY DEF Purchase, ClientsOK, ConnectionsOK, Ended
  <1>2. CASE \A f \in Fruits : ~Matches(order, f)
    <2>1. \A f \in Fruits : ~FirstMatch(order, f)
      BY <1>2 DEF FirstMatch
    <2>2. i' = -2 /\ UNCHANGED <<quan, stock, sales>>
      BY <2>1 DEF Purchase, NoFruit
    <2>3. MainOK'
      BY <2>2 DEF Purchase, MainOK
    <2>4. ShopOK'
      BY <2>2 DEF Purchase, ShopOK
    <2> QED BY <1>1, <2>3, <2>4
  <1>3. CASE \E f \in Fruits : Matches(order, f)
    <2>1. PICK f \in Fruits, old \in {quan, NoDigits} :
            /\ quan' = Overlay(order.qty, old)
            /\ IF Enough(f, quan'.n)
               THEN /\ stock' = [stock EXCEPT ![f] = @ - quan'.n]
                    /\ sales' = Append(sales, [item |-> f, qty |-> quan'.n,
                                              to |-> cur, by |-> cad])
                    /\ i' = Success
               ELSE i' = AsChar(stock[f]) /\ UNCHANGED <<stock, sales>>
      BY <1>3 DEF Purchase
    <2>2. quan' \in Number /\ quan'.n \in Nat
      <3>1. order.qty \in Number /\ old \in Number
        BY DEF MainOK, Order, NoDigits, Number
      <3>2. quan' \in Number
        BY <2>1, <3>1, OverlayNumber
      <3> QED BY <3>2 DEF Number
    <2>3. stock[f] \in Nat /\ cur \in Clients /\ cad \in Addresses \cup {NULL}
      BY DEF Purchase, MainOK, ShopOK
    <2>4. MainOK'
      <3>1. i' \in -128..127
        <4>1. AsChar(stock[f]) \in -128..127
          BY <2>3, AsCharRange
        <4>2. Success \in -128..127
          BY DEF Success
        <4> QED BY <2>1, <4>1, <4>2
      <3> QED BY <2>2, <3>1 DEF Purchase, MainOK
    <2>5. ShopOK'
      <3>1. CASE Enough(f, quan'.n)
        <4>1. stock[f] - quan'.n \in Nat
          BY <2>2, <2>3, <3>1 DEF Enough
        <4>2. stock' \in [Fruits -> Nat]
          BY <2>1, <3>1, <4>1 DEF ShopOK
        <4>3. [item |-> f, qty |-> quan'.n, to |-> cur, by |-> cad] \in Sale
          BY <2>2, <2>3 DEF Sale
        <4>4. sales' \in Seq(Sale)
          <5>1. PICK e \in Sale : sales' = Append(sales, e)
            BY <2>1, <3>1, <4>3
          <5>2. sales \in Seq(Sale)
            BY DEF ShopOK
          <5> QED BY <5>1, <5>2
        <4> QED BY <4>2, <4>4 DEF ShopOK, Purchase
      <3>2. CASE ~Enough(f, quan'.n)
        BY <2>1, <3>2 DEF ShopOK, Purchase
      <3> QED BY <3>1, <3>2
    <2> QED BY <1>1, <2>4, <2>5
  <1> QED BY <1>2, <1>3

\* Reply keeps the types.
LEMMA ReplyType == ASSUME TypeOK, Reply PROVE TypeOK'
  <1> USE DEF TypeOK, Reply
  <1>1. ClientsOK'
    BY DEF ClientsOK, Ended
  <1>2. ConnectionsOK'
    BY WriteType DEF ConnectionsOK, MainOK, ShopOK, Msg, Message
  <1>3. MainOK'
    BY DEF MainOK
  <1>4. ShopOK'
    <2>1. CASE UNCHANGED <<head, uniqueConn>>
      BY <2>1 DEF ShopOK
    <2>2. CASE Enlist
      <3>1. CASE Search
        BY <2>2, <3>1 DEF Enlist, ShopOK
      <3>2. CASE ~Search
        <4>1. head' = Append(head, cad) /\ uniqueConn' = uniqueConn + 1
          BY <2>2, <3>2 DEF Enlist
        <4>2. head \in Seq(Addresses \cup {NULL}) /\ cad \in Addresses \cup {NULL}
          BY DEF ShopOK, MainOK
        <4>3. head' \in Seq(Addresses \cup {NULL})
          BY <4>1, <4>2
        <4> QED BY <4>1, <4>3 DEF ShopOK
      <3> QED BY <3>1, <3>2
    <2> QED BY <2>1, <2>2
  <1> QED BY <1>1, <1>2, <1>3, <1>4

\* SendLeft keeps the types.
LEMMA SendLeftType == ASSUME TypeOK, SendLeft PROVE TypeOK'
  <1> USE DEF TypeOK, SendLeft
  <1>1. ClientsOK'
    BY DEF ClientsOK, Ended
  <1>2. ConnectionsOK'
    BY WriteType DEF ConnectionsOK, MainOK, ShopOK, Msg, Message
  <1>3. MainOK'
    BY DEF MainOK
  <1>4. ShopOK'
    BY DEF ShopOK
  <1> QED BY <1>1, <1>2, <1>3, <1>4

\* BrokenPipe keeps the types.
LEMMA BrokenPipeType == ASSUME TypeOK, BrokenPipe PROVE TypeOK'
  <1> USE DEF TypeOK, BrokenPipe, ServerEnds
  <1>1. ClientsOK'
    BY DEF ClientsOK, Ended
  <1>2. ConnectionsOK'
    BY DEF ConnectionsOK
  <1>3. MainOK'
    BY DEF MainOK
  <1>4. ShopOK'
    BY DEF ShopOK
  <1> QED BY <1>1, <1>2, <1>3, <1>4

\* Interrupt keeps the types.
LEMMA InterruptType == ASSUME TypeOK, Interrupt PROVE TypeOK'
  <1> USE DEF TypeOK, Interrupt
  <1>1. ClientsOK'
    BY DEF ClientsOK, Ended
  <1>2. ConnectionsOK'
    BY DEF ConnectionsOK
  <1>3. MainOK'
    BY DEF MainOK
  <1>4. ShopOK'
    BY DEF ShopOK
  <1> QED BY <1>1, <1>2, <1>3, <1>4

\* ServerExit keeps the types.
LEMMA ServerExitType == ASSUME TypeOK, ServerExit PROVE TypeOK'
  <1> USE DEF TypeOK, ServerExit, ServerEnds
  <1>1. ClientsOK'
    BY DEF ClientsOK, Ended
  <1>2. ConnectionsOK'
    BY DEF ConnectionsOK
  <1>3. MainOK'
    BY DEF MainOK
  <1>4. ShopOK'
    BY DEF ShopOK
  <1> QED BY <1>1, <1>2, <1>3, <1>4

\* Every step keeps the types.
LEMMA TypeStep == TypeOK /\ [Next]_vars => TypeOK'
  <1> SUFFICES ASSUME TypeOK, [Next]_vars PROVE TypeOK'
    OBVIOUS
  <1>1. ASSUME NEW c \in Clients, Connect(c) \/ ClientProgram(c) \/ Kill(c) PROVE TypeOK'
    BY <1>1, ConnectType, ReadCountType, SendOrderType, ReadReplyType, ReadQuantityType,
       ReadFailsType, KillType DEF ClientProgram
  <1>2. CASE Accept \/ HandleConnection \/ Interrupt \/ ServerExit
    BY <1>2, AcceptType, WriteCountType, ReadOrderType, ReadOrderFailsType, PurchaseType,
       ReplyType, SendLeftType, BrokenPipeType, InterruptType, ServerExitType DEF HandleConnection
  <1>3. CASE UNCHANGED vars
    BY <1>3 DEF vars, TypeOK, ClientsOK, ConnectionsOK, MainOK, ShopOK
  <1> QED BY <1>1, <1>2, <1>3 DEF Next

\* Every variable keeps its type: in particular no quantity in stock is ever
\* negative, and what purchase returns fits into the char it is put in.
THEOREM ShopTypeCorrect == Spec => []TypeOK
  BY InitType, TypeStep, PTL DEF Spec
-----------------------------------------------------------------------------
(* Stock.                                                                  *)

\* The record of one more sale is the record of the sales with one more.
Record(ss) == [k \in DOMAIN ss |-> [item |-> ss[k].item, qty |-> ss[k].qty]]

LEMMA RecordAppend ==
  ASSUME NEW ss \in Seq(Sale), NEW e \in Sale
  PROVE  Record(Append(ss, e)) = Append(Record(ss), [item |-> e.item, qty |-> e.qty])
  <1> DEFINE T == [item : Fruits, qty : Nat]
  <1>1. Record(ss) \in Seq(T) /\ Len(Record(ss)) = Len(ss)
    <2>1. ASSUME NEW k \in 1..Len(ss) PROVE [item |-> ss[k].item, qty |-> ss[k].qty] \in T
      <3>1. ss[k] \in Sale
        OBVIOUS
      <3> QED BY <3>1 DEF Sale
    <2>2. DOMAIN ss = 1..Len(ss) /\ Len(ss) \in Nat
      OBVIOUS
    <2>3. Record(ss) = [k \in 1..Len(ss) |-> [item |-> ss[k].item, qty |-> ss[k].qty]]
      BY <2>2 DEF Record
    <2> QED BY <2>1, <2>2, <2>3
  <1>2. [item |-> e.item, qty |-> e.qty] \in T
    BY DEF Sale
  <1> DEFINE l == Record(Append(ss, e))
             r == Append(Record(ss), [item |-> e.item, qty |-> e.qty])
  <1>3. r \in Seq(T) /\ Len(r) = Len(ss) + 1
    BY <1>1, <1>2
  <1>4. DOMAIN l = 1..(Len(ss) + 1) /\ DOMAIN r = 1..(Len(ss) + 1)
    BY <1>3 DEF Record
  <1>5. ASSUME NEW k \in 1..(Len(ss) + 1) PROVE l[k] = r[k]
    <2>1. CASE k = Len(ss) + 1
      BY <1>1, <1>2, <2>1 DEF Record
    <2>2. CASE k # Len(ss) + 1
      <3>1. k \in 1..Len(ss)
        BY <2>2
      <3>2. Append(ss, e)[k] = ss[k] /\ r[k] = Record(ss)[k]
        BY <1>1, <1>2, <3>1
      <3> QED BY <3>1, <3>2 DEF Record
    <2> QED BY <2>1, <2>2
  <1>6. l = [k \in 1..(Len(ss) + 1) |-> l[k]] /\ r = [k \in 1..(Len(ss) + 1) |-> r[k]]
    <2>1. l = [k \in DOMAIN l |-> l[k]]
      BY DEF Record
    <2>2. r = [k \in DOMAIN r |-> r[k]]
      BY <1>3
    <2> QED BY <1>4, <2>1, <2>2
  <1> HIDE DEF l, r
  <1>7. l = r
    BY <1>5, <1>6
  <1> QED BY <1>7 DEF l, r

\* Only purchase() changes the stock or sells.
LEMMA OnlyPurchase == ASSUME [Next]_vars PROVE Purchase \/ UNCHANGED <<stock, sales>>
  <1>1. ASSUME NEW c \in Clients, Connect(c) \/ ClientProgram(c) \/ Kill(c)
        PROVE  UNCHANGED <<stock, sales>>
    BY <1>1 DEF Connect, ClientProgram, ReadCount, SendOrder, ReadReply, ReadQuantity,
                ReadFails, Kill
  <1>2. CASE Accept \/ Interrupt \/ ServerExit
    BY <1>2 DEF Accept, Interrupt, ServerExit, ServerEnds
  <1>3. CASE HandleConnection
    BY <1>3 DEF HandleConnection, WriteCount, ReadOrder, ReadOrderFails, Reply, SendLeft,
                BrokenPipe, ServerEnds
  <1>4. CASE UNCHANGED vars
    BY <1>4 DEF vars
  <1> QED BY <1>1, <1>2, <1>3, <1>4 DEF Next

\* What purchase() does, in short: nothing that is sold, or one sale to the
\* client that is served, and then success.
LEMMA PurchaseSells ==
  ASSUME TypeOK, Purchase
  PROVE  \/ UNCHANGED <<stock, sales>>
         \/ \E f \in Fruits, q \in Nat :
              /\ q <= stock[f] /\ i' = Success
              /\ stock' = [stock EXCEPT ![f] = @ - q]
              /\ sales' = Append(sales, [item |-> f, qty |-> q, to |-> cur, by |-> cad])
  <1>1. CASE \A f \in Fruits : ~Matches(order, f)
    BY <1>1 DEF Purchase, FirstMatch
  <1>2. CASE \E f \in Fruits : Matches(order, f)
    <2>1. PICK f \in Fruits :
            IF Enough(f, quan'.n)
            THEN /\ stock' = [stock EXCEPT ![f] = @ - quan'.n]
                 /\ sales' = Append(sales, [item |-> f, qty |-> quan'.n,
                                           to |-> cur, by |-> cad])
                 /\ i' = Success
            ELSE UNCHANGED <<stock, sales>>
      BY <1>2 DEF Purchase
    <2>2. quan'.n \in Nat
      BY PurchaseType DEF TypeOK, MainOK, Number
    <2>3. Enough(f, quan'.n) => quan'.n <= stock[f]
      BY <2>2 DEF Enough, TypeOK, ShopOK
    <2> QED BY <2>1, <2>2, <2>3
  <1> QED BY <1>1, <1>2

\* A step of the server is a sale of the abstract shop, or changes nothing.
LEMMA ShopStep ==
  ASSUME TypeOK, [Next]_vars PROVE [Stock!Next]_(Stock!shopVars)
  <1>1. CASE UNCHANGED <<stock, sales>>
    BY <1>1 DEF Stock!shopVars
  <1>2. ASSUME NEW f \in Fruits, NEW q \in Nat, q <= stock[f], Purchase,
               stock' = [stock EXCEPT ![f] = @ - q],
               sales' = Append(sales, [item |-> f, qty |-> q, to |-> cur, by |-> cad])
        PROVE  Stock!Sell(f)
    <2>1. stock[f] \in Nat /\ stock'[f] = stock[f] - q
      BY <1>2 DEF TypeOK, ShopOK
    <2>2. [item |-> f, qty |-> q, to |-> cur, by |-> cad] \in Sale /\ sales \in Seq(Sale)
      BY <1>2 DEF Purchase, TypeOK, MainOK, ShopOK, Sale
    <2>3. q = stock[f] - stock'[f]
      BY <1>2, <2>1
    <2>4. Record(sales') = Append(Record(sales), [item |-> f, qty |-> q])
      BY <1>2, <2>2, RecordAppend
    <2>5. Record(sales') = Append(Record(sales), [item |-> f, qty |-> stock[f] - stock'[f]])
      BY <2>3, <2>4
    <2>6. stock' = [stock EXCEPT ![f] = @ - (stock[f] - stock'[f])]
      BY <1>2, <2>3
    <2>7. stock[f] - stock'[f] >= 0 /\ stock[f] - stock'[f] <= stock[f]
      BY <1>2, <2>1
    <2> QED BY <2>5, <2>6, <2>7 DEF Stock!Sell, Record
  <1> QED BY <1>1, <1>2, OnlyPurchase, PurchaseSells DEF Stock!Next

\* The stock of the server is that of the abstract shop: it goes down by
\* sales on record only, and never below zero, whatever is left on the stack
\* and wherever clients or the server are stopped.
THEOREM ImplementsShop == Spec => ShopSpec
  <1>1. Init => Stock!Init
    BY ShopAssumption DEF Init, Stock!Init
  <1>2. TypeOK /\ [Next]_vars => [Stock!Next]_(Stock!shopVars)
    BY ShopStep
  <1> QED BY <1>1, <1>2, ShopTypeCorrect, PTL DEF Spec, ShopSpec, Stock!Spec

-----------------------------------------------------------------------------
(* The list of customers.                                                  *)

\* A sequence with one more element: what is where.
LEMMA Appended ==
  ASSUME NEW S, NEW s \in Seq(S), NEW e \in S
  PROVE  /\ Append(s, e) \in Seq(S) /\ Len(Append(s, e)) = Len(s) + 1 /\ Len(s) \in Nat
         /\ DOMAIN s = 1..Len(s) /\ DOMAIN Append(s, e) = 1..(Len(s) + 1)
         /\ \A k \in 1..Len(s) : Append(s, e)[k] = s[k]
         /\ Append(s, e)[Len(s) + 1] = e
  OBVIOUS

\* Only insert, called for who is not found, changes the list.
LEMMA OnlyEnlist ==
  ASSUME [Next]_vars
  PROVE  UNCHANGED listVars \/ (Reply /\ i < 0 /\ i # NoFruit /\ Enlist)
  <1>1. ASSUME NEW c \in Clients, Connect(c) \/ ClientProgram(c) \/ Kill(c)
        PROVE  UNCHANGED listVars
    BY <1>1 DEF Connect, ClientProgram, ReadCount, SendOrder, ReadReply, ReadQuantity,
                ReadFails, Kill
  <1>2. CASE Accept \/ Interrupt \/ ServerExit
    BY <1>2 DEF Accept, Interrupt, ServerExit, ServerEnds
  <1>3. CASE HandleConnection
    BY <1>3 DEF HandleConnection, WriteCount, ReadOrder, ReadOrderFails, Purchase, Reply,
                SendLeft, BrokenPipe, ServerEnds
  <1>4. CASE UNCHANGED vars
    BY <1>4 DEF vars
  <1> QED BY <1>1, <1>2, <1>3, <1>4 DEF Next

\* What insert does to the list: the address served is in it afterwards, once.
LEMMA EnlistAdds ==
  ASSUME TypeOK, cad \in Addresses \cup {NULL}, Enlist
  PROVE  /\ CustomersOnce => CustomersOnce'
         /\ cad \in ToSet(head')
         /\ ToSet(head) \subseteq ToSet(head')
  <1>1. CASE Search
    BY <1>1 DEF Enlist, Search, ToSet, CustomersOnce
  <1>2. CASE ~Search
    <2>1. head' = Append(head, cad) /\ uniqueConn' = uniqueConn + 1
      BY <1>2 DEF Enlist
    <2>2. head \in Seq(Addresses \cup {NULL}) /\ uniqueConn \in Nat
      BY DEF TypeOK, ShopOK
    <2>3. /\ Len(head') = Len(head) + 1 /\ Len(head) \in Nat
          /\ DOMAIN head = 1..Len(head) /\ DOMAIN head' = 1..(Len(head) + 1)
          /\ \A k \in 1..Len(head) : head'[k] = head[k]
          /\ head'[Len(head) + 1] = cad
      <3> HIDE DEF Addresses
      <3> QED BY <2>1, <2>2, Appended
    <2>4. \A k \in 1..Len(head) : head[k] # cad
      BY <1>2, <2>3 DEF Search
    <2>5. ASSUME CustomersOnce, NEW j \in DOMAIN head', NEW k \in DOMAIN head', j # k
          PROVE  head'[j] # head'[k]
      BY <2>3, <2>4, <2>5 DEF CustomersOnce
    <2>6. CustomersOnce => CustomersOnce'
      BY <2>1, <2>3, <2>5 DEF CustomersOnce
    <2>7. cad \in ToSet(head') /\ ToSet(head) \subseteq ToSet(head')
      BY <2>3 DEF ToSet
    <2> QED BY <2>6, <2>7
  <1> QED BY <1>1, <1>2

\* No address is listed twice, and the number of customers the server sends
\* is the length of its list.
THEOREM CustomersUnique == Spec => []CustomersOnce
  <1>1. Init => CustomersOnce
    BY DEF Init, CustomersOnce
  <1>2. TypeOK /\ CustomersOnce /\ [Next]_vars => CustomersOnce'
    <2> SUFFICES ASSUME TypeOK, CustomersOnce, [Next]_vars PROVE CustomersOnce'
      OBVIOUS
    <2>1. CASE UNCHANGED listVars
      BY <2>1 DEF CustomersOnce
    <2>2. CASE Enlist
      BY <2>2, EnlistAdds DEF TypeOK, MainOK
    <2> QED BY <2>1, <2>2, OnlyEnlist
  <1> QED BY <1>1, <1>2, ShopTypeCorrect, PTL DEF Spec

\* Whoever bought is listed, or its done is being written, or the server has
\* ended before that.
ListInv == \A k \in DOMAIN sales :
             \/ sales[k].by \in ToSet(head) \/ pc \in {"asking", "exited"}
             \/ pc = "reply" /\ i = Success /\ sales[k].by = cad

\* Nobody is taken off the list.
LEMMA ListGrows ==
  ASSUME TypeOK, [Next]_vars PROVE ToSet(head) \subseteq ToSet(head')
  BY OnlyEnlist, EnlistAdds DEF TypeOK, MainOK, ToSet

\* purchase() sells to the client whose answer comes next.
LEMMA PurchaseLists == ASSUME TypeOK, ListInv, Purchase PROVE ListInv'
  <1>1. pc = "purchase" /\ pc' = "reply" /\ cad' = cad /\ head' = head
    BY DEF Purchase
  <1>2. \A k \in DOMAIN sales : sales[k].by \in ToSet(head)
    BY <1>1 DEF ListInv
  <1>3. CASE UNCHANGED <<stock, sales>>
    BY <1>1, <1>2, <1>3 DEF ListInv, ToSet
  <1>4. ASSUME NEW f \in Fruits, NEW q \in Nat, i' = Success,
               sales' = Append(sales, [item |-> f, qty |-> q, to |-> cur, by |-> cad])
        PROVE  ListInv'
    <2> DEFINE e == [item |-> f, qty |-> q, to |-> cur, by |-> cad]
    <2>1. sales \in Seq(Sale) /\ e \in Sale
      BY <1>1 DEF TypeOK, ShopOK, MainOK, Sale
    <2> HIDE DEF e
    <2>2. /\ DOMAIN sales = 1..Len(sales) /\ DOMAIN sales' = 1..(Len(sales) + 1)
          /\ \A k \in 1..Len(sales) : sales'[k] = sales[k]
          /\ sales'[Len(sales) + 1] = e /\ Len(sales) \in Nat
      BY <1>4, <2>1, Appended DEF e
    <2>3. e.by = cad
      BY DEF e
    <2>4. ASSUME NEW k \in DOMAIN sales'
          PROVE  sales'[k].by \in ToSet(head') \/ sales'[k].by = cad'
      BY <1>1, <1>2, <2>2, <2>3, <2>4 DEF ToSet
    <2>5. Success' = Success
      BY DEF Success
    <2> QED BY <1>1, <1>4, <2>4, <2>5 DEF ListInv
  <1> QED BY <1>3, <1>4, PurchaseSells

\* Every step keeps ListInv.
LEMMA ListStep == ASSUME TypeOK, ListInv, [Next]_vars PROVE ListInv'
  <1> USE DEF Success
  <1>1. ASSUME NEW c \in Clients, Connect(c) \/ ClientProgram(c) \/ Kill(c)
        PROVE  UNCHANGED <<pc, i, cad, head, sales>>
    BY <1>1 DEF Connect, ClientProgram, ReadCount, SendOrder, ReadReply, ReadQuantity,
                ReadFails, Kill
  <1>2. CASE Accept
    BY <1>2 DEF Accept, ListInv, ToSet
  <1>3. CASE Interrupt \/ ServerExit \/ BrokenPipe
    BY <1>3 DEF Interrupt, ServerExit, BrokenPipe, ServerEnds, ListInv, ToSet
  <1>4. CASE WriteCount \/ ReadOrder \/ ReadOrderFails \/ SendLeft
    BY <1>4 DEF WriteCount, ReadOrder, ReadOrderFails, SendLeft, ListInv, ToSet
  <1>5. CASE Reply
    <2>1. ToSet(head) \subseteq ToSet(head')
      BY <1>5, ListGrows
    <2>2. sales' = sales /\ cad' = cad /\ pc = "reply"
      BY <1>5 DEF Reply
    <2>3. i = Success => cad \in ToSet(head')
      BY <1>5, EnlistAdds DEF Reply, NoFruit, TypeOK, MainOK
    <2> QED BY <2>1, <2>2, <2>3 DEF ListInv
  <1>6. CASE UNCHANGED <<pc, i, cad, head, sales>>
    BY <1>6 DEF ListInv, ToSet
  <1>7. UNCHANGED vars => UNCHANGED <<pc, i, cad, head, sales>>
    BY DEF vars
  <1> QED BY <1>1, <1>2, <1>3, <1>4, <1>5, <1>6, <1>7, PurchaseLists DEF Next, HandleConnection

\* When the server waits for the next customer, the address of everybody it
\* sold something to is in its list.
THEOREM CustomersListed == Spec => []SalesListed
  <1>1. Init => ListInv
    BY DEF Init, ListInv
  <1>2. TypeOK /\ ListInv /\ [Next]_vars => ListInv'
    BY ListStep
  <1>3. ListInv => SalesListed
    BY DEF ListInv, SalesListed
  <1> QED BY <1>1, <1>2, <1>3, ShopTypeCorrect, PTL DEF Spec

-----------------------------------------------------------------------------
(* Refusals.                                                               *)

Serving == pc \notin {"accept", "asking", "exited"}

Unsold(c) == \A k \in DOMAIN sales : sales[k].to # c

\* c was refused, or will read that it is.
Refused(c) ==
  \/ told[c].kind \in {"warned", "no_fruit"} \/ phase[c] = "short"
  \/ \E k \in DOMAIN down[c] : down[c][k].kind \in {"no_quan", "no_fruit"}

Queued(c) == \E k \in DOMAIN backlog : backlog[k] = c

\* A client has one turn: it is in the queue once and never comes back.
TurnInv ==
  /\ \A j, k \in DOMAIN backlog : backlog[j] = backlog[k] => j = k
  /\ \A c \in Clients : phase[c] = "idle" \/ Queued(c) =>
       Unsold(c) /\ ~Refused(c) /\ ~(Serving /\ cur = c)
  /\ \A c \in Clients : phase[c] = "idle" => ~Queued(c)

\* In its turn it is either sold something or refused.
OutcomeInv ==
  /\ pc \in {"count", "read", "purchase"} => Unsold(cur) /\ ~Refused(cur)
  /\ pc = "reply" /\ i # Success => Unsold(cur)
  /\ pc = "left" => Unsold(cur)
  /\ \A c \in Clients : Refused(c) => Unsold(c)

\* The two parts of a sequence: what is where.
LEMMA Cut ==
  ASSUME NEW S, NEW s \in Seq(S), NEW k \in 0..Len(s)
  PROVE  /\ SubSeq(s, 1, k) \in Seq(S) /\ DOMAIN SubSeq(s, 1, k) = 1..k
         /\ \A j \in 1..k : SubSeq(s, 1, k)[j] = s[j] /\ j \in DOMAIN s
         /\ DOMAIN SubSeq(s, k + 1, Len(s)) = 1..(Len(s) - k)
         /\ \A j \in 1..(Len(s) - k) :
              SubSeq(s, k + 1, Len(s))[j] = s[j + k] /\ j + k \in DOMAIN s
  <1>1. Len(s) \in Nat /\ k \in Nat /\ k <= Len(s) /\ DOMAIN s = 1..Len(s)
    OBVIOUS
  <1>2. SubSeq(s, 1, k) \in Seq(S) /\ Len(SubSeq(s, 1, k)) = k
    BY <1>1
  <1>3. DOMAIN SubSeq(s, 1, k) = 1..k
    BY <1>1, <1>2
  <1>4. ASSUME NEW j \in 1..k PROVE SubSeq(s, 1, k)[j] = s[j] /\ j \in DOMAIN s
    BY <1>1
  <1>5. DOMAIN SubSeq(s, k + 1, Len(s)) = 1..(Len(s) - k)
    BY <1>1
  <1>6. ASSUME NEW j \in 1..(Len(s) - k)
        PROVE  SubSeq(s, k + 1, Len(s))[j] = s[j + k] /\ j + k \in DOMAIN s
    BY <1>1
  <1> QED BY <1>2, <1>3, <1>4, <1>5, <1>6

\* What client.c tells its user it was refused, it was sent.
LEMMA VerdictRead ==
  ASSUME NEW msgs \in Seq(Message), Verdict(msgs).kind \in {"warned", "no_fruit"}
  PROVE  \E k \in DOMAIN msgs : msgs[k].kind \in {"no_quan", "no_fruit"}
  <1>1. CASE Len(msgs) = 1 /\ msgs[1].kind \in {"no_fruit", "done"}
    BY <1>1 DEF Verdict
  <1>2. CASE ~(Len(msgs) = 1 /\ msgs[1].kind \in {"no_fruit", "done"})
    BY <1>2 DEF Verdict, Msg
  <1> QED BY <1>1, <1>2

\* A client program refuses itself nothing: what it is told was sent before.
LEMMA ReplyNoRefusal ==
  ASSUME TypeOK, NEW c \in Clients, ReadReply(c), NEW d \in Clients, Refused(d)'
  PROVE  Refused(d)
  <1>1. CASE d # c
    BY <1>1 DEF ReadReply, End, Refused, TypeOK, ClientsOK, ConnectionsOK
  <1>2. CASE d = c
    <2>1. PICK k \in 0..Len(down[c]) :
            /\ down' = [down EXCEPT ![c] = SubSeq(@, k + 1, Len(@))]
            /\ IF k = 1 /\ down[c][1].kind = "no_quan"
               THEN phase' = [phase EXCEPT ![c] = "short"] /\ told' = told
               ELSE /\ told' = [told EXCEPT ![c] = Verdict(SubSeq(down[c], 1, k))]
                    /\ phase' = [phase EXCEPT ![c] = "closed"]
      BY DEF ReadReply, End
    <2> DEFINE msgs == down[c]
               front == SubSeq(msgs, 1, k)
               rest == SubSeq(msgs, k + 1, Len(msgs))
    <2>2. /\ msgs \in Seq(Message) /\ front \in Seq(Message) /\ DOMAIN front = 1..k
          /\ \A j \in DOMAIN front : front[j] = msgs[j] /\ j \in DOMAIN msgs
          /\ \A j \in DOMAIN rest : rest[j] = msgs[j + k] /\ j + k \in DOMAIN msgs
      <3>1. msgs \in Seq(Message)
        BY DEF TypeOK, ConnectionsOK
      <3>2. k \in 0..Len(msgs)
        OBVIOUS
      <3> HIDE DEF msgs
      <3> QED BY <3>1, <3>2, Cut
    <2>3. down'[c] = rest
      BY <2>1 DEF TypeOK, ConnectionsOK
    <2> HIDE DEF front, rest
    <2>4. CASE k = 1 /\ down[c][1].kind = "no_quan"
      <3>1. 1 \in DOMAIN down[c]
        BY <2>2, <2>4
      <3> QED BY <1>2, <2>4, <3>1 DEF Refused
    <2>5. CASE ~(k = 1 /\ down[c][1].kind = "no_quan")
      <3>1. told'[c] = Verdict(front) /\ phase'[c] = "closed"
        BY <2>1, <2>5 DEF TypeOK, ClientsOK, front
      <3>2. CASE told'[c].kind \in {"warned", "no_fruit"}
        <4>1. PICK j \in DOMAIN front : front[j].kind \in {"no_quan", "no_fruit"}
          BY <2>2, <3>1, <3>2, VerdictRead
        <4>2. j \in DOMAIN down[c] /\ down[c][j] = front[j]
          BY <2>2, <4>1
        <4> QED BY <1>2, <4>1, <4>2 DEF Refused
      <3>3. CASE \E j \in DOMAIN rest : rest[j].kind \in {"no_quan", "no_fruit"}
        <4>1. PICK j \in DOMAIN rest : rest[j].kind \in {"no_quan", "no_fruit"}
          BY <3>3
        <4>2. j + k \in DOMAIN down[c] /\ down[c][j + k] = rest[j]
          BY <2>2, <4>1
        <4> QED BY <1>2, <4>1, <4>2 DEF Refused
      <3> QED BY <1>2, <2>3, <3>1, <3>2, <3>3 DEF Refused
    <2> QED BY <2>4, <2>5
  <1> QED BY <1>1, <1>2

\* The same of every step of a client, and of its end.
LEMMA ClientNoRefusal ==
  ASSUME TypeOK, NEW c \in Clients, Connect(c) \/ ClientProgram(c) \/ Kill(c),
         NEW d \in Clients, Refused(d)'
  PROVE  Refused(d)
  <1> USE DEF TypeOK, ClientsOK, ConnectionsOK, Refused
  <1>1. CASE Connect(c)
    BY <1>1 DEF Connect
  <1>2. CASE ReadCount(c)
    BY <1>2 DEF ReadCount
  <1>3. CASE SendOrder(c)
    BY <1>3 DEF SendOrder, End
  <1>4. CASE ReadReply(c)
    BY <1>4, ReplyNoRefusal
  <1>5. CASE ReadQuantity(c)
    BY <1>5 DEF ReadQuantity, End
  <1>6. CASE ReadFails(c)
    BY <1>6 DEF ReadFails, End, Msg
  <1>7. CASE Kill(c)
    BY <1>7 DEF Kill, End
  <1> QED BY <1>1, <1>2, <1>3, <1>4, <1>5, <1>6, <1>7 DEF ClientProgram

\* What write() to the client served adds to who is refused.
LEMMA WriteRefuses ==
  ASSUME TypeOK, cur \in Clients, NEW msg \in Message, Write(msg),
         UNCHANGED <<told, phase>>, NEW d \in Clients, Refused(d)'
  PROVE  Refused(d) \/ (d = cur /\ msg.kind \in {"no_quan", "no_fruit"})
  <1>1. CASE down' = down
    BY <1>1 DEF Refused
  <1>2. CASE down' = [down EXCEPT ![cur] = Append(@, msg)]
    <2>1. CASE d # cur
      BY <1>2, <2>1 DEF Refused, TypeOK, ConnectionsOK
    <2>2. CASE d = cur
      <3> DEFINE s == down[cur]
      <3>1. s \in Seq(Message) /\ down'[cur] = Append(s, msg)
        BY <1>2 DEF TypeOK, ConnectionsOK
      <3> HIDE DEF s
      <3>2. \A k \in DOMAIN Append(s, msg) :
              Append(s, msg)[k] = msg \/ (k \in DOMAIN s /\ Append(s, msg)[k] = s[k])
        BY <3>1
      <3> QED BY <2>2, <3>1, <3>2 DEF Refused, s
    <2> QED BY <2>1, <2>2
  <1> QED BY <1>1, <1>2 DEF Write

\* Turns stay in order when nobody joins the queue or gets its turn, and what
\* is sold or refused is so to the client served.
LEMMA TurnKept ==
  ASSUME TurnInv, backlog' = backlog, Serving' => Serving /\ cur' = cur,
         \A d \in Clients : phase'[d] = "idle" => phase[d] = "idle",
         \A d \in Clients : Unsold(d) => Unsold(d)' \/ (Serving /\ d = cur),
         \A d \in Clients : Refused(d)' => Refused(d) \/ (Serving /\ d = cur)
  PROVE  TurnInv'
  <1>1. \A d \in Clients : Queued(d)' => Queued(d)
    BY DEF Queued
  <1>2. \A j, k \in DOMAIN backlog' : backlog'[j] = backlog'[k] => j = k
    BY DEF TurnInv
  <1>3. ASSUME NEW c \in Clients, phase'[c] = "idle" \/ Queued(c)'
        PROVE  Unsold(c)' /\ ~Refused(c)' /\ ~(Serving' /\ cur' = c)
    <2>1. Unsold(c) /\ ~Refused(c) /\ ~(Serving /\ cur = c)
      BY <1>1, <1>3 DEF TurnInv
    <2> QED BY <2>1
  <1>4. \A c \in Clients : phase'[c] = "idle" => ~Queued(c)'
    BY <1>1 DEF TurnInv
  <1> QED BY <1>2, <1>3, <1>4 DEF TurnInv

\* A new client joins the end of the queue.
LEMMA ConnectTurn ==
  ASSUME TypeOK, TurnInv, OutcomeInv, NEW c \in Clients, Connect(c)
  PROVE  TurnInv' /\ OutcomeInv'
  <1>1. /\ phase[c] = "idle" /\ phase' = [phase EXCEPT ![c] = "connected"]
        /\ backlog' = Append(backlog, c)
        /\ UNCHANGED <<told, down, sales, pc, cur, i>>
    BY DEF Connect
  <1>2. \A d \in Clients : Unsold(d)' <=> Unsold(d)
    BY <1>1 DEF Unsold
  <1>3. \A d \in Clients : Refused(d)' => Refused(d)
    BY ClientNoRefusal
  <1>4. Serving' <=> Serving
    BY <1>1 DEF Serving
  <1>5. backlog \in Seq(Clients) /\ DOMAIN phase = Clients
    BY DEF TypeOK, ConnectionsOK, ClientsOK, Ended
  <1>6. /\ DOMAIN backlog = 1..Len(backlog) /\ DOMAIN backlog' = 1..(Len(backlog) + 1)
        /\ \A k \in 1..Len(backlog) : backlog'[k] = backlog[k]
        /\ backlog'[Len(backlog) + 1] = c /\ Len(backlog) \in Nat
    BY <1>1, <1>5, Appended
  <1>7. \A d \in Clients : Queued(d)' => Queued(d) \/ d = c
    BY <1>6 DEF Queued
  <1>8. ~Queued(c) /\ Unsold(c) /\ ~Refused(c) /\ ~(Serving /\ cur = c)
    BY <1>1 DEF TurnInv
  <1>9. \A j, k \in DOMAIN backlog' : backlog'[j] = backlog'[k] => j = k
    BY <1>6, <1>8 DEF TurnInv, Queued
  <1>10. \A d \in Clients : phase'[d] = "idle" => phase[d] = "idle" /\ d # c
    BY <1>1, <1>5
  <1>11. ASSUME NEW d \in Clients, phase'[d] = "idle" \/ Queued(d)'
         PROVE  Unsold(d)' /\ ~Refused(d)' /\ ~(Serving' /\ cur' = d)
    <2>1. Unsold(d) /\ ~Refused(d) /\ ~(Serving /\ cur = d)
      BY <1>7, <1>8, <1>10, <1>11 DEF TurnInv
    <2> QED BY <1>1, <1>2, <1>3, <1>4, <2>1
  <1>12. \A d \in Clients : phase'[d] = "idle" => ~Queued(d)'
    BY <1>7, <1>10 DEF TurnInv
  <1>13. OutcomeInv'
    BY <1>1, <1>2, <1>3 DEF OutcomeInv, TypeOK, MainOK, Success
  <1> QED BY <1>9, <1>11, <1>12, <1>13 DEF TurnInv

\* The steps of a client's program, and its end.
LEMMA ClientTurn ==
  ASSUME TypeOK, TurnInv, OutcomeInv, NEW c \in Clients, ClientProgram(c) \/ Kill(c)
  PROVE  TurnInv' /\ OutcomeInv'
  <1>1. /\ UNCHANGED <<backlog, sales, pc, cur, i>>
        /\ \A d \in Clients : phase'[d] = "idle" => phase[d] = "idle"
    BY DEF ClientProgram, ReadCount, SendOrder, ReadReply, ReadQuantity, ReadFails, Kill,
           End, TypeOK, ClientsOK
  <1>2. \A d \in Clients : Unsold(d)' <=> Unsold(d)
    BY <1>1 DEF Unsold
  <1>3. \A d \in Clients : Refused(d)' => Refused(d)
    BY ClientNoRefusal
  <1>4. Serving' => Serving /\ cur' = cur
    BY <1>1 DEF Serving
  <1>5. TurnInv'
    BY <1>1, <1>2, <1>3, <1>4, TurnKept
  <1>6. OutcomeInv'
    BY <1>1, <1>2, <1>3 DEF OutcomeInv, TypeOK, MainOK, Success
  <1> QED BY <1>5, <1>6

\* The first of the queue gets its turn, or is sent away.
LEMMA AcceptTurn ==
  ASSUME TypeOK, TurnInv, OutcomeInv, Accept PROVE TurnInv' /\ OutcomeInv'
  <1>1. /\ pc = "accept" /\ backlog # <<>> /\ backlog' = Tail(backlog)
        /\ UNCHANGED <<phase, told, down, sales, i>>
        /\ \/ UNCHANGED <<pc, cur>>
           \/ cur' = Head(backlog) /\ pc' = "count"
    BY DEF Accept
  <1>2. \A d \in Clients : (Unsold(d)' <=> Unsold(d)) /\ (Refused(d)' <=> Refused(d))
    BY <1>1 DEF Unsold, Refused
  <1>3. backlog \in Seq(Clients)
    BY DEF TypeOK, ConnectionsOK
  <1>4. /\ Head(backlog) = backlog[1] /\ 1 \in DOMAIN backlog /\ Head(backlog) \in Clients
        /\ \A k \in DOMAIN backlog' : /\ backlog'[k] = backlog[k + 1]
                                      /\ k + 1 \in DOMAIN backlog /\ k \in Nat /\ k >= 1
    BY <1>1, <1>3
  <1>5. \A d \in Clients : Queued(d)' => Queued(d) /\ d # Head(backlog)
    <2> SUFFICES ASSUME NEW d \in Clients, Queued(d)' PROVE Queued(d) /\ d # Head(backlog)
      OBVIOUS
    <2>1. PICK k \in DOMAIN backlog' : backlog'[k] = d
      BY DEF Queued
    <2>2. backlog[k + 1] = d /\ k + 1 \in DOMAIN backlog /\ k + 1 # 1
      BY <1>4, <2>1
    <2> QED BY <1>4, <2>2 DEF TurnInv, Queued
  <1>6. \A j, k \in DOMAIN backlog' : backlog'[j] = backlog'[k] => j = k
    <2> SUFFICES ASSUME NEW j \in DOMAIN backlog', NEW k \in DOMAIN backlog',
                        backlog'[j] = backlog'[k]
                 PROVE  j = k
      OBVIOUS
    <2>1. j + 1 = k + 1 /\ j \in Nat /\ k \in Nat
      BY <1>4 DEF TurnInv
    <2> QED BY <2>1
  <1>7. Queued(Head(backlog))
    BY <1>4 DEF Queued
  <1>8. ASSUME NEW d \in Clients, phase'[d] = "idle" \/ Queued(d)'
        PROVE  Unsold(d)' /\ ~Refused(d)' /\ ~(Serving' /\ cur' = d)
    <2>1. Unsold(d) /\ ~Refused(d) /\ d # Head(backlog)
      BY <1>1, <1>5, <1>7, <1>8 DEF TurnInv
    <2> QED BY <1>1, <1>2, <2>1 DEF Serving
  <1>9. TurnInv'
    BY <1>1, <1>5, <1>6, <1>8 DEF TurnInv
  <1>10. Unsold(Head(backlog)) /\ ~Refused(Head(backlog))
    BY <1>4, <1>7 DEF TurnInv
  <1>11. OutcomeInv'
    <2>1. CASE UNCHANGED <<pc, cur>>
      BY <1>1, <1>2, <2>1 DEF OutcomeInv
    <2>2. CASE cur' = Head(backlog) /\ pc' = "count"
      BY <1>2, <1>4, <1>10, <2>2 DEF OutcomeInv
    <2> QED BY <1>1, <2>1, <2>2
  <1> QED BY <1>9, <1>11

\* A step of handle_connection other than the end of the process moves on
\* the turn of the client served, and nobody else's.
LEMMA HandleTurn ==
  ASSUME TypeOK, TurnInv, pc \notin {"accept", "asking", "exited"},
         UNCHANGED <<phase, told, cur, backlog>>,
         \A d \in Clients : Unsold(d) => Unsold(d)' \/ d = cur,
         \A d \in Clients : Refused(d)' => Refused(d) \/ d = cur
  PROVE  TurnInv'
  <1>1. Serving
    BY DEF Serving
  <1> QED BY <1>1, TurnKept

\* The steps before the order is known, and those that write no answer.
LEMMA QuietTurn ==
  ASSUME TypeOK, TurnInv, OutcomeInv, WriteCount \/ ReadOrder \/ ReadOrderFails
  PROVE  TurnInv' /\ OutcomeInv'
  <1>1. /\ UNCHANGED <<phase, told, cur, backlog, sales, i>>
        /\ pc \in {"count", "read"} /\ pc' \in {"read", "purchase", "accept"}
        /\ cur \in Clients
    BY DEF WriteCount, ReadOrder, ReadOrderFails, TypeOK, MainOK
  <1>2. \A d \in Clients : Unsold(d)' <=> Unsold(d)
    BY <1>1 DEF Unsold
  <1>3. ASSUME NEW d \in Clients, Refused(d)' PROVE Refused(d)
    <2>1. CASE WriteCount
      <3>1. Msg("count", uniqueConn) \in Message
        BY DEF Msg, Message, TypeOK, ShopOK
      <3>2. Msg("count", uniqueConn).kind = "count" /\ Write(Msg("count", uniqueConn))
        BY <2>1 DEF Msg, WriteCount
      <3> QED BY <1>1, <1>3, <3>1, <3>2, WriteRefuses
    <2>2. CASE ReadOrder \/ ReadOrderFails
      BY <1>3, <2>2 DEF ReadOrder, ReadOrderFails, Refused
    <2> QED BY <2>1, <2>2
  <1>4. TurnInv'
    BY <1>1, <1>2, <1>3, HandleTurn
  <1>5. OutcomeInv'
    BY <1>1, <1>2, <1>3 DEF OutcomeInv
  <1> QED BY <1>4, <1>5

\* purchase() sells to the client served, or leaves it without.
LEMMA PurchaseTurn ==
  ASSUME TypeOK, TurnInv, OutcomeInv, Purchase PROVE TurnInv' /\ OutcomeInv'
  <1>1. /\ UNCHANGED <<phase, told, down, cur, backlog>>
        /\ pc = "purchase" /\ pc' = "reply" /\ cur \in Clients
    BY DEF Purchase, TypeOK, MainOK
  <1>2. \A d \in Clients : Refused(d)' <=> Refused(d)
    BY <1>1 DEF Refused
  <1>3. \/ UNCHANGED sales
        \/ i' = Success /\ \A d \in Clients : Unsold(d) => Unsold(d)' \/ d = cur
    <2>1. ASSUME NEW f \in Fruits, NEW q \in Nat,
                 sales' = Append(sales, [item |-> f, qty |-> q, to |-> cur, by |-> cad]),
                 NEW d \in Clients, Unsold(d), d # cur
          PROVE  Unsold(d)'
      <3> DEFINE e == [item |-> f, qty |-> q, to |-> cur, by |-> cad]
      <3>1. sales \in Seq(Sale) /\ e \in Sale
        BY <1>1 DEF TypeOK, ShopOK, MainOK, Sale
      <3>2. e.to = cur
        OBVIOUS
      <3> HIDE DEF e
      <3>3. /\ DOMAIN sales = 1..Len(sales) /\ DOMAIN sales' = 1..(Len(sales) + 1)
            /\ \A k \in 1..Len(sales) : sales'[k] = sales[k]
            /\ sales'[Len(sales) + 1] = e /\ Len(sales) \in Nat
        BY <2>1, <3>1, Appended DEF e
      <3> QED BY <2>1, <3>2, <3>3 DEF Unsold
    <2> QED BY <2>1, PurchaseSells
  <1>4. \A d \in Clients : Unsold(d) => Unsold(d)' \/ d = cur
    BY <1>3 DEF Unsold
  <1>5. TurnInv'
    BY <1>1, <1>2, <1>4, HandleTurn
  <1>6. i' # Success' => Unsold(cur)'
    BY <1>1, <1>3 DEF OutcomeInv, Unsold, Success
  <1>7. \A d \in Clients : Refused(d)' => Unsold(d)'
    BY <1>1, <1>2, <1>4 DEF OutcomeInv
  <1> QED BY <1>1, <1>5, <1>6, <1>7 DEF OutcomeInv

\* A refusal is written only to who was sold nothing.
LEMMA ReplyTurn ==
  ASSUME TypeOK, TurnInv, OutcomeInv, Reply \/ SendLeft PROVE TurnInv' /\ OutcomeInv'
  <1>1. /\ UNCHANGED <<phase, told, cur, backlog, sales, i>>
        /\ pc \in {"reply", "left"} /\ pc' \in {"left", "accept"} /\ cur \in Clients
    BY DEF Reply, SendLeft, TypeOK, MainOK
  <1>2. \A d \in Clients : Unsold(d)' <=> Unsold(d)
    BY <1>1 DEF Unsold
  <1>3. /\ pc' = "left" => Unsold(cur)
        /\ \E msg \in Message :
             Write(msg) /\ (msg.kind \in {"no_quan", "no_fruit"} => Unsold(cur))
    <2>1. /\ \A kind \in {"no_quan", "no_fruit", "done"} : Msg(kind, 0) \in Message
          /\ Msg("left", i) \in Message
          /\ \A kind \in {"no_quan", "no_fruit", "done", "left"} :
               \A n \in {0, i} : Msg(kind, n).kind = kind
      BY DEF Msg, Message, TypeOK, MainOK
    <2>2. CASE Reply /\ i >= 0 /\ Write(Msg("no_quan", 0))
      <3>1. Unsold(cur)
        BY <2>2 DEF Reply, OutcomeInv, Success
      <3> QED BY <2>1, <2>2, <3>1
    <2>3. CASE Reply /\ i = NoFruit /\ Write(Msg("no_fruit", 0)) /\ pc' = "accept"
      <3>1. Unsold(cur)
        BY <2>3 DEF Reply, OutcomeInv, Success, NoFruit
      <3> QED BY <2>1, <2>3, <3>1
    <2>4. CASE Reply /\ Write(Msg("done", 0)) /\ pc' = "accept"
      BY <2>1, <2>4
    <2>5. CASE SendLeft
      BY <2>1, <2>5 DEF SendLeft
    <2> QED BY <2>2, <2>3, <2>4, <2>5 DEF Reply
  <1>4. ASSUME NEW d \in Clients, Refused(d)'
        PROVE  Refused(d) \/ (d = cur /\ Unsold(cur))
    <2>1. PICK msg \in Message :
            Write(msg) /\ (msg.kind \in {"no_quan", "no_fruit"} => Unsold(cur))
      BY <1>3
    <2> QED BY <1>1, <1>4, <2>1, WriteRefuses
  <1>5. TurnInv'
    BY <1>1, <1>2, <1>4, HandleTurn
  <1>6. \A d \in Clients : Refused(d)' => Unsold(d)'
    BY <1>2, <1>4 DEF OutcomeInv
  <1>7. pc' = "left" => Unsold(cur)'
    BY <1>1, <1>2, <1>3
  <1> QED BY <1>1, <1>5, <1>6, <1>7 DEF OutcomeInv

\* When main stops for the operator, the turn ends.
LEMMA InterruptTurn ==
  ASSUME TypeOK, TurnInv, OutcomeInv, Interrupt PROVE TurnInv' /\ OutcomeInv'
  <1>1. pc' = "asking" /\ UNCHANGED <<phase, told, down, cur, sales, i, backlog>>
    BY DEF Interrupt, clientVars, connVars, mainVars, saleVars
  <1>2. \A d \in Clients :
          /\ Unsold(d)' <=> Unsold(d)
          /\ Refused(d)' <=> Refused(d)
          /\ Queued(d)' <=> Queued(d)
    BY <1>1 DEF Unsold, Refused, Queued
  <1>3. TurnInv'
    BY <1>1, <1>2 DEF TurnInv, Serving
  <1>4. OutcomeInv'
    BY <1>1, <1>2 DEF OutcomeInv
  <1> QED BY <1>3, <1>4

\* The end of the server ends all turns.
LEMMA EndTurn ==
  ASSUME TypeOK, TurnInv, OutcomeInv, ServerExit \/ BrokenPipe PROVE TurnInv' /\ OutcomeInv'
  <1>1. pc' = "exited" /\ backlog' = <<>> /\ UNCHANGED <<phase, told, down, cur, sales, i>>
    BY DEF ServerExit, BrokenPipe, ServerEnds
  <1>2. \A d \in Clients :
          /\ Unsold(d)' <=> Unsold(d)
          /\ Refused(d)' <=> Refused(d)
          /\ ~Queued(d)'
    BY <1>1 DEF Unsold, Refused, Queued
  <1>3. TurnInv'
    BY <1>1, <1>2 DEF TurnInv, Serving
  <1>4. OutcomeInv'
    BY <1>1, <1>2 DEF OutcomeInv
  <1> QED BY <1>3, <1>4

\* Every step keeps the turns and their outcomes.
LEMMA TurnStep ==
  ASSUME TypeOK, TurnInv, OutcomeInv, [Next]_vars PROVE TurnInv' /\ OutcomeInv'
  <1>1. CASE UNCHANGED vars
    BY <1>1 DEF vars, TurnInv, OutcomeInv, Serving, Unsold, Refused, Queued, Success
  <1>2. CASE Next
    BY <1>2, ConnectTurn, ClientTurn, AcceptTurn, QuietTurn, PurchaseTurn, ReplyTurn,
       InterruptTurn, EndTurn
       DEF Next, HandleConnection
  <1> QED BY <1>1, <1>2

\* A client that is told its order cannot be met was sold nothing, even if
\* other clients use the same port, and whatever the stack of purchase holds.
THEOREM RefusalsHonest == Spec => []RefusedUnsold
  <1>1. Init => TurnInv /\ OutcomeInv
    BY DEF Init, TurnInv, OutcomeInv, Serving, Unsold, Refused, Queued, Msg
  <1>2. TypeOK /\ TurnInv /\ OutcomeInv /\ [Next]_vars => TurnInv' /\ OutcomeInv'
    BY TurnStep
  <1>3. OutcomeInv => RefusedUnsold
    BY DEF OutcomeInv, RefusedUnsold, Refused, Unsold
  <1> QED BY <1>1, <1>2, <1>3, ShopTypeCorrect, PTL DEF Spec

-----------------------------------------------------------------------------
(* Answers.                                                                *)

\* c has heard, or will read, more than the number of customers.
Answered(c) == told[c].kind # "none" \/ \E k \in DOMAIN down[c] : down[c][k].kind # "count"

\* Before it has sent its order, nothing of it is on its way or was answered;
\* and only the client's own order is on its way.
AskInv ==
  \A c \in Clients :
    /\ up[c] # <<>> => up[c] = <<asked[c]>> /\ asked[c] \in Orders
    /\ phase[c] \in {"idle", "connected", "counted"} =>
         up[c] = <<>> /\ ~Answered(c) /\ ~(cur = c /\ pc \in {"purchase", "reply", "left"})

\* What purchase() works on: the order of a client that still waits is the one
\* it sent, and digits left on the stack are no longer than those of an order.
OrderInv ==
  /\ order \in {Unmatched, EmptyText} \cup {Lowered(o) : o \in Orders}
  /\ pc = "purchase" /\ phase[cur] \notin Ended =>
       asked[cur] \in Orders /\ order = Lowered(asked[cur])
  /\ OneWidth => quan.w = 0 \/ \E o \in Orders : quan.w = o.qty.w
  /\ SmallStock => \A f \in Fruits : stock[f] <= 127

\* What is in the stream after a refusal, and who is cut off while the server
\* runs: only who was never served, or has ended.
SeenInv ==
  /\ pc = "reply" => ~Refused(cur)
  /\ \A c \in Clients : phase[c] = "short" =>
       \A k \in DOMAIN down[c] : down[c][k].kind = "left"
  /\ \A c \in Clients : \A j, k \in DOMAIN down[c] :
       down[c][j].kind = "no_quan" /\ j < k => down[c][k].kind = "left"
  /\ pc # "exited" => \A c \in Clients : dropped[c] =>
       /\ phase[c] # "idle" /\ ~Queued(c)
       /\ phase[c] \in Ended \/ (~Refused(c) /\ ~(Serving /\ cur = c))

Plain == OneWidth /\ SmallStock /\ PlainNames

\* c was sold what it ordered, and nothing else.
BoughtOnce(c) ==
  \E k \in DOMAIN sales : /\ sales[k].to = c /\ Exactly(c, k)
                          /\ \A j \in DOMAIN sales : sales[j].to = c => j = k

\* Of what c ordered there were n, too few, and are not more now.
TooFew(c, n) ==
  \E f \in Fruits : /\ Names[f] = Lowered(asked[c]).name
                    /\ n < asked[c].qty.n /\ stock[f] <= n

\* c was told that its order is done, or will read it.
Done(c) == told[c].kind = "done" \/ \E k \in DOMAIN down[c] : down[c][k].kind = "done"

\* What a client that still waits will be told, and what it was told, is right.
AnswerInv ==
  /\ pc = "reply" /\ phase[cur] \notin Ended =>
       (i = Success /\ BoughtOnce(cur)) \/ i = NoFruit \/ (i >= 0 /\ TooFew(cur, i))
  /\ pc = "left" /\ phase[cur] \notin Ended => TooFew(cur, i)
  /\ \A c \in Clients : Done(c) => BoughtOnce(c)
  /\ \A c \in Clients : \A k \in DOMAIN down[c] :
       down[c][k].kind = "left" => TooFew(c, down[c][k].n)
  /\ \A c \in Clients : told[c].kind = "warned" =>
       TooFew(c, told[c].n) \/ (pc = "exited" /\ told[c].n = 0)

PlainAnswer == Plain => AnswerInv

\* What is left in c's stream was in it before, in the same order.
Shifted(c) ==
  \E s \in Nat : \A k \in DOMAIN down'[c] : k + s \in DOMAIN down[c] /\ down'[c][k] = down[c][k + s]

\* A step of c changes nothing of the server and of other clients.
Alone(c) ==
  /\ UNCHANGED <<pc, cur, order, quan, i, stock, sales, dropped>>
  /\ \A d \in Clients \ {c} : /\ phase'[d] = phase[d] /\ asked'[d] = asked[d]
                              /\ told'[d] = told[d] /\ up'[d] = up[d] /\ down'[d] = down[d]

\* c sends its order once, when it has read the number of customers.
Orders1(c) ==
  \/ asked'[c] = asked[c] /\ up'[c] = up[c]
  \/ /\ phase[c] = "counted" /\ asked'[c] \in Orders /\ up'[c] \in {<<>>, <<asked'[c]>>}
     /\ phase'[c] \in {"waiting", "killed"}

\* What c is told it was sent; or the stream was at its end.
Told(c) ==
  \/ told'[c] = told[c]
  \/ phase[c] \in {"waiting", "short"} /\ told'[c].kind \in {"unknown", "error"}
  \/ /\ phase[c] = "waiting" /\ 1 \in DOMAIN down[c] /\ told'[c] = down[c][1]
     /\ told'[c].kind \in {"no_fruit", "done"}
  \/ /\ phase[c] = "short" /\ told'[c].kind = "warned"
     /\ IF down[c] = <<>> THEN dropped[c] /\ told'[c].n = 0
        ELSE 1 \in DOMAIN down[c] /\ told'[c].n = down[c][1].n

\* c goes on in its program, and after a refusal reads what is left.
Moves(c) ==
  /\ phase[c] \notin Ended /\ phase'[c] # "idle"
  /\ phase'[c] \in {"connected", "counted"} => phase[c] \in {"idle", "connected"}
  /\ phase'[c] = "short" =>
       /\ 1 \in DOMAIN down[c] /\ down[c][1].kind = "no_quan"
       /\ \A k \in DOMAIN down'[c] : k + 1 \in DOMAIN down[c] /\ down'[c][k] = down[c][k + 1]

ClientDoes(c) == Alone(c) /\ Shifted(c) /\ Orders1(c) /\ Told(c) /\ Moves(c)

\* What is not read stays, and a stream that is emptied has nothing to shift.
LEMMA StreamShifts ==
  ASSUME TypeOK, NEW c \in Clients, down'[c] = down[c] \/ down'[c] = <<>>
  PROVE  Shifted(c)
  <1>1. down[c] \in Seq(Message)
    BY DEF TypeOK, ConnectionsOK
  <1>2. \A k \in DOMAIN down[c] : k + 0 = k
    BY <1>1
  <1>3. CASE down'[c] = down[c]
    BY <1>2, <1>3 DEF Shifted
  <1>4. CASE down'[c] = <<>>
    BY <1>4 DEF Shifted
  <1> QED BY <1>3, <1>4

LEMMA ReadReplyDoes == ASSUME TypeOK, NEW c \in Clients, ReadReply(c) PROVE ClientDoes(c)
  <1>1. PICK k \in 0..Len(down[c]) :
          /\ down' = [down EXCEPT ![c] = SubSeq(@, k + 1, Len(@))]
          /\ IF k = 1 /\ down[c][1].kind = "no_quan"
             THEN phase' = [phase EXCEPT ![c] = "short"] /\ told' = told
             ELSE /\ told' = [told EXCEPT ![c] = Verdict(SubSeq(down[c], 1, k))]
                  /\ phase' = [phase EXCEPT ![c] = "closed"]
    BY DEF ReadReply, End
  <1> DEFINE msgs == down[c]
             front == SubSeq(msgs, 1, k)
             rest == SubSeq(msgs, k + 1, Len(msgs))
  <1>2. /\ msgs \in Seq(Message) /\ front \in Seq(Message) /\ Len(front) = k
        /\ \A j \in 1..k : front[j] = msgs[j] /\ j \in DOMAIN msgs
        /\ \A j \in DOMAIN rest : rest[j] = msgs[j + k] /\ j + k \in DOMAIN msgs
    <2>1. msgs \in Seq(Message)
      BY DEF TypeOK, ConnectionsOK
    <2>2. k \in 0..Len(msgs)
      OBVIOUS
    <2> HIDE DEF msgs
    <2>3. Len(front) = k
      BY <2>1, <2>2
    <2> QED BY <2>1, <2>2, <2>3, Cut
  <1>3. down'[c] = rest
    BY <1>1 DEF TypeOK, ConnectionsOK
  <1> HIDE DEF front, rest
  <1>4. Alone(c) /\ Orders1(c)
    BY <1>1 DEF ReadReply, Alone, Orders1, TypeOK, ClientsOK, ConnectionsOK
  <1>5. Shifted(c)
    <2>1. \A j \in DOMAIN down'[c] : j + k \in DOMAIN down[c] /\ down'[c][j] = down[c][j + k]
      BY <1>2, <1>3
    <2>2. k \in Nat
      BY <1>2
    <2> QED BY <2>1, <2>2 DEF Shifted
  <1>6. phase[c] = "waiting"
    BY DEF ReadReply
  <1>7. CASE k = 1 /\ down[c][1].kind = "no_quan"
    <2>1. told'[c] = told[c] /\ phase'[c] = "short"
      BY <1>1, <1>7 DEF TypeOK, ClientsOK
    <2> QED BY <1>2, <1>3, <1>4, <1>5, <1>6, <1>7, <2>1 DEF ClientDoes, Told, Moves, Ended
  <1>8. CASE ~(k = 1 /\ down[c][1].kind = "no_quan")
    <2>1. told'[c] = Verdict(front) /\ phase'[c] = "closed"
      BY <1>1, <1>8 DEF TypeOK, ClientsOK, front
    <2>2. Moves(c)
      BY <1>6, <2>1 DEF Moves, Ended
    <2>3. Told(c)
      BY <1>2, <1>6, <2>1 DEF Told, Verdict, Msg
    <2> QED BY <1>4, <1>5, <2>2, <2>3 DEF ClientDoes
  <1> QED BY <1>7, <1>8

\* What the steps of a client change.
LEMMA ClientStepDoes ==
  ASSUME TypeOK, NEW c \in Clients, Connect(c) \/ ClientProgram(c) \/ Kill(c)
  PROVE  ClientDoes(c)
  <1> USE DEF Ended
  <1>1. CASE Connect(c)
    <2>1. Alone(c) /\ Orders1(c) /\ Told(c) /\ Moves(c)
      BY <1>1 DEF Connect, Alone, Orders1, Told, Moves, TypeOK, ClientsOK, ConnectionsOK
    <2> QED BY <1>1, <2>1, StreamShifts DEF Connect, ClientDoes
  <1>2. CASE ReadCount(c)
    <2>1. Alone(c) /\ Orders1(c) /\ Told(c) /\ Moves(c) /\ down'[c] = <<>>
      BY <1>2 DEF ReadCount, Alone, Orders1, Told, Moves, TypeOK, ClientsOK, ConnectionsOK
    <2> QED BY <2>1, StreamShifts DEF ClientDoes
  <1>3. CASE SendOrder(c)
    <2>1. Alone(c) /\ Told(c) /\ down'[c] = down[c]
      BY <1>3 DEF SendOrder, End, Alone, Told, TypeOK, ClientsOK, ConnectionsOK
    <2>2. phase[c] = "counted" /\ phase'[c] \in {"waiting", "killed"}
      BY <1>3 DEF SendOrder, End, TypeOK, ClientsOK
    <2>3. asked'[c] \in Orders /\ up'[c] \in {<<>>, <<asked'[c]>>}
      BY <1>3 DEF SendOrder, TypeOK, ClientsOK, ConnectionsOK
    <2> QED BY <2>1, <2>2, <2>3, StreamShifts DEF ClientDoes, Orders1, Moves
  <1>4. CASE ReadReply(c)
    BY <1>4, ReadReplyDoes
  <1>5. CASE ReadQuantity(c)
    <2>1. Alone(c) /\ Orders1(c) /\ Moves(c) /\ down'[c] = <<>>
      BY <1>5 DEF ReadQuantity, End, Alone, Orders1, Moves, TypeOK, ClientsOK, ConnectionsOK
    <2>2. down[c] \in Seq(Message) /\ phase[c] = "short"
      BY <1>5 DEF ReadQuantity, TypeOK, ConnectionsOK
    <2>3. told'[c] = IF down[c] # <<>> THEN Msg("warned", Head(down[c]).n) ELSE Msg("warned", 0)
      BY <1>5 DEF ReadQuantity, TypeOK, ClientsOK
    <2>4. down[c] = <<>> => dropped[c]
      BY <1>5 DEF ReadQuantity, AtEnd
    <2>5. Told(c)
      BY <2>2, <2>3, <2>4 DEF Told, Msg
    <2> QED BY <2>1, <2>5, StreamShifts DEF ClientDoes
  <1>6. CASE ReadFails(c)
    <2>1. Alone(c) /\ Orders1(c) /\ Moves(c) /\ down'[c] = down[c]
      BY <1>6 DEF ReadFails, End, Alone, Orders1, Moves, TypeOK, ClientsOK, ConnectionsOK
    <2>2. phase[c] \in {"waiting", "short"} /\ told'[c].kind = "error"
      BY <1>6 DEF ReadFails, Msg, TypeOK, ClientsOK
    <2> QED BY <2>1, <2>2, StreamShifts DEF ClientDoes, Told
  <1>7. CASE Kill(c)
    <2>1. Alone(c) /\ Orders1(c) /\ Told(c) /\ Moves(c) /\ down'[c] = down[c]
      BY <1>7 DEF Kill, Active, End, Alone, Orders1, Told, Moves, TypeOK, ClientsOK,
                  ConnectionsOK
    <2> QED BY <2>1, StreamShifts DEF ClientDoes
  <1> QED BY <1>1, <1>2, <1>3, <1>4, <1>5, <1>6, <1>7 DEF ClientProgram

\* What write() changes.
Wrote(msg) ==
  /\ \A d \in Clients : down'[d] = down[d] \/ (d = cur /\ phase[d] \notin Ended)
  /\ \/ phase[cur] \in Ended /\ down'[cur] = down[cur]
     \/ /\ DOMAIN down[cur] = 1..Len(down[cur]) /\ Len(down[cur]) \in Nat
        /\ DOMAIN down'[cur] = 1..(Len(down[cur]) + 1)
        /\ down'[cur][Len(down[cur]) + 1] = msg
        /\ \A k \in 1..Len(down[cur]) : down'[cur][k] = down[cur][k]

LEMMA WriteDoes ==
  ASSUME TypeOK, cur \in Clients, NEW msg \in Message, Write(msg) PROVE Wrote(msg)
  <1>1. down[cur] \in Seq(Message)
    BY DEF TypeOK, ConnectionsOK
  <1>2. CASE phase[cur] \in Ended
    BY <1>2 DEF Write, Wrote
  <1>3. CASE phase[cur] \notin Ended
    <2>1. down' = [down EXCEPT ![cur] = Append(@, msg)]
      BY <1>3 DEF Write
    <2>2. down'[cur] = Append(down[cur], msg) /\ \A d \in Clients \ {cur} : down'[d] = down[d]
      BY <2>1 DEF TypeOK, ConnectionsOK
    <2> QED BY <1>1, <1>3, <2>2, Appended DEF Wrote
  <1> QED BY <1>2, <1>3

\* What a client that goes on is told was in its stream; the stream of one
\* that was not cut off is not at its end.
LEMMA ClientRefused ==
  ASSUME TypeOK, NEW c \in Clients, Connect(c) \/ ClientProgram(c) \/ Kill(c),
         NEW d \in Clients
  PROVE  Refused(d)' => Refused(d)
  BY ClientNoRefusal

\* Nothing is sent or answered before the order.
LEMMA ClientAsk ==
  ASSUME TypeOK, AskInv, NEW c \in Clients, ClientDoes(c) PROVE AskInv'
  <1> USE DEF ClientDoes, Alone
  <1>1. ASSUME NEW d \in Clients \ {c}
        PROVE  /\ up'[d] # <<>> => up'[d] = <<asked'[d]>> /\ asked'[d] \in Orders
               /\ phase'[d] \in {"idle", "connected", "counted"} =>
                    up'[d] = <<>> /\ ~Answered(d)' /\ ~(cur' = d /\ pc' \in {"purchase", "reply", "left"})
    BY DEF AskInv, Answered
  <1>2. up'[c] # <<>> => up'[c] = <<asked'[c]>> /\ asked'[c] \in Orders
    BY DEF AskInv, Orders1
  <1>3. ASSUME phase'[c] \in {"idle", "connected", "counted"}
        PROVE  up'[c] = <<>> /\ ~Answered(c)' /\ ~(cur' = c /\ pc' \in {"purchase", "reply", "left"})
    <2>1. phase[c] \in {"idle", "connected"}
      BY <1>3 DEF Moves
    <2>2. up[c] = <<>> /\ ~Answered(c) /\ ~(cur = c /\ pc \in {"purchase", "reply", "left"})
      BY <2>1 DEF AskInv
    <2>3. told'[c] = told[c] /\ up'[c] = up[c]
      BY <2>1 DEF Told, Orders1
    <2>4. \A k \in DOMAIN down'[c] : \E j \in DOMAIN down[c] : down'[c][k] = down[c][j]
      BY DEF Shifted
    <2> QED BY <2>2, <2>3, <2>4 DEF Answered
  <1> QED BY <1>1, <1>2, <1>3 DEF AskInv

LEMMA ServerAsk ==
  ASSUME TypeOK, AskInv, Accept \/ HandleConnection \/ Interrupt \/ ServerExit
  PROVE  AskInv'
  <1>1. UNCHANGED <<phase, asked, told>>
    BY DEF Accept, HandleConnection, WriteCount, ReadOrder, ReadOrderFails, Purchase, Reply,
           SendLeft, BrokenPipe, Interrupt, ServerExit, ServerEnds
  <1>2. CASE Accept \/ Interrupt \/ ServerExit \/ BrokenPipe
    <2>1. UNCHANGED <<up, down>> /\ pc' \notin {"purchase", "reply", "left"}
      BY <1>2 DEF Accept, Interrupt, ServerExit, BrokenPipe, ServerEnds
    <2> QED BY <1>1, <2>1 DEF AskInv, Answered
  <1>3. CASE ReadOrder
    <2>1. cur \in Clients /\ pc' = "purchase" /\ UNCHANGED <<cur, down>>
          /\ up' = [up EXCEPT ![cur] = <<>>]
      BY <1>3 DEF ReadOrder, TypeOK, MainOK
    <2>2. \A d \in Clients : up'[d] = IF d = cur THEN <<>> ELSE up[d]
      BY <2>1 DEF TypeOK, ConnectionsOK
    <2>3. phase[cur] \notin {"idle", "connected", "counted"}
      BY <1>3, <2>1 DEF ReadOrder, AskInv, Ended
    <2> QED BY <1>1, <2>1, <2>2, <2>3 DEF AskInv, Answered
  <1>4. CASE ReadOrderFails
    BY <1>1, <1>4 DEF ReadOrderFails, AskInv, Answered
  <1>5. CASE Purchase
    BY <1>1, <1>5 DEF Purchase, AskInv, Answered
  <1>6. CASE WriteCount
    <2>1. Msg("count", uniqueConn) \in Message /\ Msg("count", uniqueConn).kind = "count"
          /\ cur \in Clients /\ Write(Msg("count", uniqueConn)) /\ pc' = "read"
          /\ UNCHANGED <<cur, up>>
      BY <1>6 DEF WriteCount, Msg, Message, TypeOK, ShopOK, MainOK
    <2>2. PICK msg \in Message : Wrote(msg) /\ msg.kind = "count"
      BY <2>1, WriteDoes
    <2>3. \A d \in Clients : Answered(d)' => Answered(d)
      BY <1>1, <2>1, <2>2 DEF Wrote, Answered
    <2> QED BY <1>1, <2>1, <2>3 DEF AskInv
  <1>7. CASE Reply \/ SendLeft
    <2>1. /\ \A kind \in {"no_quan", "no_fruit", "done"} : Msg(kind, 0) \in Message
          /\ Msg("left", i) \in Message
      BY DEF Msg, Message, TypeOK, MainOK
    <2>2. cur \in Clients /\ pc \in {"reply", "left"} /\ pc' \in {"left", "accept"}
          /\ UNCHANGED <<cur, up>> /\ \E msg \in Message : Write(msg)
      BY <1>7, <2>1 DEF Reply, SendLeft, TypeOK, MainOK
    <2>3. \E msg \in Message : Wrote(msg)
      BY <2>2, WriteDoes
    <2>4. \A d \in Clients : d # cur => down'[d] = down[d]
      BY <2>3 DEF Wrote
    <2>5. phase[cur] \notin {"idle", "connected", "counted"}
      BY <2>2 DEF AskInv
    <2> QED BY <1>1, <2>2, <2>4, <2>5 DEF AskInv, Answered
  <1> QED BY <1>2, <1>3, <1>4, <1>5, <1>6, <1>7 DEF HandleConnection

LEMMA AskStep == TypeOK /\ AskInv /\ [Next]_vars => AskInv'
  <1> SUFFICES ASSUME TypeOK, AskInv, [Next]_vars PROVE AskInv'
    OBVIOUS
  <1>1. CASE UNCHANGED vars
    BY <1>1 DEF vars, AskInv, Answered
  <1> QED BY <1>1, ClientStepDoes, ClientAsk, ServerAsk DEF Next

\* The digits of an order of the usual width are the number.
LEMMA OverlaySame ==
  ASSUME OneWidth, NEW new, NEW old, NEW o \in Orders, NEW p \in Orders,
         new = o.qty, old.w = 0 \/ old.w = p.qty.w
  PROVE  Overlay(new, old) = new
  <1>1. o.qty.w \in 0..4 /\ p.qty.w = o.qty.w
    BY ShopAssumption DEF OneWidth, Number
  <1>2. old.w <= new.w
    BY <1>1
  <1> QED BY <1>2 DEF Overlay

\* Whatever is left on the stack, digits stay as wide as those of an order.
LEMMA OverlayWidth ==
  ASSUME NEW new \in Number, NEW old \in Number
  PROVE  Overlay(new, old).w \in {new.w, old.w}
  BY DEF Overlay, Number

\* tolower leaves the quantity alone.
LEMMA LoweredQty == ASSUME NEW o \in Orders PROVE Lowered(o).qty = o.qty
  <1>1. o \in [name : Seq(Letters), qty : Number]
    BY ShopAssumption
  <1> QED BY <1>1 DEF Lowered

LEMMA ClientOrder ==
  ASSUME TypeOK, AskInv, OrderInv, NEW c \in Clients, ClientDoes(c) PROVE OrderInv'
  <1>1. UNCHANGED <<pc, cur, order, quan, stock>>
    BY DEF ClientDoes, Alone
  <1>2. ASSUME pc = "purchase", phase'[cur] \notin Ended
        PROVE  asked'[cur] = asked[cur] /\ phase[cur] \notin Ended
    <2>1. cur \in Clients
      BY <1>2 DEF TypeOK, MainOK
    <2>2. phase[cur] # "counted"
      BY <1>2, <2>1 DEF AskInv
    <2> QED BY <1>2, <2>1, <2>2 DEF ClientDoes, Alone, Orders1, Moves
  <1> QED BY <1>1, <1>2 DEF OrderInv

LEMMA PurchaseOrder == ASSUME TypeOK, OrderInv, Purchase PROVE OrderInv'
  <1>1. pc' = "reply" /\ order' = order
    BY DEF Purchase
  <1>2. ASSUME SmallStock, NEW f \in Fruits PROVE stock'[f] <= 127
    <2>1. stock[f] <= 127 /\ stock[f] \in Nat /\ stock \in [Fruits -> Nat]
      BY <1>2 DEF OrderInv, TypeOK, ShopOK
    <2>2. CASE stock' = stock
      BY <2>1, <2>2
    <2>3. ASSUME NEW g \in Fruits, NEW q \in Nat, stock' = [stock EXCEPT ![g] = @ - q]
          PROVE  stock'[f] <= 127
      <3>1. stock'[f] = stock[f] \/ stock'[f] = stock[f] - q
        BY <2>1, <2>3
      <3> QED BY <2>1, <3>1
    <2> QED BY <2>2, <2>3, PurchaseSells
  <1>3. ASSUME OneWidth PROVE quan'.w = 0 \/ \E o \in Orders : quan'.w = o.qty.w
    <2>1. quan' = quan \/ \E old \in {quan, NoDigits} : quan' = Overlay(order.qty, old)
      BY DEF Purchase
    <2>2. order.qty \in Number /\ quan \in Number /\ NoDigits \in Number /\ NoDigits.w = 0
      BY DEF TypeOK, MainOK, Order, NoDigits, Number
    <2>3. quan'.w \in {order.qty.w, quan.w, 0}
      BY <2>1, <2>2, OverlayWidth
    <2>4. order.qty.w = 0 \/ \E o \in Orders : order.qty.w = o.qty.w
      BY LoweredQty DEF OrderInv, Unmatched, EmptyText
    <2> QED BY <1>3, <2>3, <2>4 DEF OrderInv
  <1> QED BY <1>1, <1>2, <1>3 DEF OrderInv

LEMMA OrderStep == TypeOK /\ AskInv /\ OrderInv /\ [Next]_vars => OrderInv'
  <1> SUFFICES ASSUME TypeOK, AskInv, OrderInv, [Next]_vars PROVE OrderInv'
    OBVIOUS
  <1>1. CASE UNCHANGED vars
    BY <1>1 DEF vars, OrderInv
  <1>2. CASE ReadOrder
    <2>1. cur \in Clients /\ pc' = "purchase" /\ UNCHANGED <<cur, phase, asked, quan, stock>>
      BY <1>2 DEF ReadOrder, TypeOK, MainOK
    <2>2. CASE up[cur] # <<>>
      <3>1. up[cur] = <<asked[cur]>> /\ asked[cur] \in Orders
        BY <2>1, <2>2 DEF AskInv
      <3>2. order' = Lowered(asked[cur])
        BY <1>2, <2>2, <3>1 DEF ReadOrder
      <3> QED BY <2>1, <3>1, <3>2 DEF OrderInv
    <2>3. CASE up[cur] = <<>>
      BY <1>2, <2>1, <2>3 DEF ReadOrder, OrderInv
    <2> QED BY <2>2, <2>3
  <1>3. CASE Accept \/ WriteCount \/ ReadOrderFails \/ Reply \/ SendLeft \/ BrokenPipe
             \/ Interrupt \/ ServerExit
    <2>1. pc' # "purchase" /\ UNCHANGED <<order, quan, stock>>
      BY <1>3 DEF Accept, WriteCount, ReadOrderFails, Reply, SendLeft, BrokenPipe, Interrupt,
                  ServerExit, ServerEnds
    <2> QED BY <2>1 DEF OrderInv
  <1> QED BY <1>1, <1>2, <1>3, ClientStepDoes, ClientOrder, PurchaseOrder
          DEF Next, HandleConnection

LEMMA ClientSeen ==
  ASSUME TypeOK, TypeOK', TurnInv, SeenInv, NEW c \in Clients, ClientDoes(c),
         \A d \in Clients : Refused(d)' => Refused(d),
         \/ backlog' = backlog
         \/ pc # "exited" /\ phase[c] = "idle" /\ backlog' = Append(backlog, c)
  PROVE  SeenInv'
  <1> USE DEF ClientDoes, Alone
  <1>0. \A d \in Clients : \A k \in DOMAIN down'[d] : k \in Nat /\ k >= 1
    <2>1. \A d \in Clients : down'[d] \in Seq(Message)
      BY DEF TypeOK, ConnectionsOK
    <2> QED BY <2>1
  <1>1. pc' = "reply" => ~Refused(cur)'
    <2>1. pc = "reply" => cur \in Clients
      BY DEF TypeOK, MainOK
    <2> QED BY <2>1 DEF SeenInv, Refused
  <1>2. ASSUME NEW d \in Clients, phase'[d] = "short", NEW k \in DOMAIN down'[d]
        PROVE  down'[d][k].kind = "left"
    <2>1. CASE d # c
      BY <1>2, <2>1 DEF SeenInv
    <2>2. CASE d = c
      <3>1. /\ 1 \in DOMAIN down[c] /\ down[c][1].kind = "no_quan"
            /\ k + 1 \in DOMAIN down[c] /\ down'[c][k] = down[c][k + 1]
        BY <1>2, <2>2 DEF Moves
      <3>2. 1 < k + 1
        BY <1>0
      <3> QED BY <2>2, <3>1, <3>2 DEF SeenInv
    <2> QED BY <2>1, <2>2
  <1>3. ASSUME NEW d \in Clients, NEW j \in DOMAIN down'[d], NEW k \in DOMAIN down'[d],
               down'[d][j].kind = "no_quan", j < k
        PROVE  down'[d][k].kind = "left"
    <2>1. CASE d # c
      BY <1>3, <2>1 DEF SeenInv
    <2>2. CASE d = c
      <3>1. PICK s \in Nat : \A l \in DOMAIN down'[c] :
              l + s \in DOMAIN down[c] /\ down'[c][l] = down[c][l + s]
        BY DEF Shifted
      <3>2. j + s < k + s
        BY <1>0, <1>3
      <3> QED BY <1>3, <2>2, <3>1, <3>2 DEF SeenInv
    <2> QED BY <2>1, <2>2
  <1>4. ASSUME NEW d \in Clients, Queued(d)'
        PROVE  Queued(d) \/ (d = c /\ phase[c] = "idle")
    <2>1. CASE backlog' = backlog
      BY <1>4, <2>1 DEF Queued
    <2>2. CASE phase[c] = "idle" /\ backlog' = Append(backlog, c)
      <3>1. backlog \in Seq(Clients)
        BY DEF TypeOK, ConnectionsOK
      <3>2. /\ DOMAIN backlog = 1..Len(backlog) /\ DOMAIN backlog' = 1..(Len(backlog) + 1)
            /\ \A k \in 1..Len(backlog) : backlog'[k] = backlog[k]
            /\ backlog'[Len(backlog) + 1] = c /\ Len(backlog) \in Nat
        BY <2>2, <3>1, Appended
      <3>3. PICK k \in 1..(Len(backlog) + 1) : backlog'[k] = d
        BY <1>4, <3>2 DEF Queued
      <3>4. CASE k = Len(backlog) + 1
        BY <2>2, <3>2, <3>3, <3>4
      <3>5. CASE k \in 1..Len(backlog)
        BY <3>2, <3>3, <3>5 DEF Queued
      <3> QED BY <3>2, <3>4, <3>5
    <2> QED BY <2>1, <2>2
  <1>5. ASSUME pc' # "exited", NEW d \in Clients, dropped'[d]
        PROVE  /\ phase'[d] # "idle" /\ ~Queued(d)'
               /\ (phase'[d] \in Ended \/ (~Refused(d)' /\ ~(Serving' /\ cur' = d)))
    <2>1. /\ phase[d] # "idle" /\ ~Queued(d)
          /\ phase[d] \in Ended \/ (~Refused(d) /\ ~(Serving /\ cur = d))
      BY <1>5 DEF SeenInv
    <2>2. phase'[d] # "idle" /\ ~Queued(d)'
      BY <1>4, <2>1 DEF Moves
    <2>3. Serving' => Serving /\ cur' = cur
      BY DEF Serving
    <2>4. phase[d] \in Ended => phase'[d] \in Ended
      BY DEF Moves
    <2> QED BY <2>1, <2>2, <2>3, <2>4
  <1> QED BY <1>1, <1>2, <1>3, <1>5 DEF SeenInv

\* What write() adds to a stream.
LEMMA WroteSeen ==
  ASSUME TypeOK, SeenInv, cur \in Clients, NEW msg \in Message, Wrote(msg), phase' = phase,
         msg.kind = "left" \/ ~Refused(cur)
  PROVE  /\ \A c \in Clients : phase'[c] = "short" =>
              \A k \in DOMAIN down'[c] : down'[c][k].kind = "left"
         /\ \A c \in Clients : \A j, k \in DOMAIN down'[c] :
              down'[c][j].kind = "no_quan" /\ j < k => down'[c][k].kind = "left"
  <1>1. ASSUME NEW c \in Clients, c # cur PROVE down'[c] = down[c]
    BY <1>1 DEF Wrote
  <1>2. CASE down'[cur] = down[cur]
    BY <1>1, <1>2 DEF SeenInv
  <1>3. CASE down'[cur] # down[cur]
    <2> DEFINE n == Len(down[cur])
    <2>1. /\ DOMAIN down[cur] = 1..n /\ n \in Nat /\ DOMAIN down'[cur] = 1..(n + 1)
          /\ down'[cur][n + 1] = msg /\ \A k \in 1..n : down'[cur][k] = down[cur][k]
      BY <1>3 DEF Wrote
    <2> HIDE DEF n
    <2>2. msg.kind = "left" \/ /\ phase[cur] # "short"
                               /\ \A k \in 1..n : down[cur][k].kind # "no_quan"
      BY <2>1 DEF Refused
    <2>3. ASSUME phase'[cur] = "short", NEW k \in 1..(n + 1) PROVE down'[cur][k].kind = "left"
      <3>1. CASE k = n + 1
        BY <2>1, <2>2, <2>3, <3>1
      <3>2. CASE k \in 1..n
        BY <2>1, <2>3, <3>2 DEF SeenInv
      <3> QED BY <2>1, <3>1, <3>2
    <2>4. ASSUME NEW j \in 1..(n + 1), NEW k \in 1..(n + 1), down'[cur][j].kind = "no_quan", j < k
          PROVE  down'[cur][k].kind = "left"
      <3>1. j \in 1..n
        BY <2>1, <2>4
      <3>2. CASE k = n + 1
        BY <2>1, <2>2, <2>4, <3>1, <3>2
      <3>3. CASE k \in 1..n
        BY <2>1, <2>4, <3>1, <3>3 DEF SeenInv
      <3> QED BY <2>1, <3>2, <3>3
    <2> QED BY <1>1, <2>1, <2>3, <2>4 DEF SeenInv
  <1> QED BY <1>2, <1>3

\* Nobody is cut off by the steps of handle_connection but who has ended.
LEMMA HandleSeen ==
  ASSUME TypeOK, SeenInv, Serving, cur \in Clients, UNCHANGED <<phase, cur, backlog>>,
         dropped' = dropped \/ (phase[cur] \in Ended /\ dropped' = [dropped EXCEPT ![cur] = TRUE]),
         \A c \in Clients : Refused(c)' => Refused(c) \/ (c = cur /\ phase[c] \notin Ended),
         pc # "exited",
         ~Queued(cur) /\ phase[cur] # "idle"
  PROVE  \A c \in Clients : dropped'[c] =>
           /\ phase'[c] # "idle" /\ ~Queued(c)'
           /\ phase'[c] \in Ended \/ (~Refused(c)' /\ ~(Serving' /\ cur' = c))
  <1>1. SUFFICES ASSUME NEW c \in Clients, dropped'[c]
                 PROVE  /\ phase[c] # "idle" /\ ~Queued(c)
                        /\ phase[c] \in Ended \/ (~Refused(c)' /\ ~(Serving' /\ cur = c))
    BY DEF Queued
  <1>2. CASE c = cur /\ phase[cur] \in Ended
    BY <1>2
  <1>3. CASE ~(c = cur /\ phase[cur] \in Ended)
    <2>1. dropped[c]
      BY <1>1, <1>3 DEF TypeOK, ConnectionsOK
    <2>2. /\ phase[c] # "idle" /\ ~Queued(c)
          /\ phase[c] \in Ended \/ (~Refused(c) /\ ~(Serving /\ cur = c))
      BY <2>1 DEF SeenInv
    <2> QED BY <2>2
  <1> QED BY <1>2, <1>3

\* The client served is in its turn.
LEMMA ServedTurn ==
  ASSUME TypeOK, TurnInv, pc \notin {"accept", "asking", "exited"}
  PROVE  Serving /\ cur \in Clients /\ ~Queued(cur) /\ phase[cur] # "idle"
  BY DEF TurnInv, Serving, TypeOK, MainOK

LEMMA AcceptSeen == ASSUME TypeOK, TurnInv, SeenInv, Accept PROVE SeenInv'
  <1>1. /\ pc = "accept" /\ backlog # <<>> /\ backlog' = Tail(backlog)
        /\ UNCHANGED <<phase, told, down>>
        /\ \/ pc' = pc /\ cur' = cur /\ dropped' = [dropped EXCEPT ![Head(backlog)] = TRUE]
           \/ cur' = Head(backlog) /\ pc' = "count" /\ dropped' = dropped
    BY DEF Accept
  <1>2. backlog \in Seq(Clients)
    BY DEF TypeOK, ConnectionsOK
  <1>3. /\ Head(backlog) = backlog[1] /\ 1 \in DOMAIN backlog /\ Head(backlog) \in Clients
        /\ \A k \in DOMAIN backlog' : /\ backlog'[k] = backlog[k + 1]
                                      /\ k + 1 \in DOMAIN backlog /\ k \in Nat /\ k >= 1
    BY <1>1, <1>2
  <1>4. Queued(Head(backlog)) /\ phase[Head(backlog)] # "idle" /\ ~Refused(Head(backlog))
    BY <1>3 DEF Queued, TurnInv
  <1>5. ASSUME NEW d \in Clients, Queued(d)' PROVE Queued(d) /\ d # Head(backlog)
    <2>1. PICK k \in DOMAIN backlog' : backlog'[k] = d
      BY <1>5 DEF Queued
    <2>2. backlog[k + 1] = d /\ k + 1 \in DOMAIN backlog /\ k + 1 # 1
      BY <1>3, <2>1
    <2> QED BY <1>3, <2>2 DEF TurnInv, Queued
  <1>6. ASSUME NEW d \in Clients, dropped'[d]
        PROVE  /\ phase[d] # "idle" /\ ~Queued(d)'
               /\ phase[d] \in Ended \/ (~Refused(d) /\ ~(Serving' /\ cur' = d))
    <2>1. CASE dropped[d]
      <3>1. /\ phase[d] # "idle" /\ ~Queued(d)
            /\ phase[d] \in Ended \/ (~Refused(d) /\ ~(Serving /\ cur = d))
        BY <1>1, <2>1 DEF SeenInv
      <3>2. d # Head(backlog)
        BY <1>4, <3>1
      <3> QED BY <1>1, <1>5, <3>1, <3>2 DEF Serving
    <2>2. CASE ~dropped[d]
      <3>1. d = Head(backlog) /\ pc' = pc
        BY <1>1, <1>6, <2>2 DEF TypeOK, ConnectionsOK
      <3> QED BY <1>1, <1>4, <1>5, <3>1 DEF Serving
    <2> QED BY <2>1, <2>2
  <1>7. \A d \in Clients : Refused(d)' <=> Refused(d)
    BY <1>1 DEF Refused
  <1> QED BY <1>1, <1>6, <1>7 DEF SeenInv

\* The steps that write no answer.
LEMMA QuietSeen ==
  ASSUME TypeOK, TurnInv, OutcomeInv, SeenInv,
         WriteCount \/ ReadOrder \/ ReadOrderFails \/ Purchase
  PROVE  SeenInv'
  <1>1. /\ UNCHANGED <<phase, told, cur, backlog>>
        /\ pc \in {"count", "read", "purchase"} /\ pc' \in {"read", "purchase", "reply", "accept"}
    BY DEF WriteCount, ReadOrder, ReadOrderFails, Purchase
  <1>2. Serving /\ cur \in Clients /\ ~Queued(cur) /\ phase[cur] # "idle" /\ ~Refused(cur)
    BY <1>1, ServedTurn DEF OutcomeInv
  <1>3. dropped' = dropped \/ (phase[cur] \in Ended /\ dropped' = [dropped EXCEPT ![cur] = TRUE])
    BY DEF WriteCount, ReadOrder, ReadOrderFails, Purchase
  <1>4. CASE WriteCount
    <2>1. Msg("count", uniqueConn) \in Message /\ Msg("count", uniqueConn).kind = "count"
          /\ Write(Msg("count", uniqueConn)) /\ pc' = "read"
      BY <1>4 DEF WriteCount, Msg, Message, TypeOK, ShopOK
    <2>2. PICK msg \in Message : Wrote(msg) /\ msg.kind = "count"
      BY <1>2, <2>1, WriteDoes
    <2>3. \A d \in Clients : Refused(d)' => Refused(d)
      BY <1>1, <2>2 DEF Wrote, Refused
    <2>4. \A c \in Clients : dropped'[c] =>
            /\ phase'[c] # "idle" /\ ~Queued(c)'
            /\ phase'[c] \in Ended \/ (~Refused(c)' /\ ~(Serving' /\ cur' = c))
      BY <1>1, <1>2, <1>3, <2>3, HandleSeen
    <2> QED BY <1>1, <1>2, <2>1, <2>2, <2>4, WroteSeen DEF SeenInv
  <1>5. CASE ReadOrder \/ ReadOrderFails \/ Purchase
    <2>1. down' = down /\ \A d \in Clients : Refused(d)' <=> Refused(d)
      BY <1>1, <1>5 DEF ReadOrder, ReadOrderFails, Purchase, Refused
    <2>2. \A c \in Clients : dropped'[c] =>
            /\ phase'[c] # "idle" /\ ~Queued(c)'
            /\ phase'[c] \in Ended \/ (~Refused(c)' /\ ~(Serving' /\ cur' = c))
      BY <1>1, <1>2, <1>3, <2>1, HandleSeen
    <2> QED BY <1>1, <1>2, <2>1, <2>2 DEF SeenInv
  <1> QED BY <1>4, <1>5

\* Answers go to a client that was not cut off.
LEMMA ReplySeen ==
  ASSUME TypeOK, TurnInv, SeenInv, Reply \/ SendLeft PROVE SeenInv'
  <1>1. /\ UNCHANGED <<phase, told, cur, backlog, dropped>>
        /\ pc \in {"reply", "left"} /\ pc' \in {"left", "accept"}
    BY DEF Reply, SendLeft
  <1>2. Serving /\ cur \in Clients /\ ~Queued(cur) /\ phase[cur] # "idle"
    BY <1>1, ServedTurn
  <1>3. PICK msg \in Message : Wrote(msg) /\ (msg.kind = "left" \/ ~Refused(cur))
    <2>1. CASE Reply
      <3>1. \A kind \in {"no_quan", "no_fruit", "done"} : Msg(kind, 0) \in Message
        BY DEF Msg, Message
      <3>2. ~Refused(cur) /\ \E msg \in Message : Write(msg)
        BY <2>1, <3>1 DEF Reply, SeenInv
      <3> QED BY <1>2, <3>2, WriteDoes
    <2>2. CASE SendLeft
      <3>1. Msg("left", i) \in Message /\ Msg("left", i).kind = "left" /\ Write(Msg("left", i))
        BY <2>2 DEF SendLeft, Msg, Message, TypeOK, MainOK
      <3> QED BY <1>2, <3>1, WriteDoes
    <2> QED BY <2>1, <2>2
  <1>4. ASSUME NEW d \in Clients, Refused(d)' PROVE Refused(d) \/ (d = cur /\ phase[d] \notin Ended)
    <2>1. CASE down'[d] = down[d]
      BY <1>1, <1>4, <2>1 DEF Refused
    <2>2. CASE d = cur /\ phase[d] \notin Ended
      BY <2>2
    <2> QED BY <1>3, <2>1, <2>2 DEF Wrote
  <1>5. \A c \in Clients : dropped'[c] =>
          /\ phase'[c] # "idle" /\ ~Queued(c)'
          /\ phase'[c] \in Ended \/ (~Refused(c)' /\ ~(Serving' /\ cur' = c))
    BY <1>1, <1>2, <1>4, HandleSeen
  <1> QED BY <1>1, <1>2, <1>3, <1>5, WroteSeen DEF SeenInv

LEMMA SeenStep == TypeOK /\ TurnInv /\ OutcomeInv /\ SeenInv /\ [Next]_vars => SeenInv'
  <1> SUFFICES ASSUME TypeOK, TurnInv, OutcomeInv, SeenInv, [Next]_vars PROVE SeenInv'
    OBVIOUS
  <1>1. CASE UNCHANGED vars
    BY <1>1 DEF vars, SeenInv, Refused, Queued, Serving
  <1>2. ASSUME NEW c \in Clients, Connect(c) \/ ClientProgram(c) \/ Kill(c) PROVE SeenInv'
    <2>1. TypeOK'
      BY TypeStep
    <2>2. ClientDoes(c) /\ \A d \in Clients : Refused(d)' => Refused(d)
      BY <1>2, ClientStepDoes, ClientRefused
    <2>3. \/ backlog' = backlog
          \/ pc # "exited" /\ phase[c] = "idle" /\ backlog' = Append(backlog, c)
      BY <1>2 DEF Connect, Alive, ClientProgram, ReadCount, SendOrder, ReadReply, ReadQuantity,
                  ReadFails, Kill
    <2> QED BY <2>1, <2>2, <2>3, ClientSeen
  <1>3. CASE ServerExit \/ BrokenPipe
    <2>1. pc' = "exited" /\ UNCHANGED <<phase, told, down>>
      BY <1>3 DEF ServerExit, BrokenPipe, ServerEnds
    <2> QED BY <2>1 DEF SeenInv
  <1>4. CASE Interrupt
    <2>1. pc' = "asking" /\ pc # "exited" /\ UNCHANGED <<phase, told, down, dropped, backlog>>
      BY <1>4 DEF Interrupt, Alive
    <2>2. ~Serving'
      BY <2>1 DEF Serving
    <2>3. /\ \A c \in Clients : phase'[c] = "short" =>
               \A k \in DOMAIN down'[c] : down'[c][k].kind = "left"
          /\ \A c \in Clients : \A j, k \in DOMAIN down'[c] :
               down'[c][j].kind = "no_quan" /\ j < k => down'[c][k].kind = "left"
      BY <2>1 DEF SeenInv
    <2>4. \A d \in Clients : dropped[d] =>
            phase[d] # "idle" /\ ~Queued(d) /\ (phase[d] \in Ended \/ ~Refused(d))
      BY <2>1 DEF SeenInv
    <2>5. ASSUME NEW d \in Clients, dropped'[d]
          PROVE  /\ phase'[d] # "idle" /\ ~Queued(d)'
                 /\ phase'[d] \in Ended \/ (~Refused(d)' /\ ~(Serving' /\ cur' = d))
      <3>1. phase'[d] = phase[d] /\ dropped[d] /\ ~Serving'
        BY <2>1, <2>2, <2>5
      <3>2. phase[d] # "idle" /\ ~Queued(d) /\ (phase[d] \in Ended \/ ~Refused(d))
        BY <2>4, <3>1
      <3>3. ~Queued(d)' /\ (Refused(d)' <=> Refused(d))
        BY <2>1, <3>2 DEF Refused, Queued
      <3> QED BY <3>1, <3>2, <3>3
    <2> QED BY <2>1, <2>3, <2>5 DEF SeenInv
  <1> QED BY <1>1, <1>2, <1>3, <1>4, AcceptSeen, QuietSeen, ReplySeen DEF Next, HandleConnection

\* Who has ordered keeps its order.
LEMMA AskedStays ==
  ASSUME AskInv, NEW c \in Clients, ClientDoes(c), NEW d \in Clients,
         phase[d] # "counted" \/ Answered(d)
  PROVE  asked'[d] = asked[d]
  BY DEF AskInv, ClientDoes, Alone, Orders1

LEMMA ClientAnswer ==
  ASSUME TypeOK, AskInv, SeenInv, AnswerInv, NEW c \in Clients, ClientDoes(c)
  PROVE  AnswerInv'
  <1> USE DEF ClientDoes
  <1>0. Alone(c)
    OBVIOUS
  <1>1. ASSUME pc \in {"reply", "left"}, phase'[cur] \notin Ended
        PROVE  cur \in Clients /\ phase[cur] \notin Ended /\ asked'[cur] = asked[cur]
    <2>1. cur \in Clients
      BY <1>1 DEF TypeOK, MainOK
    <2>2. phase[cur] # "counted"
      BY <1>1, <2>1 DEF AskInv
    <2> QED BY <1>1, <2>1, <2>2, AskedStays DEF Alone, Moves
  <1>2. ASSUME pc' = "reply", phase'[cur'] \notin Ended
        PROVE  (i' = Success /\ BoughtOnce(cur)') \/ i' = NoFruit \/ (i' >= 0 /\ TooFew(cur, i)')
    <2>1. pc = "reply" /\ cur' = cur /\ i' = i
      BY <1>2 DEF Alone
    <2>2. cur \in Clients /\ phase[cur] \notin Ended /\ asked'[cur] = asked[cur]
      BY <1>1, <1>2, <2>1
    <2>3. (i = Success /\ BoughtOnce(cur)) \/ i = NoFruit \/ (i >= 0 /\ TooFew(cur, i))
      BY <2>1, <2>2 DEF AnswerInv
    <2>4. BoughtOnce(cur) => BoughtOnce(cur)'
      BY <2>1, <2>2 DEF Alone, BoughtOnce, Exactly
    <2>5. TooFew(cur, i) => TooFew(cur, i)'
      BY <2>1, <2>2 DEF Alone, TooFew
    <2> QED BY <2>1, <2>3, <2>4, <2>5
  <1>3. ASSUME pc' = "left", phase'[cur'] \notin Ended PROVE TooFew(cur, i)'
    <2>1. pc = "left" /\ cur' = cur /\ i' = i
      BY <1>3 DEF Alone
    <2>2. cur \in Clients /\ phase[cur] \notin Ended /\ asked'[cur] = asked[cur]
      BY <1>1, <1>3, <2>1
    <2>3. TooFew(cur, i)
      BY <2>1, <2>2 DEF AnswerInv
    <2> QED BY <2>1, <2>2, <2>3 DEF Alone, TooFew
  <1>4. ASSUME NEW d \in Clients, Done(d)' PROVE BoughtOnce(d)'
    <2>1. Done(d)
      <3>1. CASE d # c
        BY <1>4, <3>1 DEF Done, Alone
      <3>2. CASE d = c
        <4>1. told'[c].kind = "done" => Done(c)
          BY DEF Told, Done
        <4>2. (\E k \in DOMAIN down'[c] : down'[c][k].kind = "done") => Done(c)
          BY DEF Shifted, Done
        <4> QED BY <1>4, <3>2, <4>1, <4>2 DEF Done
      <3> QED BY <3>1, <3>2
    <2>2. BoughtOnce(d) /\ Answered(d)
      BY <2>1 DEF AnswerInv, Done, Answered
    <2>3. asked'[d] = asked[d]
      BY <2>2, AskedStays
    <2> QED BY <2>2, <2>3 DEF Alone, BoughtOnce, Exactly
  <1>5. ASSUME NEW d \in Clients, NEW k \in DOMAIN down'[d], down'[d][k].kind = "left"
        PROVE  TooFew(d, down[d][k].n)'
    <2>1. PICK j \in DOMAIN down[d] : down'[d][k] = down[d][j]
      BY DEF Alone, Shifted
    <2>2. TooFew(d, down[d][j].n) /\ Answered(d)
      BY <1>5, <2>1 DEF AnswerInv, Answered
    <2>3. asked'[d] = asked[d]
      BY <2>2, AskedStays
    <2> QED BY <2>1, <2>2, <2>3 DEF Alone, TooFew
  <1>6. ASSUME NEW d \in Clients, told'[d].kind = "warned"
        PROVE  TooFew(d, told[d].n)' \/ (pc' = "exited" /\ told'[d].n = 0)
    <2>1. CASE told'[d] = told[d]
      <3>1. (TooFew(d, told[d].n) \/ (pc = "exited" /\ told[d].n = 0)) /\ Answered(d)
        BY <1>6, <2>1 DEF AnswerInv, Answered
      <3>2. asked'[d] = asked[d]
        BY <3>1, AskedStays
      <3> QED BY <2>1, <3>1, <3>2 DEF Alone, TooFew
    <2>2. CASE told'[d] # told[d]
      <3>1. d = c
        BY <2>2 DEF Alone
      <3>2. /\ phase[c] = "short"
            /\ IF down[c] = <<>> THEN dropped[c] /\ told'[c].n = 0
               ELSE 1 \in DOMAIN down[c] /\ told'[c].n = down[c][1].n
        BY <1>6, <2>2, <3>1 DEF Told
      <3>3. CASE down[c] = <<>>
        <4>1. dropped[c] /\ Refused(c) /\ phase[c] \notin Ended
          BY <3>2, <3>3 DEF Refused, Ended
        <4>2. pc = "exited"
          BY <4>1 DEF SeenInv
        <4> QED BY <3>1, <3>2, <3>3, <4>2 DEF Alone
      <3>4. CASE down[c] # <<>>
        <4>1. 1 \in DOMAIN down[c] /\ told'[c].n = down[c][1].n /\ down[c][1].kind = "left"
          BY <3>2, <3>4 DEF SeenInv
        <4>2. TooFew(c, told'[c].n) /\ asked'[c] = asked[c]
          BY <3>2, <4>1, AskedStays DEF AnswerInv
        <4> QED BY <3>1, <4>2 DEF Alone, TooFew
      <3> QED BY <3>3, <3>4
    <2> QED BY <2>1, <2>2
  <1> QED BY <1>2, <1>3, <1>4, <1>5, <1>6 DEF AnswerInv

\* The steps of the server that neither sell nor answer.
LEMMA QuietAnswer ==
  ASSUME TypeOK, AnswerInv,
         Accept \/ WriteCount \/ ReadOrder \/ ReadOrderFails \/ BrokenPipe \/ Interrupt
           \/ ServerExit
  PROVE  AnswerInv'
  <1>1. /\ UNCHANGED <<phase, asked, told, stock, sales>> /\ pc' \notin {"reply", "left"}
        /\ pc = "exited" => pc' = "exited"
    BY DEF Accept, WriteCount, ReadOrder, ReadOrderFails, BrokenPipe, Interrupt, ServerExit,
           ServerEnds, Alive
  <1>2. \A d \in Clients : BoughtOnce(d)' <=> BoughtOnce(d)
    BY <1>1 DEF BoughtOnce, Exactly
  <1>3. ASSUME NEW d \in Clients, NEW k \in DOMAIN down'[d], down'[d][k].kind # "count"
        PROVE  k \in DOMAIN down[d] /\ down'[d][k] = down[d][k]
    <2>1. CASE down' = down
      BY <2>1
    <2>2. CASE WriteCount
      <3>1. Msg("count", uniqueConn) \in Message /\ Msg("count", uniqueConn).kind = "count"
            /\ Write(Msg("count", uniqueConn)) /\ cur \in Clients
        BY <2>2 DEF WriteCount, Msg, Message, TypeOK, ShopOK, MainOK
      <3>2. PICK msg \in Message : Wrote(msg) /\ msg.kind = "count"
        BY <3>1, WriteDoes
      <3> QED BY <1>3, <3>2 DEF Wrote
    <2> QED BY <2>1, <2>2 DEF Accept, ReadOrder, ReadOrderFails, BrokenPipe, Interrupt,
                               ServerExit, ServerEnds
  <1>4. \A d \in Clients : Done(d)' => Done(d)
    BY <1>1, <1>3 DEF Done
  <1>5. ASSUME NEW d \in Clients, NEW k \in DOMAIN down'[d], down'[d][k].kind = "left"
        PROVE  TooFew(d, down[d][k].n)'
    <2>1. k \in DOMAIN down[d] /\ down'[d][k] = down[d][k]
      BY <1>3, <1>5
    <2>2. TooFew(d, down[d][k].n)
      BY <1>5, <2>1 DEF AnswerInv
    <2> QED BY <1>1, <2>1, <2>2 DEF TooFew
  <1>6. ASSUME NEW d \in Clients, told'[d].kind = "warned"
        PROVE  TooFew(d, told[d].n)' \/ (pc' = "exited" /\ told'[d].n = 0)
    BY <1>1, <1>6 DEF AnswerInv, TooFew
  <1> QED BY <1>1, <1>2, <1>4, <1>5, <1>6 DEF AnswerInv

\* A quantity that fits into a char is that quantity.
LEMMA AsCharSame == ASSUME NEW n \in 0..127 PROVE AsChar(n) = n
  BY DEF AsChar

\* purchase() of a client that still waits: what it ordered is sold, all of it,
\* or there is no such fruit, or there are too few and the result is how many.
LEMMA PurchaseResult ==
  ASSUME TypeOK, OrderInv, Plain, Purchase, phase[cur] \notin Ended
  PROVE  \/ i' = NoFruit /\ UNCHANGED <<stock, sales>>
         \/ /\ i' >= 0 /\ UNCHANGED <<stock, sales>>
            /\ \E f \in Fruits : /\ Names[f] = Lowered(asked[cur]).name
                                 /\ stock[f] = i' /\ i' < asked[cur].qty.n
         \/ /\ i' = Success
            /\ \E f \in Fruits :
                 /\ Names[f] = Lowered(asked[cur]).name
                 /\ sales' = Append(sales, [item |-> f, qty |-> asked[cur].qty.n,
                                           to |-> cur, by |-> cad])
  <1>1. asked[cur] \in Orders /\ order = Lowered(asked[cur])
    BY DEF Purchase, OrderInv
  <1>2. asked[cur].qty \in Number /\ asked[cur].qty.n \in Nat
    BY <1>1, ShopAssumption DEF Number
  <1>3. CASE \A f \in Fruits : ~Matches(order, f)
    BY <1>3 DEF Purchase, FirstMatch
  <1>4. CASE \E f \in Fruits : Matches(order, f)
    <2>1. PICK f \in Fruits, old \in {quan, NoDigits} :
            /\ FirstMatch(order, f)
            /\ quan' = Overlay(order.qty, old)
            /\ IF Enough(f, quan'.n)
               THEN /\ sales' = Append(sales, [item |-> f, qty |-> quan'.n,
                                              to |-> cur, by |-> cad])
                    /\ i' = Success
               ELSE i' = AsChar(stock[f]) /\ UNCHANGED <<stock, sales>>
      BY <1>4 DEF Purchase
    <2>2. Names[f] = Lowered(asked[cur]).name
      <3>1. Agree(Lowered(asked[cur]).name, Names[f])
        BY <1>1, <2>1 DEF FirstMatch, Matches
      <3>2. Lowered(asked[cur]).name \in {Lowered(o).name : o \in Orders} \cup ToSet(Names)
        BY <1>1
      <3> QED BY <3>1, <3>2 DEF Plain, PlainNames
    <2>3. quan' = asked[cur].qty
      <3>1. order.qty = asked[cur].qty
        BY <1>1, LoweredQty
      <3>2. old.w = 0 \/ \E p \in Orders : old.w = p.qty.w
        BY DEF OrderInv, Plain, NoDigits
      <3>3. Overlay(asked[cur].qty, old) = asked[cur].qty
        BY <1>1, <3>2, OverlaySame DEF Plain
      <3> QED BY <2>1, <3>1, <3>3
    <2>4. stock[f] \in 0..127
      <3>1. stock[f] \in Nat
        BY DEF TypeOK, ShopOK
      <3>2. stock[f] <= 127
        BY DEF OrderInv, Plain
      <3> QED BY <3>1, <3>2
    <2>5. CASE Enough(f, quan'.n)
      BY <2>1, <2>2, <2>3, <2>5
    <2>6. CASE ~Enough(f, quan'.n)
      <3>1. i' = stock[f] /\ UNCHANGED <<stock, sales>>
        BY <2>1, <2>4, <2>6, AsCharSame
      <3>2. stock[f] < asked[cur].qty.n
        BY <1>2, <2>3, <2>4, <2>6 DEF Enough
      <3>3. i' >= 0 /\ stock[f] = i' /\ i' < asked[cur].qty.n
        BY <2>4, <3>1, <3>2
      <3>4. \E g \in Fruits : /\ Names[g] = Lowered(asked[cur]).name
                              /\ stock[g] = i' /\ i' < asked[cur].qty.n
        BY <2>2, <3>3
      <3> QED BY <3>1, <3>3, <3>4
    <2> QED BY <2>5, <2>6
  <1> QED BY <1>3, <1>4

\* One more sale, to cur, of what it ordered.
LEMMA SaleBoughtOnce ==
  ASSUME TypeOK, cur \in Clients, cad \in Addresses \cup {NULL}, Unsold(cur), asked' = asked,
         NEW f \in Fruits, NEW q \in Nat,
         sales' = Append(sales, [item |-> f, qty |-> q, to |-> cur, by |-> cad])
  PROVE  /\ \A d \in Clients : d # cur /\ BoughtOnce(d) => BoughtOnce(d)'
         /\ Names[f] = Lowered(asked[cur]).name /\ q = asked[cur].qty.n =>
              \E k \in DOMAIN sales' :
                /\ sales'[k].to = cur
                /\ Names[sales'[k].item] = Lowered(asked[cur]).name
                /\ sales'[k].qty = asked[cur].qty.n
                /\ \A j \in DOMAIN sales' : sales'[j].to = cur => j = k
  <1> DEFINE e == [item |-> f, qty |-> q, to |-> cur, by |-> cad]
  <1>1. sales \in Seq(Sale) /\ e \in Sale
    BY DEF TypeOK, ShopOK, Sale
  <1>2. e.to = cur /\ e.item = f /\ e.qty = q
    OBVIOUS
  <1> HIDE DEF e
  <1>3. /\ DOMAIN sales = 1..Len(sales) /\ DOMAIN sales' = 1..(Len(sales) + 1)
        /\ \A k \in 1..Len(sales) : sales'[k] = sales[k]
        /\ sales'[Len(sales) + 1] = e /\ Len(sales) \in Nat
    BY <1>1, Appended DEF e
  <1>4. ASSUME NEW d \in Clients, d # cur, BoughtOnce(d) PROVE BoughtOnce(d)'
    <2>1. PICK k \in DOMAIN sales : /\ sales[k].to = d /\ Exactly(d, k)
                                    /\ \A j \in DOMAIN sales : sales[j].to = d => j = k
      BY <1>4 DEF BoughtOnce
    <2>2. \A j \in DOMAIN sales' : sales'[j].to = d => j = k
      BY <1>2, <1>3, <1>4, <2>1
    <2>3. k \in DOMAIN sales' /\ sales'[k] = sales[k]
      BY <1>3, <2>1
    <2>4. Exactly(d, k)'
      BY <2>1, <2>3 DEF Exactly
    <2> QED BY <2>1, <2>2, <2>3, <2>4 DEF BoughtOnce
  <1>5. \A j \in DOMAIN sales' : sales'[j].to = cur => j = Len(sales) + 1
    BY <1>3 DEF Unsold
  <1>6. Len(sales) + 1 \in DOMAIN sales'
    BY <1>3
  <1> QED BY <1>2, <1>3, <1>4, <1>5, <1>6

LEMMA PurchaseAnswer ==
  ASSUME TypeOK, OutcomeInv, OrderInv, AnswerInv, Plain, Purchase PROVE AnswerInv'
  <1>1. /\ UNCHANGED <<phase, asked, told, cur, down>> /\ pc = "purchase" /\ pc' = "reply"
        /\ cur \in Clients /\ cad \in Addresses \cup {NULL} /\ Unsold(cur)
    BY DEF Purchase, TypeOK, MainOK, OutcomeInv
  <1>2. ASSUME NEW d \in Clients, Done(d) PROVE d # cur
    BY <1>1, <1>2 DEF AnswerInv, BoughtOnce, Unsold
  <1>3. ASSUME NEW d \in Clients, NEW n, TooFew(d, n), n \in Int
        PROVE  \E f \in Fruits : /\ Names[f] = Lowered(asked[d]).name
                                 /\ n < asked[d].qty.n /\ stock'[f] <= n
    <2>1. PICK f \in Fruits : /\ Names[f] = Lowered(asked[d]).name
                              /\ n < asked[d].qty.n /\ stock[f] <= n
      BY <1>3 DEF TooFew
    <2>2. stock[f] \in Nat /\ stock \in [Fruits -> Nat]
      BY DEF TypeOK, ShopOK
    <2>3. stock'[f] \in Int /\ stock'[f] <= stock[f]
      <3>1. CASE stock' = stock
        BY <2>2, <3>1
      <3>2. ASSUME NEW g \in Fruits, NEW q \in Nat, stock' = [stock EXCEPT ![g] = @ - q]
            PROVE  stock'[f] \in Int /\ stock'[f] <= stock[f]
        <4>1. stock'[f] = stock[f] \/ stock'[f] = stock[f] - q
          BY <2>2, <3>2
        <4> QED BY <2>2, <4>1
      <3> QED BY <3>1, <3>2, PurchaseSells
    <2> QED BY <1>3, <2>1, <2>2, <2>3
  <1>4. ASSUME NEW d \in Clients, BoughtOnce(d), d # cur PROVE BoughtOnce(d)'
    <2>1. CASE sales' = sales
      BY <1>1, <1>4, <2>1 DEF BoughtOnce, Exactly
    <2>2. CASE sales' # sales
      <3>1. PICK f \in Fruits, q \in Nat :
              sales' = Append(sales, [item |-> f, qty |-> q, to |-> cur, by |-> cad])
        BY <2>2, PurchaseSells
      <3> QED BY <1>1, <1>4, <3>1, SaleBoughtOnce
    <2> QED BY <2>1, <2>2
  <1>5. ASSUME phase[cur] \notin Ended
        PROVE  (i' = Success /\ BoughtOnce(cur)') \/ i' = NoFruit \/ (i' >= 0 /\ TooFew(cur, i)')
    <2>1. CASE i' = NoFruit
      BY <2>1
    <2>2. ASSUME i' >= 0, UNCHANGED <<stock, sales>>, NEW f \in Fruits,
                 Names[f] = Lowered(asked[cur]).name, stock[f] = i', i' < asked[cur].qty.n
          PROVE  i' >= 0 /\ TooFew(cur, i)'
      <3>1. stock'[f] = i' /\ stock'[f] \in Nat
        BY <2>2 DEF TypeOK, ShopOK
      <3>2. stock'[f] <= i'
        BY <3>1
      <3> QED BY <1>1, <2>2, <3>2 DEF TooFew
    <2>3. ASSUME i' = Success, NEW f \in Fruits, Names[f] = Lowered(asked[cur]).name,
                 sales' = Append(sales, [item |-> f, qty |-> asked[cur].qty.n,
                                        to |-> cur, by |-> cad])
          PROVE  BoughtOnce(cur)'
      <3>1. asked[cur].qty.n \in Nat
        BY <1>1, <1>5, ShopAssumption DEF OrderInv, Number
      <3>2. PICK k \in DOMAIN sales' :
                /\ sales'[k].to = cur
                /\ Names[sales'[k].item] = Lowered(asked[cur]).name
                /\ sales'[k].qty = asked[cur].qty.n
                /\ \A j \in DOMAIN sales' : sales'[j].to = cur => j = k
        BY <1>1, <2>3, <3>1, SaleBoughtOnce
      <3> QED BY <1>1, <3>2 DEF BoughtOnce, Exactly
    <2> QED BY <1>5, <2>1, <2>2, <2>3, PurchaseResult
  <1>6. \A d \in Clients : Done(d)' => BoughtOnce(d)'
    BY <1>1, <1>2, <1>4 DEF AnswerInv, Done
  <1>7. ASSUME NEW d \in Clients, NEW k \in DOMAIN down[d], down[d][k].kind = "left"
        PROVE  TooFew(d, down[d][k].n)'
    <2>1. down[d] \in Seq(Message)
      BY DEF TypeOK, ConnectionsOK
    <2>2. down[d][k] \in Message
      BY <2>1
    <2>3. down[d][k].n \in Int
      BY <2>2 DEF Message
    <2>4. TooFew(d, down[d][k].n)
      BY <1>7 DEF AnswerInv
    <2> QED BY <1>1, <1>3, <2>3, <2>4 DEF TooFew
  <1>8. ASSUME NEW d \in Clients, told[d].kind = "warned" PROVE TooFew(d, told[d].n)'
    <2>1. told[d].n \in Int
      BY DEF TypeOK, ClientsOK, Message
    <2>2. TooFew(d, told[d].n)
      BY <1>1, <1>8 DEF AnswerInv
    <2> QED BY <1>1, <1>3, <2>1, <2>2 DEF TooFew
  <1> QED BY <1>1, <1>5, <1>6, <1>7, <1>8 DEF AnswerInv

LEMMA ReplyAnswer ==
  ASSUME TypeOK, AnswerInv, Reply \/ SendLeft PROVE AnswerInv'
  <1>1. /\ UNCHANGED <<phase, asked, told, cur, stock, sales, i>> /\ cur \in Clients
        /\ pc \in {"reply", "left"} /\ pc' \in {"left", "accept"} /\ i \in Int
    BY DEF Reply, SendLeft, TypeOK, MainOK
  <1>2. /\ \A d \in Clients : BoughtOnce(d)' <=> BoughtOnce(d)
        /\ TooFew(cur, i)' <=> TooFew(cur, i)
    BY <1>1 DEF BoughtOnce, Exactly, TooFew
  <1>3. PICK msg \in Message :
          /\ Wrote(msg)
          /\ phase[cur] \notin Ended /\ msg.kind = "done" => BoughtOnce(cur)
          /\ phase[cur] \notin Ended /\ msg.kind = "left" => msg.n = i /\ TooFew(cur, i)
          /\ phase[cur] \notin Ended /\ pc' = "left" => TooFew(cur, i)
    <2>1. /\ \A kind \in {"no_quan", "no_fruit", "done"} :
               Msg(kind, 0) \in Message /\ Msg(kind, 0).kind = kind
          /\ Msg("left", i) \in Message /\ Msg("left", i).kind = "left" /\ Msg("left", i).n = i
      BY <1>1 DEF Msg, Message
    <2>2. CASE Reply /\ i >= 0 /\ Write(Msg("no_quan", 0))
      <3>1. phase[cur] \notin Ended => TooFew(cur, i)
        BY <2>2 DEF Reply, AnswerInv, Success, NoFruit
      <3> QED BY <1>1, <2>1, <2>2, <3>1, WriteDoes
    <2>3. CASE Reply /\ i = NoFruit /\ Write(Msg("no_fruit", 0)) /\ pc' = "accept"
      BY <1>1, <2>1, <2>3, WriteDoes
    <2>4. CASE Reply /\ i < 0 /\ i # NoFruit /\ Write(Msg("done", 0)) /\ pc' = "accept"
      <3>1. phase[cur] \notin Ended => BoughtOnce(cur)
        BY <1>1, <2>4 DEF Reply, AnswerInv
      <3> QED BY <1>1, <2>1, <2>4, <3>1, WriteDoes
    <2>5. CASE SendLeft
      <3>1. (phase[cur] \notin Ended => TooFew(cur, i)) /\ Write(Msg("left", i)) /\ pc' = "accept"
        BY <2>5 DEF SendLeft, AnswerInv
      <3> QED BY <1>1, <2>1, <3>1, WriteDoes
    <2> QED BY <2>2, <2>3, <2>4, <2>5 DEF Reply
  <1>4. ASSUME NEW d \in Clients, NEW k \in DOMAIN down'[d]
        PROVE  \/ k \in DOMAIN down[d] /\ down'[d][k] = down[d][k]
               \/ d = cur /\ phase[cur] \notin Ended /\ down'[d][k] = msg
    BY <1>3, <1>4 DEF Wrote
  <1>5. \A d \in Clients : Done(d)' => BoughtOnce(d)'
    BY <1>1, <1>2, <1>3, <1>4 DEF AnswerInv, Done
  <1>6. ASSUME NEW d \in Clients, NEW k \in DOMAIN down'[d], down'[d][k].kind = "left"
        PROVE  TooFew(d, down[d][k].n)'
    <2>1. CASE k \in DOMAIN down[d] /\ down'[d][k] = down[d][k]
      <3>1. TooFew(d, down[d][k].n)
        BY <1>6, <2>1 DEF AnswerInv
      <3> QED BY <1>1, <2>1, <3>1 DEF TooFew
    <2>2. CASE d = cur /\ phase[cur] \notin Ended /\ down'[d][k] = msg
      <3>1. TooFew(cur, i) /\ down'[d][k].n = i
        BY <1>3, <1>6, <2>2
      <3> QED BY <1>1, <2>2, <3>1 DEF TooFew
    <2> QED BY <1>4, <1>6, <2>1, <2>2
  <1>7. \A d \in Clients : told'[d].kind = "warned" =>
          TooFew(d, told[d].n)' \/ (pc' = "exited" /\ told'[d].n = 0)
    BY <1>1 DEF AnswerInv, TooFew
  <1> QED BY <1>1, <1>2, <1>3, <1>5, <1>6, <1>7 DEF AnswerInv

LEMMA AnswerStep ==
  ASSUME Plain, TypeOK, OutcomeInv, AskInv, OrderInv, SeenInv, AnswerInv, [Next]_vars
  PROVE  AnswerInv'
  <1>1. CASE UNCHANGED vars
    BY <1>1 DEF vars, AnswerInv, Done, BoughtOnce, Exactly, TooFew, Success, NoFruit
  <1> QED BY <1>1, ClientStepDoes, ClientAnswer, QuietAnswer, PurchaseAnswer, ReplyAnswer
          DEF Next, HandleConnection

\* At the start nobody has asked, heard or bought.
LEMMA InitAnswer == Init => AskInv /\ OrderInv /\ SeenInv /\ AnswerInv
  <1> SUFFICES ASSUME Init PROVE AskInv /\ OrderInv /\ SeenInv /\ AnswerInv
    OBVIOUS
  <1>1. /\ pc = "accept" /\ backlog = <<>> /\ sales = <<>> /\ stock = InitialStock
        /\ quan.w = 0 /\ order \in {Unmatched, EmptyText}
        /\ \A c \in Clients : /\ phase[c] = "idle" /\ told[c].kind = "none" /\ up[c] = <<>>
                              /\ down[c] = <<>> /\ dropped[c] = FALSE
    BY DEF Init, Msg, NoDigits
  <1>2. AskInv
    BY <1>1 DEF AskInv, Answered
  <1>3. OrderInv
    BY <1>1 DEF OrderInv, SmallStock
  <1>4. SeenInv
    BY <1>1 DEF SeenInv
  <1>5. AnswerInv
    BY <1>1 DEF AnswerInv, Done
  <1> QED BY <1>2, <1>3, <1>4, <1>5

\* If all numbers have one width, no name is the beginning of another and
\* quantities fit into a char: who is told that its order is done was sold what
\* it asked for, once; who is told that only N are left asked for more than
\* that, and there are not more now, or the server ended before it sent N and
\* N is 0.  Of who is told anything else, nothing is said.
THEOREM AnswersRight == Spec => []AnsweredRight
  <1> DEFINE Inv == AskInv /\ OrderInv /\ SeenInv /\ (Plain => AnswerInv)
             Turns == TypeOK /\ TurnInv /\ OutcomeInv
  <1>1. Init => Turns /\ Inv
    <2>1. Init => TurnInv /\ OutcomeInv
      BY DEF Init, TurnInv, OutcomeInv, Serving, Unsold, Refused, Queued, Msg
    <2> QED BY <2>1, InitType, InitAnswer
  <1>2. Turns /\ Inv /\ [Next]_vars => Turns' /\ Inv'
    <2>1. Turns /\ [Next]_vars => Turns'
      BY TypeStep, TurnStep
    <2>2. Turns /\ Inv /\ [Next]_vars => AskInv' /\ OrderInv' /\ SeenInv'
      BY AskStep, OrderStep, SeenStep
    <2>3. Turns /\ Inv /\ [Next]_vars /\ Plain => AnswerInv'
      BY AnswerStep
    <2>4. Plain' <=> Plain
      BY DEF Plain, OneWidth, SmallStock, PlainNames, Lowered, Agree
    <2> QED BY <2>1, <2>2, <2>3, <2>4
  <1>3. Turns /\ Inv => AnsweredRight
    <2> SUFFICES ASSUME Inv, OneWidth, SmallStock, PlainNames
                 PROVE  AsOrdered /\ \A c \in Clients : told[c].kind = "warned" =>
                                       TooFew(c, told[c].n) \/ (~Alive /\ told[c].n = 0)
      BY DEF AnsweredRight, DoneAsOrdered, WarnedRight, FewerLeft, TooFew
    <2>1. AnswerInv
      BY DEF Plain
    <2>2. AsOrdered
      <3> SUFFICES ASSUME NEW c \in Clients, told[c].kind = "done"
                   PROVE  /\ \E k \in DOMAIN sales : sales[k].to = c /\ Exactly(c, k)
                          /\ \A j, k \in DOMAIN sales :
                               sales[j].to = c /\ sales[k].to = c => j = k
        BY DEF AsOrdered
      <3>1. BoughtOnce(c)
        BY <2>1 DEF AnswerInv, Done
      <3> QED BY <3>1 DEF BoughtOnce
    <2>3. \A c \in Clients : told[c].kind = "warned" =>
            TooFew(c, told[c].n) \/ (~Alive /\ told[c].n = 0)
      BY <2>1 DEF AnswerInv, Alive
    <2> QED BY <2>2, <2>3
  <1> HIDE DEF Inv, Turns
  <1> QED BY <1>1, <1>2, <1>3, PTL DEF Spec

=============================================================================

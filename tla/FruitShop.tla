------------------------------ MODULE FruitShop ------------------------------
(***************************************************************************)
(* The fruit shop CN1/server.c and its clients CN1/client.c.               *)
(*                                                                         *)
(* The server takes one connection after the other: it sends the number of *)
(* its customers, reads one order "fruit.quantity", and answers with done, *)
(* no_fruit, or no_quan and, a second later, what is left.  There is one   *)
(* step per system call; any client may be ended, and the server may be    *)
(* interrupted, between two of them.                                       *)
(*                                                                         *)
(* A name is a sequence of letters.  A number on the wire is its value and *)
(* its width in digits.  What the code reads from memory it never wrote is *)
(* chosen from what can be there.                                          *)
(***************************************************************************)
EXTENDS Integers, Sequences, SequencesExt

CONSTANTS
  Clients,        \* runs of client.c
  Addr,           \* Addr[c]: IP address and port of c; ports may be reused
  Letters, Lower, \* characters; tolower
  Names,          \* names of the fruits, in the order of the file
  InitialStock,   \* their quantities in the file
  Orders,         \* orders a client may be started with
  ClientLens,     \* what an uninitialised client_len can hold
  MAX_CON,        \* queue length of listen
  MaxFd,          \* descriptors left for connections
  Mortal,         \* clients that may be killed
  Interrupts,     \* whether the server may get SIGINT
  NULL

Fruits == DOMAIN Names

\* Numbers of at most four digits fit into char quantity[5].
Number == [n : Nat, w : 0..4]

ASSUME ShopAssumption ==
  /\ Lower \in [Letters -> Letters]
  /\ Names \in Seq(Seq(Letters)) /\ InitialStock \in [Fruits -> Nat]
  /\ Orders \subseteq [name : Seq(Letters), qty : Number]
  /\ \A o \in Orders : o.qty.n > 0
  /\ ClientLens \subseteq {"full", "short", "negative"} /\ ClientLens # {}
  /\ MAX_CON \in Nat /\ MaxFd \in Nat
  /\ Mortal \subseteq Clients /\ Interrupts \in BOOLEAN
  /\ NULL \notin Clients /\ NULL \notin Seq(Letters)
  /\ \A c \in Clients : Addr[c] # NULL

VARIABLES
  phase, asked, told,        \* clients: where they are, their order, the end
  up, down, reset, dropped,  \* connections
  backlog, nOpen,            \* kernel: listen queue, open connections
  pc, cur, cad, clientLen,   \* main; NULL for an address of zeros
  order, quan, i,            \* handle_connection, purchase
  stock,                     \* fruits[].quantity
  head, uniqueConn,          \* the list of customers; session_unique_conn
  sales                      \* history of sales

clientVars == <<phase, asked, told>>
connVars   == <<up, down, reset, dropped>>
mainVars   == <<cur, cad, clientLen>>
saleVars   == <<quan, i, stock, sales>>
listVars   == <<head, uniqueConn>>

vars == <<clientVars, connVars, backlog, nOpen, pc, mainVars, order, saleVars,
          listVars>>

Ended == {"closed", "killed"}

\* Bytes that name no fruit; the empty string; no digits.
Unmatched == [name |-> NULL, qty |-> [n |-> 0, w |-> 0]]
EmptyText == [name |-> <<>>, qty |-> [n |-> 0, w |-> 0]]
NoDigits  == [n |-> 0, w |-> 0]

Msg(kind, n) == [kind |-> kind, n |-> n]

Init ==
  /\ phase = [c \in Clients |-> "idle"]
  /\ asked = [c \in Clients |-> Unmatched]
  /\ told  = [c \in Clients |-> Msg("none", 0)]
  /\ up      = [c \in Clients |-> <<>>]
  /\ down    = [c \in Clients |-> <<>>]
  /\ reset   = [c \in Clients |-> FALSE]
  /\ dropped = [c \in Clients |-> FALSE]
  /\ backlog = <<>>
  /\ nOpen = 0
  /\ pc  = "accept"
  /\ cur = NULL
  /\ cad = NULL
  /\ clientLen \in ClientLens
  /\ order \in {Unmatched, EmptyText}
  /\ quan  = NoDigits
  /\ i     = 0
  /\ stock = InitialStock
  /\ head = <<>>
  /\ uniqueConn = 0
  /\ sales = <<>>

Alive == pc # "exited"

-----------------------------------------------------------------------------
(* client.c                                                                *)

Active(c) == phase[c] \notin {"idle"} \cup Ended

\* connect(); an address is used by one client at a time.
Connect(c) ==
  /\ phase[c] = "idle" /\ Alive
  /\ \A d \in Clients \ {c} : Addr[d] = Addr[c] => ~Active(d)
  /\ Len(backlog) < MAX_CON
  /\ phase' = [phase EXCEPT ![c] = "connected"]
  /\ backlog' = Append(backlog, c)
  /\ UNCHANGED <<asked, told, connVars, nOpen, pc, mainVars, order, saleVars,
                 listVars>>

\* Mutant: a read that returns 0 is repeated.
AtEndMutant(c) == FALSE

\* The next read finds nothing and will find nothing.
AtEnd(c) == dropped[c] /\ down[c] = <<>>

\* The number of customers, or nothing when the server has gone; a client
\* goes on even if the read fails.
ReadCount(c) ==
  /\ phase[c] = "connected"
  /\ down[c] # <<>> \/ AtEnd(c)
  /\ phase' = [phase EXCEPT ![c] = "counted"]
  /\ down' = [down EXCEPT ![c] = <<>>]
  /\ UNCHANGED <<asked, told, up, reset, dropped, backlog, nOpen, pc, mainVars,
                 order, saleVars, listVars>>

\* The process ends; what it left unread makes its kernel send RST.
End(c, how) ==
  /\ phase' = [phase EXCEPT ![c] = how]
  /\ reset' = [reset EXCEPT ![c] = down'[c] # <<>>]

\* write(fd, buf, BUF_SIZE): "fruit.quantity", padded with zeros.  To a
\* server that has gone it may be lost or raise SIGPIPE.
SendOrder(c) ==
  /\ phase[c] = "counted"
  /\ \E o \in Orders :
       /\ asked' = [asked EXCEPT ![c] = o]
       /\ up' = [up EXCEPT ![c] = IF dropped[c] THEN <<>> ELSE <<o>>]
  /\ UNCHANGED <<told, down, dropped, backlog, nOpen, pc, mainVars, order,
                 saleVars, listVars>>
  /\ \/ phase' = [phase EXCEPT ![c] = "waiting"] /\ UNCHANGED reset
     \/ dropped[c] /\ End(c, "killed")

\* What client.c makes of the bytes of one read.  A count never comes here.
Verdict(msgs) == IF Len(msgs) = 1 /\ msgs[1].kind \in {"no_fruit", "done"}
                 THEN msgs[1] ELSE Msg("unknown", 0)

\* read() returns any part of the messages waiting, as one string.
ReadReply(c) ==
  /\ phase[c] = "waiting"
  /\ \E k \in 0..Len(down[c]) :
       /\ k = 0 => AtEnd(c)
       /\ down' = [down EXCEPT ![c] = SubSeq(@, k + 1, Len(@))]
       /\ IF k = 1 /\ down[c][1].kind = "no_quan"
          THEN /\ phase' = [phase EXCEPT ![c] = "short"]
               /\ UNCHANGED <<told, reset>>
          ELSE /\ told' = [told EXCEPT ![c] = Verdict(SubSeq(down[c], 1, k))]
               /\ End(c, "closed")
  /\ UNCHANGED <<asked, up, dropped, backlog, nOpen, pc, mainVars, order,
                 saleVars, listVars>>

\* The message after no_quan is the quantity; at end of file atoi("") is 0,
\* and a read that fails prints nothing.
ReadQuantity(c) ==
  /\ phase[c] = "short"
  /\ down[c] # <<>> \/ AtEnd(c)
  /\ told' = [told EXCEPT ![c] =
       IF down[c] # <<>> THEN Msg("warned", Head(down[c]).n) ELSE Msg("warned", 0)]
  /\ down' = [down EXCEPT ![c] = <<>>]
  /\ End(c, "closed")
  /\ UNCHANGED <<asked, up, dropped, backlog, nOpen, pc, mainVars, order,
                 saleVars, listVars>>

\* A read fails with a connection the server's kernel has reset.
ReadFails(c) ==
  /\ phase[c] \in {"waiting", "short"} /\ AtEnd(c)
  /\ told' = [told EXCEPT ![c] = Msg("error", 0)]
  /\ UNCHANGED down
  /\ End(c, "closed")
  /\ UNCHANGED <<asked, up, dropped, backlog, nOpen, pc, mainVars, order,
                 saleVars, listVars>>

Kill(c) ==
  /\ c \in Mortal /\ Active(c)
  /\ UNCHANGED down
  /\ End(c, "killed")
  /\ UNCHANGED <<asked, told, up, dropped, backlog, nOpen, pc, mainVars, order,
                 saleVars, listVars>>

-----------------------------------------------------------------------------
(* server.c                                                                *)

\* accept(): client_len is not set before the first call.  Too short a
\* length leaves cad zero and is corrected by the call; a negative one makes
\* every accept fail and close the connection.
Accept ==
  /\ pc = "accept" /\ backlog # <<>> /\ nOpen < MaxFd
  /\ backlog' = Tail(backlog)
  /\ IF clientLen = "negative"
     THEN /\ dropped' = [dropped EXCEPT ![Head(backlog)] = TRUE]
          /\ UNCHANGED <<pc, mainVars, nOpen>>
     ELSE /\ cur' = Head(backlog)
          /\ cad' = IF clientLen = "short" THEN NULL ELSE Addr[cur']
          /\ clientLen' = "full"
          /\ nOpen' = nOpen + 1
          /\ pc' = "count"
          /\ UNCHANGED dropped
  /\ UNCHANGED <<clientVars, up, down, reset, order, saleVars, listVars>>

\* write() to the client: queued for it, or lost on a client that has ended,
\* whose kernel answers with RST.
Write(msg) ==
  IF phase[cur] \in Ended
  THEN reset' = [reset EXCEPT ![cur] = TRUE] /\ UNCHANGED down
  ELSE down' = [down EXCEPT ![cur] = Append(@, msg)] /\ UNCHANGED reset

WriteCount ==
  /\ pc = "count"
  /\ Write(Msg("count", uniqueConn))
  /\ pc' = "read"
  /\ UNCHANGED <<clientVars, up, dropped, backlog, nOpen, mainVars, order,
                 saleVars, listVars>>

Lowered(o) == [o EXCEPT !.name = [k \in DOMAIN @ |-> Lower[@[k]]]]

\* read(c_fd, order, BUF_SIZE): the order; or 0 at end of file, which is not
\* tested, so that order is what the last call left on the stack, if nothing
\* wrote over it; or -1 after a reset.
ReadOrder ==
  /\ pc = "read"
  /\ IF up[cur] # <<>>
     THEN order' = Lowered(up[cur][1])
     ELSE phase[cur] \in Ended /\ order' \in {order, EmptyText, Unmatched}
  /\ up' = [up EXCEPT ![cur] = <<>>]
  /\ pc' = "purchase"
  /\ UNCHANGED <<clientVars, down, reset, dropped, backlog, nOpen, mainVars,
                 saleVars, listVars>>

ReadOrderFails ==
  /\ pc = "read"
  /\ up[cur] = <<>> /\ phase[cur] \in Ended /\ reset[cur]
  /\ dropped' = [dropped EXCEPT ![cur] = TRUE]
  /\ nOpen' = nOpen - 1
  /\ pc' = "accept"
  /\ UNCHANGED <<clientVars, up, down, reset, backlog, mainVars, order,
                 saleVars, listVars>>

\* Request and name agree as far as both go.
Agree(s, t) == \A k \in DOMAIN s \cap DOMAIN t : s[k] = t[k]

\* The first fruit of the file whose name agrees with the order.
Matches(o, f) == o.name # NULL /\ Agree(o.name, Names[f])

FirstMatch(o, f) == Matches(o, f) /\ \A g \in 1..(f - 1) : ~Matches(o, g)

Pow10 == <<10, 100, 1000, 10000>>

\* Mutant: the digits are appended to those of the last order.
OverlayMutant(new, old) == IF old.w = 0 THEN new ELSE old

\* The digits of the order are copied to quantity[] without a final zero:
\* atoi goes on into digits left there by an earlier, longer number.
Overlay(new, old) ==
  IF old.w <= new.w THEN new
  ELSE LET p == Pow10[old.w - new.w] IN [n |-> (new.n * p) + (old.n % p), w |-> old.w]

\* i is a char.
AsChar(n) == ((n + 128) % 256) - 128

\* Mutants: no test; the last pieces are never sold.
EnoughMutant(f, n) == TRUE

Enough(f, n) == stock[f] >= n

\* Mutant: success is 0, which the caller takes for a quantity.
SuccessMutant == 0

\* What purchase returns after a sale, and when there is no such fruit.
Success == -1
NoFruit == -2

\* purchase(); quantity[] still has its digits or was overwritten.
Purchase ==
  /\ pc = "purchase"
  /\ \/ \E f \in Fruits, old \in {quan, NoDigits} :
          /\ FirstMatch(order, f)
          /\ quan' = Overlay(order.qty, old)
          /\ IF Enough(f, quan'.n)
             THEN /\ stock' = [stock EXCEPT ![f] = @ - quan'.n]
                  /\ sales' = Append(sales, [item |-> f, qty |-> quan'.n,
                                            to |-> cur, by |-> cad])
                  /\ i' = Success
             ELSE i' = AsChar(stock[f]) /\ UNCHANGED <<stock, sales>>
     \/ /\ \A f \in Fruits : ~Matches(order, f)
        /\ i' = NoFruit
        /\ UNCHANGED <<quan, stock, sales>>
  /\ pc' = "reply"
  /\ UNCHANGED <<clientVars, connVars, backlog, nOpen, mainVars, order, listVars>>

\* Mutants: the search always fails; it succeeds whenever there is a list.
SearchMutant == FALSE
SearchMutantAny == head # <<>>

Search == \E k \in DOMAIN head : head[k] = cad

\* search and insert: a customer is listed and counted once.
Enlist == IF Search THEN UNCHANGED listVars
          ELSE head' = Append(head, cad) /\ uniqueConn' = uniqueConn + 1

\* The answer to i.
Reply ==
  /\ pc = "reply"
  /\ \/ i >= 0 /\ Write(Msg("no_quan", 0)) /\ pc' = "left" /\ UNCHANGED listVars
     \/ i = NoFruit /\ Write(Msg("no_fruit", 0)) /\ pc' = "accept" /\ UNCHANGED listVars
     \/ i < 0 /\ i # NoFruit /\ Write(Msg("done", 0)) /\ pc' = "accept" /\ Enlist
  /\ UNCHANGED <<clientVars, up, dropped, backlog, nOpen, mainVars, order, saleVars>>

\* After sleep(1): what is left.
SendLeft ==
  /\ pc = "left"
  /\ Write(Msg("left", i))
  /\ pc' = "accept"
  /\ UNCHANGED <<clientVars, up, dropped, backlog, nOpen, mainVars, order,
                 saleVars, listVars>>

\* SIGINT: server_exit asks the operator and waits for the answer; main stops
\* where it is, and no connection is closed.
Interrupt ==
  /\ Interrupts /\ Alive /\ pc # "asking"
  /\ pc' = "asking"
  /\ UNCHANGED <<clientVars, connVars, backlog, nOpen, mainVars, order, saleVars,
                 listVars>>

\* The process ends and its kernel closes all connections.
ServerEnds ==
  /\ pc' = "exited"
  /\ dropped' = [c \in Clients |-> TRUE]
  /\ backlog' = <<>>
  /\ UNCHANGED <<clientVars, up, down, reset, nOpen, mainVars, order, saleVars,
                 listVars>>

\* write() on a reset connection raises SIGPIPE, which nobody catches.
BrokenPipe == pc \in {"reply", "left"} /\ reset[cur] /\ ServerEnds

\* The operator has answered: server_exit shows the list or not, and exits.
ServerExit == pc = "asking" /\ ServerEnds

-----------------------------------------------------------------------------
ClientProgram(c) == ReadCount(c) \/ SendOrder(c) \/ ReadReply(c) \/ ReadQuantity(c)
                      \/ ReadFails(c)

HandleConnection == WriteCount \/ ReadOrder \/ ReadOrderFails \/ Purchase \/ Reply
                      \/ SendLeft \/ BrokenPipe

Next == \/ \E c \in Clients : Connect(c) \/ ClientProgram(c) \/ Kill(c)
        \/ Accept \/ HandleConnection \/ Interrupt \/ ServerExit

Spec == Init /\ [][Next]_vars

\* Both programs run without waiting for a user, until the operator is asked:
\* an answer may never come.
FairSpec == /\ Spec
            /\ WF_vars(Accept \/ HandleConnection)
            /\ \A c \in Clients : WF_vars(ClientProgram(c))

-----------------------------------------------------------------------------
(* Safety.                                                                 *)

Addresses == {Addr[c] : c \in Clients}

Sale == [item : Fruits, qty : Nat, to : Clients, by : Addresses \cup {NULL}]

Message == [kind : {"none", "count", "no_quan", "left", "no_fruit", "done",
                    "warned", "unknown", "error"}, n : Int]

Order == [name : {NULL} \cup Seq(Letters), qty : Number]

ClientsOK ==
  /\ phase \in [Clients -> {"idle", "connected", "counted", "waiting", "short"} \cup Ended]
  /\ asked \in [Clients -> Orders \cup {Unmatched}]
  /\ told \in [Clients -> Message]

ConnectionsOK ==
  /\ up \in [Clients -> Seq(Orders)]
  /\ down \in [Clients -> Seq(Message)]
  /\ reset \in [Clients -> BOOLEAN] /\ dropped \in [Clients -> BOOLEAN]
  /\ backlog \in Seq(Clients)
  /\ nOpen \in 0..MaxFd

MainOK ==
  /\ pc \in {"accept", "count", "read", "purchase", "reply", "left", "asking", "exited"}
  /\ pc \notin {"accept", "asking", "exited"} => cur \in Clients /\ nOpen > 0
  /\ cur \in Clients \cup {NULL}
  /\ cad \in Addresses \cup {NULL}
  /\ clientLen \in {"full", "short", "negative"}
  /\ order \in Order
  /\ quan \in Number
  /\ i \in -128..127

ShopOK ==
  /\ stock \in [Fruits -> Nat]
  /\ head \in Seq(Addresses \cup {NULL})
  /\ uniqueConn \in Nat
  /\ sales \in Seq(Sale)

\* Every variable has its type, and who is served has an open connection.
TypeOK == ClientsOK /\ ConnectionsOK /\ MainOK /\ ShopOK

\* Stock goes down only by sales that happened, never below zero, never up,
\* whatever orders, leftovers on the stack and interruptions there are.
Stock == INSTANCE Shop WITH Items <- Fruits,
           sales <- [k \in DOMAIN sales |-> [item |-> sales[k].item, qty |-> sales[k].qty]]

ShopSpec == Stock!Spec

\* The list has no address twice, and the number sent to clients is its length.
CustomersOnce ==
  /\ \A j, k \in DOMAIN head : j # k => head[j] # head[k]
  /\ uniqueConn = Len(head)

\* Between two customers, the address of everybody something was sold to is
\* in the list.
SalesListed == pc = "accept" => \A k \in DOMAIN sales : sales[k].by \in ToSet(head)

\* A client that is told its order cannot be met was sold nothing.
RefusedUnsold ==
  \A c \in Clients : told[c].kind \in {"warned", "no_fruit"} =>
    \A k \in DOMAIN sales : sales[k].to # c

\* "Order of fruit F with quantity N is placed": N of F were sold to this
\* client, once.
Exactly(c, k) == /\ Names[sales[k].item] = Lowered(asked[c]).name
                 /\ sales[k].qty = asked[c].qty.n

AsOrdered ==
  \A c \in Clients : told[c].kind = "done" =>
    /\ \E k \in DOMAIN sales : sales[k].to = c /\ Exactly(c, k)
    /\ \A j, k \in DOMAIN sales : sales[j].to = c /\ sales[k].to = c => j = k

OneWidth == \A o, p \in Orders : o.qty.w = p.qty.w

SmallStock == \A f \in Fruits : InitialStock[f] <= 127

PlainNames == \A f \in Fruits : \A n \in {Lowered(o).name : o \in Orders} \cup ToSet(Names) :
                Agree(n, Names[f]) => n = Names[f]

\* That is so if numbers have one width, no name is the beginning of another
\* and all quantities fit into a char.
DoneAsOrdered == OneWidth /\ SmallStock /\ PlainNames => AsOrdered

\* What c was told is left of its fruit was too few for it, and never fewer
\* than are left now.
FewerLeft(c) == \E f \in Fruits : /\ Names[f] = Lowered(asked[c]).name
                                  /\ told[c].n < asked[c].qty.n /\ stock[f] <= told[c].n

\* "Only N F available" is so, also for who reads it after the server has
\* ended; only if the server ended before it sent N, N is 0.
WarnedRight ==
  OneWidth /\ SmallStock /\ PlainNames =>
    \A c \in Clients : told[c].kind = "warned" =>
      FewerLeft(c) \/ (~Alive /\ told[c].n = 0)

\* What a client is told of its order, if it is told that it was placed or
\* that too little is left, is right.
AnsweredRight == DoneAsOrdered /\ WarnedRight

\* The queue is served no more: no connection is ever closed, and every
\* accept fails when there is no descriptor left.
Stranded(c) == nOpen = MaxFd /\ c \in ToSet(backlog)

\* Everybody who connects is served or sent away, unless the server waits for
\* its operator, or has run out of descriptors before it came to this client.
EveryoneServed ==
  \A c \in Clients : phase[c] = "connected" ~>
    phase[c] \in Ended \/ [](pc = "asking" \/ Stranded(c))
=============================================================================

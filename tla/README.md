# TLA+ models of NS-lab

NS-lab is a collection of network-lab programs in C (and a little Java and
Python): servers and clients that talk over TCP sockets. The programs are
independent of each other; a *system* here is one server with its clients.
This directory models them in TLA+, checks small instances with TLC and proves
the main results for every instance with TLAPS.

## 1. Inventory

| System | Files | State | Operations | What is hard |
|---|---|---|---|---|
| Chat server | `A5/server.c` | table `clients[]` of pointers to `CLIENT {sockfd, cid, name}`, its mutex, `logs.txt`, one thread per client | accept / `add_client` / `handleClient`: name, broadcast (`send_msg`), log, farewell, close, `remove_client`, free | threads, descriptor reuse, random ids that may collide, a full table, writes that fail or block under the mutex, stream boundaries |
| Chat client | `A5/client.c` | `sockfd`, `name`, `flag`, two threads | send the name, send lines, print what arrives, exit | `main` busy-waits on `flag` and ends the process under its threads; end of file on the terminal |
| Fruit shop | `NS Lab debashish/CN1/{server,client}.c` | stock per fruit, list of customers served, their number | `purchase`, `search`/`insert`, the reply in one or two messages | prefix match of names, unterminated number, message boundaries, the descriptor that is never closed |
| Shop | `A1/C/{server,client}.c`, variant `Socket Programming in a nutshell/C/{server/shopserver,client/shopclient}.c` | stock, number of sales, buffer of the order, buffer of the reply | send two amounts, read order, reply | buffers kept from customer to customer, two amounts told apart by a pause, connections never closed, results not tested |
| File transfer | `A2/h1/h1.c` (server), `h2` (upload), `h3` (download) | `total`, files | upload, download | operation, name and contents are told apart by one `recv` each; one buffer for operation and name; `total` is never reset |
| Encoded transfer | `A3/h1/server.c`, `A3/h2/client.c` | text, encrypted file, size header, bytes to come | send size, send file, encode by rotating bits, decode | the size header runs into the file, a number cut in two, shifts of signed words |
| Java chat | `Socket Programming in a nutshell/Javachat/{MyServer,MyClient}.java` | `clientList`, shared by `main` and a thread per client | accept, read the name, add, pass lines on; nobody is ever removed | no lock around an `ArrayList`; the name is awaited in the accept loop; clients are told apart by their port |
| Calculator | `A1/B/{server,client}.c` | a buffer never cleared, an operator never initialised | evaluate an expression | what earlier clients left, arithmetic width, division by zero |
| Hello and echo examples | `A1/A`, `t_*`, `u_*`, `server.c`, `client.c`, Python | none | one message each way | - |
| Packet tools | `A4`, `CSB18010.c` | none | format and send raw packets | - |

Inside a system the parts interact over a TCP stream (which keeps bytes, not
messages, and whose two ends fail separately), and in the chat server through
shared memory under one mutex, through the kernel's descriptor table and
through the heap. Correctness is, per system:

* **Chat**: everybody sees one conversation, in one order, without their own
  lines; a visit is one join, lines, one farewell; the log has what was said;
  no thread uses a descriptor or a table entry that is not its own; everything
  a departed client held is given up. `A5/q.txt` asks for conversations "in real
  time" and for message logs "maintained in the server in a text file".
* **Shops**: stock never negative, what customers were promised plus what is
  left is what there was, each unique customer counted once, a reply is about
  the request it follows.
* **File and encoded transfer**: what is stored is what was sent, under the
  name that was asked for; decode inverts encode.
* **Java chat**: who has heard a client misses none of its later lines and
  hears none twice.
* **Chat client**: what is typed is what is sent, and no thread is left behind.
* **Calculator**: an answer is the value of the line it follows.

Hazards are listed line by line in `PROJECT.json`.

## 2. Plan

The chat system is first, being the only concurrent C program and the
longest; then the others by size of their logic.

| Order | Module | Of | Properties and theorems |
|---|---|---|---|
| done | `ChatServer`, `ChatRoom`, `ChatServerProofs`, `MCChatServer` | A5 server | section 3 |
| done | `FruitShop`, `Shop`, `FruitShopProofs`, `MCFruitShop` | CN1 server and client | section 4 |
| done | `FileTransfer`, `FileTransferProofs`, `MCFileTransfer` | A2, all three programs | section 5 |
| done | `Rotate`, `EncodedTransfer`, `EncodedTransferProofs`, `MCEncodedTransfer` | A3 | section 6 |
| done | `OrderShop` (with `Shop`), `OrderShopProofs`, `MCOrderShop` | A1/C | section 7 |
| done | `JavaChat`, `Relay`, `JavaChatProofs`, `MCJavaChat` | Javachat | section 8 |
| done | `ChatClient`, `ChatClientProofs`, `MCChatClient` | A5 client | section 9 |
| done | `Calculator`, `CalculatorProofs`, `MCCalculator` | A1/B | section 10 |

The abstract specifications are `ChatRoom` (implemented by `ChatServer`), `Shop` (by
`FruitShop` and by `OrderShop`) and `Relay` (by `JavaChat`). Clients and servers are
composed inside a module: every server module has its clients, step for step, and the
stream between them. `ChatServer` has of its client what the server can tell, and
`ChatClient` has of the server what a client can tell.

## 3. The chat server

### Modules

* `ChatServer.tla` - server, clients as far as the server can tell, and the
  kernel between them.
* `ChatRoom.tla` - what the server promises: one sequence of entries, and each
  client who is online is sent some of them, always the newest.
* `ChatServerProofs.tla` - the theorems about descriptors, threads, table and broadcast;
  in its second half those about the whole conversation and the log.
* `MCChatServer.tla` - values of the constants for TLC; one `.cfg` per run.

### State and code

| Variables | Code |
|---|---|
| `clients`, `mutex` | `clients[]`, `clients_mutex` |
| `live`, `sockfd`, `cid` | the malloc'd `CLIENT`s and their fields; `live` are those allocated |
| `newCli`, `acceptErrors` | local of `main`; calls of `accept` that failed |
| `pc`, `buf`, `msg`, `slot`, `logfd` | a thread of `handleClient`: where it is, `buff`, the argument and the loop variable of `send_msg`, the descriptor of `fp` |
| `fdtab`, `backlog` | descriptor table of the process, listen queue |
| `up[c]`, `down[c]`, `nread[c]` | bytes from client `c` not yet received; all broadcasts written to its socket, and how many it has read |
| `phase`, `sent`, `rst` | the process `client.c`; a pending reset of its connection |
| `room`, `log` | history of broadcasts; `logs.txt` |
| `collided` | history: was a cid drawn that a live `CLIENT` had |

A thread is named by the address of its `CLIENT`, which it frees as its last
act. Each blocking or shared operation is a step of its own. `add_client` and
`remove_client` are one step, because what they touch is protected by the mutex
they hold all along; `send_msg` locks, does one step per slot, and unlocks,
because its writes can block and meet clients that come and go. Between
`close` and `remove_client`, and between `fopen` and `fclose`, other threads run.
The `%`-formatting of messages is left out: an entry of `room` carries kind,
sender and the lines in it.

### What the environment may do

* A client connects once, sends its name (padded to 255 bytes), types up to
  `MaxMsgs` lines, and may end at any time. If it ends with broadcasts unread
  its connection is reset, otherwise it is closed; a server that writes to it
  may succeed (the bytes are lost) or fail.
* `recv` returns any non-empty part of what is waiting, cut between the name,
  the padding and lines. It never cuts a line in two.
* `accept` may return -1 up to `MaxAcceptErrors` times. The code does not test it.
* `malloc` may return any free address, also one just freed; what was freed keeps
  `sockfd` and `cid` until then (they lie behind the bytes the allocator
  overwrites). Reading them through an old entry is undefined in C; this is what
  the build does.
* The kernel gives the lowest free descriptor, to `accept` and `fopen` alike.

### Runs

| Run | Shows |
|---|---|
| `chat_two` | descriptors never shared; everybody hears everybody in a quiet server; one visit is one join, lines in order, one farewell; the log follows the conversation; refinement of `ChatRoom`; one `accept` may fail and become a `CLIENT` all the same |
| `chat_three` | one order of the conversation for a client that hears two others; a table of two for three clients: no dangling entry unless cids collide, every slot passed is served, nobody hears itself but through an entry that is out of date |
| `chat_live` | a broadcast ends, what is sent is read, connection and entry of who left are given up |
| `chat_reused_fd` | *violated*: a broadcast lands in `logs.txt` through a descriptor closed before its entry was removed |

The violated property states the form of `A5/logs.txt`; `PROJECT.json` quotes it
under "findings". The model shows other departures from `A5/q.txt:2` ("Each client
will see the conversations in real time"), which the properties above take into
account instead of having runs of their own: a write that fails for a client that
went away ends the broadcast for all slots behind it, two clients with one cid never
see each other, and who finds the table full can talk but not hear
(`ConversationSeenIfQuiet` excludes the three, `BroadcastReaches` says what remains);
of lines received together all are broadcast, but only the first is logged
(`LogMatchesRoom` asks for no more); padding of the name that is received late
swallows the lines behind it (`OneVisit` allows for it); a client that does not read
stops the chat, because `write` blocks under the mutex (the liveness properties take
readers that run).

`CHECK_DEADLOCK FALSE`: when all clients have come and gone the server waits in
`accept` for ever, as it should.

### Bounds

Two or three clients, as many addresses and two or three cids, so that cids
can collide and can differ. `MAX_CONNECTIONS` is 1 to 3 instead of 5: a full
table, a first, a last and a middle slot occur. `MaxFd` is two per thread (socket
and log file), so that descriptors never run out: `EMFILE` is one of the
reasons for `AcceptError`. One or two lines are enough to join lines in a buffer
and to have messages overtake. `SockBuf` (1 or 2 unread broadcasts) makes
`write` block. `Talkers` and `Leavers` limit who types and who leaves where
all of them would be too many states. In `chat_reused_fd` three clients share a
table of one, the smallest case in which a departing client, a newcomer and a log meet.
Symmetry is used where the constants treat clients alike, and never with
liveness.

### Fairness

`FairSpec` assumes that the server's threads are scheduled (`WF` of `main` and of
each thread) and that the programs of `Readers` send their name and receive.
Nothing is assumed of users. Weak fairness is enough although threads compete for
the mutex: in a bounded run there are finitely many broadcasts, so that the
mutex becomes free and stays free for who still waits. `chat_live` takes all
clients as readers until they leave: with one that does not read a broadcast
blocks for ever under the mutex.

### Proofs

All theorems are for any sets of clients, addresses and cids and any sizes,
from `ChatAssumption` alone.

* `IInv == TypeOK /\ LogsChat /\ Threads /\ Connections /\ OwnConnection` is
  inductive. `TypeOK` alone is not: the sender of an entry is what stands
  behind the thread's descriptor, and that this is a client rests on nobody
  else closing or receiving that descriptor. `Threads` says which `CLIENT`s are
  allocated, `Connections` that a client has one connection, in the backlog or
  behind one descriptor. Theorems `TypeCorrect`, `DescriptorsOwned`.
* `OrderInv` adds that exactly the holder of the mutex is sending and that it
  sends the newest entry. Hence `ConversationOrdered` and `ImplementsRoom`: taking
  the mutex publishes, a write delivers, everything else is a stutter.
* `TableInv`: as long as no cid was drawn twice, the entries are live, distinct
  and known to `main` as added. Hence `TableClean`.
* `Speaker`: a broadcast is its sender's entry until it ends. Hence `NoEcho`, for
  every step.
* `ReachInv`: a slot the loop has passed was sent the message; this needs that
  the table and descriptors of connected threads stay as they are while the
  mutex is held (`TableHeld`, `PeerKept`, `DueBefore`). Hence `LoopReaches`.

* `HistoryInv` orders the lines of a client through the four places a line can be
  in: the stream (`Stream`), the buffer of its thread (`Visits`), the room
  (`Spoken`) and the log (`Journal`). What is still in the stream is later than what
  was read (`Taken`), what is in the buffer is later than what is in the room
  (`Fresh`), and how far the thread has come says which entries exist: none
  before the join, no farewell before it leaves, a chat entry without a record only
  while the thread is between broadcast and `fclose` (`Pending`). `OneVisit` alone is not
  inductive, because whether the next entry is in order is decided in the stream. Most
  steps touch one client's places only; `Frame` says once what a step must leave alone
  for the rest to carry over. Theorems `VisitsInOrder`, `LogFollowsRoom`.
* `CalmInv` is for a server in which every cid was new, every `accept` good and
  nobody has gone. These conditions can only be lost, so that they held in every
  earlier state (`CalmBefore`) and no thread has given up (`NoGivingUp`): who has
  joined still has its thread (`Peaceful`). If there are at most `MAX_CONNECTIONS`
  threads then `add_client` finds a slot, by counting (`FreeSlot`), so that each
  thread has its seat (`Seated`), and by `ReachInv` each broadcast that has ended reached
  every seat (`Heard`). Theorem `QuietConversationSeen`.

Only model-checked: the liveness properties.

### Not modelled

Failing `malloc`, `pthread_create` and `fopen`; set-up errors before the first
`accept`; `cli_count` (never read); the overflow of `id[3]` for cid 100;
data the kernel drops when a connection is reset while the server still has
bytes to read; lines cut by `BUF_SIZE`; the text of names and times.

## 4. The fruit shop

### Modules

* `FruitShop.tla` - `CN1/server.c` and its clients `CN1/client.c`.
* `Shop.tla` - what any shop server promises: stock goes down only by recorded
  sales, never below zero, and never up.
* `FruitShopProofs.tla` - the theorems.
* `MCFruitShop.tla` - fruits, orders and addresses for TLC.

### State and code

| Variables | Code |
|---|---|
| `phase`, `asked`, `told` | the process `client.c`: where it is, its arguments, what it printed at the end |
| `up`, `down`, `reset`, `dropped` | a connection: order and answers under way; the client's side was reset; the server's side is closed |
| `backlog`, `nOpen` | listen queue; open connections, which the server does not close after a sale |
| `pc`, `cur`, `cad`, `clientLen` | `main`: the connection it serves, the client's address as `accept` stored it, the length argument of `accept` |
| `order`, `quan`, `i` | `order[]` and the digits of `quantity[]` as the stack keeps them from call to call; the result of `purchase` |
| `stock`, `head`, `uniqueConn` | `fruits[].quantity`, the list of customers, `session_unique_conn` |
| `sales` | history |

There is one step per system call on a connection; `purchase` is one step, and
the reply takes `search` and `insert` with it. A name is a sequence of letters, so
that names can be beginnings of each other; a number is its value and its width in
digits, because digits are copied without a terminating zero and `atoi` goes on
into those an earlier order left. `i` is a `char`, and stock of 128 and more is
sent as such.

What the code reads without having written it is a choice: `order` after a
`read` of 0 bytes is what the last call left or anything that names no fruit;
`quantity[]` still has its digits or not; `client_len` before the first `accept` is
large enough, too short (the address stays zero) or negative (every `accept` fails,
closing the connection).

### What the environment may do

Clients connect in any order, send one order, and may be killed (`Mortal`)
between any two steps; TCP joins `no_quan` and the quantity when they are read late; a
write to a client that has gone is lost or, the second time, raises `SIGPIPE`;
`SIGINT` may come anywhere (`Interrupts`): `server_exit` then asks the operator whether to
show the list and waits for the answer in `scanf`, with all connections open (`Interrupt`), and the
process ends once it has it (`ServerExit`). A port is used again by a later client, never by two
at once.

### Runs

| Run | Shows |
|---|---|
| `fruit_plain` | names that differ, numbers of one width, any `client_len`: types, refinement of `Shop`; buyers are listed, nobody twice; "placed" means sold as ordered, a warning gives a right number, also to a client that reads it after the server has ended, who is refused was sold nothing (`AnsweredRight` has the first two); everybody who connects comes to an end, whoever is killed, unless the operator is being asked or the descriptors have run out |
| `fruit_leftover` | *violated*: after an order of two digits, one of one digit sells another quantity |

Three clients are enough for two who share a port and one in between; orders are
one that is met, one that is too large and one for no fruit. `MaxFd` is one less than the
number of clients, so that the descriptors, which leak, run out for the third: `EveryoneServed`
says that only who is in the queue then (`Stranded`), or whoever waits while the operator is
asked, waits for ever. A server that ends before it has sent what is left makes its client
print 0, as `WarnedRight` says. `CHECK_DEADLOCK FALSE`: the server waits in `accept`
when nobody comes, and may have exited.

Names that begin alike, stock beyond a `char` and numbers of two widths break neither
`Shop` nor the list nor `RefusedUnsold`: the theorems below are for all of them.

Departures without a run of their own, which the assumptions of `DoneAsOrdered` and
`WarnedRight` name: an order for a longer or shorter name is served with the
first fruit it agrees with; a quantity beyond a `char` is announced as another
number, or taken for success or for no such fruit; a `no_quan` read together with the quantity is
printed as an unknown answer. `AnsweredRight` says nothing of a client that is told of an error
or an unknown answer.

### Fairness

`FairSpec` takes weak fairness of the server's loop and of each client's
program, which wait for no user. Connecting, being killed, interrupts and the operator's answer are
not fair.

### Proofs

For any clients, addresses, names, stock and orders, from `ShopAssumption` alone:

* `ShopTypeCorrect`: `TypeOK` is inductive; that no quantity falls below zero rests on
  the test in `purchase` and on numbers not being negative.
* `ImplementsShop`: only `Purchase` changes stock and sales, and it does so as
  `Shop` says.
* `CustomersUnique`: `CustomersOnce` is inductive.
* `CustomersListed`: `ListInv` says that every sale is listed but for the one that
  is about to be answered, whose buyer is `cur` at `cad`.
* `RefusalsHonest`: `OutcomeInv` follows the outcome from `i` through what is
  under way to what is printed, and `TurnInv` says that a client who waits in
  the queue or is being asked has not been sold or sent anything. Both together are inductive;
  neither is alone.

* `AnswersRight`, that is `DoneAsOrdered` and `WarnedRight`: `AskInv` says that a client is
  answered only behind its own order, `OrderInv` that `purchase` works on the order that was sent and
  that the digits left on the stack are never more than those of an order of the one
  width, `SeenInv` what can be behind a refusal in the stream, and `AnswerInv` follows the result of
  `purchase` to the client as `OutcomeInv` does, with the number left until the client reads it, or
  until the server ends without having sent it. The premises `OneWidth`, `SmallStock` and `PlainNames`
  are those of the property and are needed by the last two alone.

Only model-checked: `EveryoneServed`.

### Not modelled

`load_fruits` (its result is the initial state), `last_sold`, the printing of the
list, numbers of more than four digits and names longer than their arrays.

## 5. The file transfer

### Modules

* `FileTransfer.tla` - the server `h1`, the uploader `h2` and the downloader `h3`.
* `FileTransferProofs.tla` - the theorems.
* `MCFileTransfer.tla` - names, contents and operations for TLC.

### State and code

| Variables | Code |
|---|---|
| `phase`, `off`, `got` | a process `h2` or `h3`: where it is, how much of its file it has sent, the file it has written (with what stdio still holds) |
| `up`, `down`, `cEnd`, `sEnd` | a connection: bytes each way; how each side has ended, orderly (`fin`) or with unread bytes (`rst`) |
| `backlog` | listen queue |
| `pc`, `cur`, `filename`, `rest` | `main` of `h1`: the connection it serves, the name, what `sendfile` has still to read |
| `files` | the directory of the server |
| `owner`, `served` | history: whose upload a file is; name and contents `h1` opened for a client |

Files are sequences of bytes and records are sequences of `BUFFSIZE` bytes with
zeros, because the code tells operation, name and contents apart by their place in the
stream alone: `Padded` is the zeroed buffer, `Over` the `strncpy` of the name
over the operation in the same buffer, `StringIn` the C string the server reads
back. There is one step per `send`, `recv`, `fopen` and `close`.

### What the environment may do

A client may be killed (`Mortal`) anywhere, and its file may be missing. `recv`
returns any part of what is waiting, or, for the clients in `Whole`, as much as it
asks for: that is how small records on a local network arrive, and several
properties need it (`Clean`). A process that is ended by a signal loses what stdio
has not written (`Flushed`, in blocks of `BLOCK`). A transfer may take less than a
second, and then the division by its seconds ends the client. A server that closes with bytes
of the client unread resets the connection, and any part of what is under way to the client is
discarded (`Arrive`): `h3` takes the error of `recv` for the end of the file and ends well.

### Runs

| Run | Shows |
|---|---|
| `files_usual` | two uploads of one name, one arriving in any pieces, and a download: what is stored is the last upload, or the first part of one that was cut off (`StoredRight`); a download that ends well is the file that was asked for, never one under way, and complete unless the server's close was a reset (`DownloadRight`); everybody comes to an end, also when the server exits |

`BUFFSIZE` is 3 instead of 10 (one uploaded file is longer than a block, one is
shorter), operations have two letters instead of six and eight, `SockBuf` holds two
records, so that `send` blocks. One upload arrives whole (`Whole`), the other and the download
in any pieces; pieces of the name left unread at the close are what makes it a reset. Operations and names are
such that a name cut in two, or an operation, can be names of files as well.
`CHECK_DEADLOCK FALSE`: the server waits in `accept` or has exited.

Departures without a run of their own, which the model has and the premises of the
properties exclude: a file whose name is shorter than the operation is stored under
another name, although "Successfully uploaded" is printed for the one that was given,
because the name is copied without its zero over the operation (`h2.c:65`); a download
within a second ends in a division by zero after "Successfully download" was
printed and before the file is written (`h3.c:85-92`); `h3` started with `upload`
waits for the server while the server waits for it, and nobody else is served
(`OwnOperation` excludes it); a missing file, or a client killed between operation
and name, makes the server exit for everybody (`EveryoneServed` holds because the
kernel then resets who waits); a record that arrives in pieces is an unknown
operation or puts its end into the file.

### Fairness

As in the shop: weak fairness of the server and of each client's program, which
wait for nobody but each other.

### Proofs

For any clients, names, files, operations, sizes of records, connections and stdio buffers, and
any way to cut the stream, from `TransferAssumption` alone (names and operations fit into the
buffer, which is the overrun "Not modelled" names):

* `TransferTypeCorrect`: `TypeInv` adds to `TypeOK` that no client has sent more than its file.
* `DataInv` is inductive. A client sends one sequence of bytes, `Byte(c, j)`: its padded
  operation, the name over the operation, the file. `Records` says that before the file
  nothing is lost: what is under way is a `Piece` of that sequence, from the place the server has
  reached to what was `Sent`, and for a client of `Whole` that place is the border of a
  record. `Stored` says of each file of the server that it is a piece
  from some place up to the end of the records on, and that either the rest is under way and `cur`
  is its owner, or the owner has ended. `Serves` is the same for downloads: what has arrived, what is
  under way and what `sendfile` has still to send make up the file that was opened.
  `Places` and `Progress` say who is in the queue, which ends of a connection are open and what
  that tells of the phase.
* `UploadsStored` follows from `DataInv`: an owner that ended as `done` had sent all, so the piece
  ends where its file ends (`StoredRight`).
* `DownloadsRight`: `DownloadComplete` follows from `Serves`, in which a connection that was closed in order still
  has the whole rest of the file under way, and one that was reset any first part of it. `AskedFor`, with `AtHand`,
  and `DownloadServesUpload` are inductive relative to `DataInv`, as only `RecvDownloadName` opens a file, no
  other upload is under way then, and who has ended stays so (`EndedStays`). `AtHand` is what
  extends `AskedFor` to records in pieces: a name of which a part was read has its rest in the stream,
  and if that is still there at the close then the close is no orderly one.

`LeastNumber` (a set of numbers that is not empty has a least one) takes the place of an
induction over the length of a C string.

Only model-checked: `EveryoneServed`.

### Not modelled

`total` (printed, and never reset), errors of `fwrite`, `fread` and `accept`, and
names of `BUFFSIZE` bytes or more, which overrun the client's buffer.

## 6. The encoded file transfer

### Modules

* `Rotate.tla` - `encode()` and `decode()` on words of `W` bits, a `char` and its `int`.
* `EncodedTransfer.tla` - `A3/h2/client.c`, `A3/h1/server.c` and the stream between them.
* `EncodedTransferProofs.tla` - the theorems.
* `MCEncodedTransfer.tla` - three texts for TLC.

### State and code

| Variables | Code |
|---|---|
| `source`, `arr` | `sen.txt`; the lines in memory, of which those that were not read hold anything |
| `encrypted`, `offset` | `encrypted.txt` of the client; the argument of `sendfile` |
| `cpc`, `spc` | where the client and the server are |
| `wire`, `rst` | the stream; the server has closed with bytes unread |
| `remain_data`, `received`, `decoded` | bytes to come; `encrypted.txt` and `decrypted.txt` of the server |
| `header` | history: how many bytes the first `recv` returned |

A word is a function from places to bits, because the code shifts: `>>` of a
negative `int` repeats the sign. A number in the file is two parts of its digits, so
that a stream that is cut inside a number gives another number (`CUT`). The block of
1024 bytes (`file_size`, of `BLOCK` tokens) is the digits of the size, which arrive in one piece, the zero
behind them, and memory that was never written, byte by byte. What that memory holds is
chosen when `fscanf` meets it (`Scannings`): a byte that ends the loop, or numbers, at most one for each
byte, the last of which may run into the first number of the file.

### Runs

`encoded` has three texts (as many lines as the client reads, fewer, more), chars of three bits
and ints of five, a block with two bytes that were never written, and every way to cut the stream into
pieces of 1 to `BUFSIZ` bytes. It
shows that the whole text is decoded if the first `recv` returns the block alone
(`DecodedExact`), that otherwise what is decoded is one piece of the text but for a
number at each end, behind no more invented chars than unwritten bytes were
stored (`PieceOfText`), and that both programs end (`BothEnd`), the server
also when it waits for bytes that the first `recv` has swallowed. The user may end
the client between any two steps. `CHECK_DEADLOCK FALSE`: both programs end.

Two unwritten bytes are enough: they can give no number, one, or two, and the last can run into the file.

Departures without a run of their own: on a stream that joins the block and the
file, the beginning of the file is lost; a first piece without the zero is
read on into the rest of the buffer; of a block that is cut the rest is decoded with the file, and
as many bytes are missing at its end.

### Fairness

Weak fairness of both programs, which wait only for each other.

### Proofs

For every width `W` of an int, `CharBits` of a char and `KEY` with `CharBits + KEY <= W`
(`RotateAssumption`): `AsciiComesBack` (a char without sign bit is decoded to itself),
`OthersAreLost` (a char with it comes back as -1, since the sign bits that `>>` repeats fill
the word) and `EveryCharRotated`, which states both with the operator `Rotated` that
`DecodedExact` uses. `EncodedBits` says what `encode` does to each bit; `CharBit`, that the bits
of a char from its sign on are all the same.

For every text, number of lines and size of the pieces, from `TransferAssumption` and from
`ByteAssumption`, that a separator, the zero and the other kinds of bytes differ:

* `Codes(s, x)` relates a file to the text it stands for: the places at which its numbers begin
  are three bytes apart at least, two parts of a number and then a separator, and there is
  nothing else. The relation is closed under concatenation (`CodesJoin`), and `FileCodes`: the file
  of the client stands for `Expected`, by `EveryCharRotated` for each char. What flattening puts
  together is followed part by part (`FlattenGathers`, `GatherWithin`), from the least part that
  would be wrong; an induction over the parts is not available.
* `Scanned` is `fscanf` and the loop around it. `ScansRuns` replaces its counting of beginnings and
  ends by the runs between separators. For a first part of a file these are its numbers, but for
  the second part of the last (`PrefixRuns`, `PrefixOut`), for a later piece the first number may
  lack its beginning (`SuffixCoded`, `LeadRuns`, `LeadOut`). `PieceScanned` joins them: any piece of a file
  is scanned to a piece of its text.
* `InventedBefore` adds what memory that was never written may give: what stands behind `m`
  invented chars is scanned as if it stood alone, or with its first number wrong.
* `IInv` is inductive: `Stream` is the block and the file, and what the first `recv` took
  (`header`), what is in the server's file (`ServerRead`) and what waits (`Waits`) are one behind the other
  in it; `remain_data` and what was received are the size that was read; and a server that read
  the block alone closes when it has the file, unless the client was ended (`WholeFile`). The
  two properties are not inductive: what will be decoded is decided by where the
  pieces lie in the stream.
* `DecodesAPiece` (`PieceOfText`) goes through the places the first `recv` can end: before
  the zero, which ends the scan at once, in the memory that was never written, or in the file.
  `BlockAloneDecodesAll` (`DecodedExact`) is the case that it ends with the block, `EncodedTyped` the types.

Only model-checked: `BothEnd`.

### Not modelled

`server.c:117` prints a fixed text as "Original message", whatever was decoded;
only `decrypted.txt` has the result, and the model is about that. Errors of `fopen`, `fstat` and
`send` before the first byte, and lines of 100 bytes and more.

## 7. The shop with two items

### Modules

* `OrderShop.tla` - `A1/C/server.c` and its customers `A1/C/client.c`; it implements `Shop`.
* `OrderShopProofs.tla` - the theorems.
* `MCOrderShop.tla` - stock and orders for TLC.

### State and code

| Variables | Code |
|---|---|
| `phase`, `shown`, `asked`, `told` | a process `client.c`: where it is, the amounts it has shown, what was typed, what it printed at the end |
| `up`, `down`, `rst` | a connection; its client ended with messages unread or was written to afterwards |
| `backlog`, `nOpen` | listen queue; connections, none of which is ever closed |
| `pc`, `cur`, `receiverBuffer`, `error`, `stock`, `transactionID` | `main` of the server; `stock` are `apple` and `mango` |
| `sales` | history |

An order is the item at the fifth character and the quantity from the eleventh on. `SHORT` is
a line that has neither: the zero behind it hides the quantity, and the item is read
from what the customer before left in `receiverBuffer`. `NOITEM` is any other character.
What a client shows is `JOINED` if it has read both amounts with one `recv` and
`GARBLED` if `atoi` reads on in memory that `recv` has not written.

### Runs

`order_shop` has two customers, five kinds of order (met once, met twice, too much,
nothing the shop has, only return), any content of the buffer at first, both customers killed
anywhere, and as many descriptors as customers, so that the server runs out of them.
`SalesInOrder`: no amount falls below zero, and what is sold is what the customer
being served asked for, or nothing, or the server is at its end (it sells the last order again, to
nobody, when `accept` fails). `ToldRight`: amounts read one by one are still right when the
customer orders, "Quantity not available" is told only to those who were sold
nothing, a transaction number only if an order that names an item was met, and no two sales
have one number. `ShopSpec`: refinement of `Shop`. `EveryoneServed`: everybody comes to an
end, unless somebody waits for an amount it has already read.
`CHECK_DEADLOCK FALSE`: the server waits in `accept`, or has ended.

Departures without a run of their own: an order for nothing the shop has is answered
with the transaction number of an earlier sale; a negative quantity, excluded by
`OrderAssumption`, would raise the stock.

### Fairness

Weak fairness of the server, of the clients and of ordering: a customer who has seen the
amounts orders or is killed.

### Proofs

For any customers, orders, pauses, contents of the buffer and number of descriptors, and for
exactly two items, as the server has, from `OrderAssumption`:

* `OrderTypeCorrect`: `TypeOK` is inductive.
* `OrderImplementsShop`: only `ReceiveOrder` changes stock and sales, as `Shop` says.
* `BooksInOrder` (`SalesInOrder`): `BooksInv` says that an order is sent once, by who has seen both amounts, and that
  every sale was asked for, is of nothing, or is the last one of a server that is `Lost`: it
  stands before a client that has reset its connection, or before none, and never comes back to
  `accept`. That a lost server sells no more is what makes it inductive.
* `CustomersToldRight` (`ToldRight`): `ServiceInv` has one case for each step of the server
  (`AtFirst`, `AtSecond`, `AtOrder`, `AtReply`, `AfterReply`): where the client that is served is and what is
  under way to it. Around it, who has not been accepted is untouched, and transaction numbers
  count the sales.

Only model-checked: `EveryoneServed`.

### Not modelled

Negative quantities; the byte at `receiverBuffer[-1]` that is zeroed when `recv` fails;
orders of 1024 characters and more.

## 8. The Java chat

### Modules

* `JavaChat.tla` - `MyServer.java` with clients `MyClient.java`.
* `Relay.tla` - what it promises: who has heard a client misses none of its later
  lines, hears them in order and none twice, and nobody hears itself. There is no
  order between clients, because nothing is locked.
* `JavaChatProofs.tla` - the theorems.
* `MCJavaChat.tla` - ports and lines for TLC.

### State and code

| Variables | Code |
|---|---|
| `phase`, `sent`, `nread`, `rst` | a process `MyClient`: where it is, records written and read, a pending reset |
| `up`, `down` | records under way to the server; all that was written to the client |
| `backlog`, `mpc`, `mcur`, `clientList` | `main`, and the list it shares with the threads |
| `tpc`, `msg`, `i` | a `ClientReceiveThread`: where it is, its line, the loop variable of `sendMessageToAll` |
| `seen` | how much of the list the thread is sure to see |

`readUTF` and `writeUTF` move whole records, so that a record is its number. The list
is an `ArrayList` without a lock. What the language's memory model lets a thread see of
additions made after its start is modelled as a choice: any size from what is sure to be in
sight up to the whole list (`MayStop`, `Get`), or a size without its element, in
which case `get` or `getPort` throws outside the `try` and the thread ends (`GetFails`).
An element a thread has got once it sees again (`InSight`), as long as the list stays in one array.
At certain lengths (`Capacities`: 10, 15, 22 and so on) `add` moves it to a longer one, which is
published without synchronisation too: a thread started before the move may find the new array without any of its
elements, also those it had seen (`Moved`, `Missing`).

### Runs

`java_chat` has three clients, two of them with one port (they come from two hosts),
three lines of one and one of another, one client that leaves, one record per
connection, so that writes block, and a list that moves when the third is added. `HeardUnlessCutOff`: who was in the list before a speaker and has
another port is sent all the speaker's lines, but for the one that is being passed on or was when `get` threw, and the server stops listening to a
client that is there only if somebody was added after it. `RelaySpec`: refinement of
`Relay`. `TypeOK` includes that no loop leaves the list. `NobodyStuck`: whoever sends a
name is added, unless a client went without sending its own (that ends `main`); a line
that was read is passed on to the end; the thread of who left ends. Two lines would
not be enough: for a gap somebody must hear one line, miss one and hear a third.
`CHECK_DEADLOCK FALSE`: the users stop typing.

Departures without a run of their own: two clients with one port never hear each other; a
client that connects and sends no name keeps everybody behind it waiting.

### Fairness

Weak fairness of `main` and of each thread, and of name and receiver of each client
(`Prompt`): the name is typed before it connects. Nobody has to type or to leave.

### Proofs

For any clients, ports, number of lines, size of a connection and lengths at which the list moves, from the
assumption of the module:

* `ChatTypeCorrect`: `TypeOK` is inductive, with the bound that the loop variable of a thread is
  within the list.
* `OrderInv`: a client is in one place (not there, queue, asked for its name, list); its records
  under way follow the last one read without a gap; its own place in the list is always in the sight of
  its thread. `HearInv` adds who has heard what: nobody is ahead of the thread, who has heard a
  client and is there is not behind and is in the thread's sight (`UpToDate`), and who was in the list
  before a client has had all of its lines up to where the loop is (`EarlierHeard`).
* `EarlierAlwaysHear` (`HeardUnlessCutOff`): its first part follows from `EarlierHeard`, its second from the step
  `GetFails`, which needs an element behind those the thread is sure of or a list that has moved, and
  both need somebody who was added after it.
* `ImplementsRelay`: `Write` is the step of `Relay`, everything else a stutter; that no line
  is missed or heard twice is `UpToDate` before the write.

Only model-checked: `NobodyStuck`.

### Not modelled

The console, and the exceptions of `new ServerSocket`.

## 9. The chat client

### Modules

* `ChatClient.tla` - `A5/client.c`, its user and a server.
* `ChatClientProofs.tla` - the theorems.
* `MCChatClient.tla` - two lines for TLC.

### State and code

| Variables | Code |
|---|---|
| `mpc`, `spc`, `rpc` | `main`, `sendHandler`, `receiveHandler` |
| `flag`, `buff`, `open` | `flag`, the line read last, whether `sockfd` is a descriptor |
| `over`, `unread` | how the process ended; history: a message of the server found no reader, because it was unread at the end or came after it |
| `typed`, `read`, `eof` | the terminal |
| `out`, `heard`, `news`, `shown`, `server`, `failed` | the connection: queue of the kernel, what the server got, what it sent and how much of that is on the screen, its state, a reset no call has reported |

The busy loop of `main` is the action `Bye`, which waits for the flag. `ServerCloses` ends
the connection in order, or by a reset if the server has something unread;
`ResetComes` answers a message to a server that has closed. A `send` after the reset fails
without being noticed, or `SIGPIPE` ends the process. The server does not know when the process
has ended: what it sends afterwards (`Tell`) makes the client's kernel reset the connection, as
an unread message does at the end itself, and of the queue the server gets no more than has
reached it (`QueueLost`).

### Runs

`chat_client`: three lines or `exit` or the end of the file, two messages of the server, a queue
of two, a server that ends at any time. `Delivered`: the server hears the name and
the lines, in order and each once, and after the end of the terminal's file empty
messages only; who leaves with `exit` has everything delivered or queued, unless a
message of the server was unread then or came later, in which case the kernel throws the queue away: `close` and
`return` (`client.c:135-137`) do not wait for it. `ThreadsFinish`: what
is left in the queue still arrives, unless the server says something before it has; `exit` ends the process even if the server has
gone; what the server sends gets onto the screen; the receive thread ends once the
server has gone and does not spin on errors. `MaxHeard` is larger than `MaxTyped` so
that empty messages after the end of the file occur. `CHECK_DEADLOCK FALSE`: the process ends.

### Fairness

Weak fairness of the three threads, of the server receiving and of the network's reset.
Nothing is assumed of the user, nor that the server says or ends anything.

### Proofs

For any texts, size of the queue and number of lines and messages:

* `ClientTypeCorrect`: `TypeInv` adds to `TypeOK` that the send thread never sends `exit`.
* `HeardWhatWasTyped` (`Delivered`, with the premise `~unread` for what is still queued): `DeliveryInv` says which message is `Due` at each place (the name, the lines that were
  read, then empty ones), that what was heard and what is queued is due, where the threads are when the
  process ends, and how many messages there must be (`Count`), so that none is missing behind
  `exit`.

`HeardAsTyped` cuts what was heard at the first place where the lines end. The proof finds that
place as the least number with a property (`LeastNumber`), not by induction.

Only model-checked: `ThreadsFinish`.

### Not modelled

Failing `pthread_create`, text beyond the buffers, and the overrun of `msg` by a
message of 1024 bytes without zero.

## 10. The calculator

### Modules

* `Calculator.tla` - `A1/B/server.c` with `calc()` and its clients.
* `CalculatorProofs.tla` - its theorem.
* `MCCalculator.tla` - eight lines for TLC.

### State and code

| Variables | Code |
|---|---|
| `phase`, `asked`, `told` | a process `client.c`: where it is, its line, the result it printed |
| `up`, `down`, `rst` | a connection |
| `backlog`, `pc`, `cur`, `buffer`, `result` | `main` of the server |
| `left` | what the uninitialised `op` of `calc` finds on the stack |
| `torn` | history: clients of whom less than a block was received |

Nothing initialises the buffers of either program: the server's and the memory behind a client's line hold any
characters (`Garbage`), with a zero or without. Where the server's holds none, `strlen` runs on behind
it up to the first zero there, and `calc` evaluates that too (`Beyond`, chosen at each call).

`calc` is modelled by pure operators over the characters behind the fifth: `Looked` is one
round of its loop, `Parsed` the variables behind the loop, `Ops` what `op` may be (what the
stack holds if no operator came) and `Value` the `switch`. Ints lie between `-INT_MAX-1`
and `INT_MAX`, and every digit, sum, difference and product wraps around (`Wrap`), as in code compiled without
optimisation. `Dies` is the division the processor does not do: by zero, and of the least
int by -1.

### Runs

`calculator`: two clients, one of whom may be killed, and whose block may come in any two pieces; buffers with and
without a zero, and behind the server's a zero or a digit and a zero; ints of four bits, so
that a product and the divisor 16 are out of range and 15 is -1. `Calculates` compares with the
reference definition `Meant`, which evaluates the line over the integers: whoever
sends two numbers and an operator in one piece gets its value, whatever others left or nobody wrote in
the buffer, behind it and on the stack; and the server is ended only by a line it cannot evaluate
(`DiesForAReason`). `EveryoneAnswered`: everybody comes to an end, also when the server has died.
`CHECK_DEADLOCK FALSE`: the server waits in `accept`, or has died.

Departure without a run of its own: a line without an operator is evaluated with the one the
client before used, and behind a division this ends the server.

### What is proved

`CalculatorWorks` is `Spec => []Calculates` for any clients, lines, ints, size of the
block and content of memory that was not written. The lemmas come in three groups. Of ints: `Wrap` of a number is the int
that differs from it by a multiple of the number of ints (`WrapIs`), so that wrapping at
every digit is as good as wrapping once at the end (`LongerWraps`). Of the loop: after
`i` characters of a line of two numbers `calc` has what `Expected` says (`LineParsed`); the
invariant of the loop is carried from one character to the next by `LoopKeeps`, that
is by the least place at which it would fail. Of blocks: `strlen` sees of a block only the line before its
zero (`BlockIs`).

`Calculates` alone is not inductive. `IInv` adds who is being served and that this client has
typed its line (`Service`, `Silent`), that 1024 bytes on their way are one block of the line
the client typed (`Sent`), that such a block is all the buffer holds when `calc` begins, unless it came in pieces
(`Buffered`), and that the result waiting in the server or on the connection is right (`Promised`). A whole block holds the
zero of its line, so that `strlen` stays in the buffer (`BlockIs`); of a block in pieces, or none,
nothing is claimed but that it is one of the reasons for which the server may die.

### Fairness

Weak fairness of the server and of the clients; who has connected types a line.

### Not modelled

The printing of addresses, the end of file on the client's terminal, a block cut
within its first five characters, and a `strlen` that runs out of the memory of the process.

## 11. What is proved and what is checked

Proved for every value of the constants, from the named assumption of each module:

| Module | Theorems |
|---|---|
| `ChatServerProofs` (section 3) | types, descriptors, order of the conversation, table, broadcast, refinement of `ChatRoom`, one visit of each client, log and conversation, who sees what in a quiet server |
| `FruitShopProofs` (section 4) | types, refinement of `Shop`, list of customers, every kind of answer |
| `FileTransferProofs` (section 5) | types, what is stored of uploads, what is sent to downloaders |
| `EncodedTransferProofs` (section 6) | what `encode` and `decode` do to every char, types, what is decoded of the stream |
| `OrderShopProofs` (section 7) | types, refinement of `Shop`, sales, everything a customer is told |
| `JavaChatProofs` (section 8) | types, who hears whom, refinement of `Relay` |
| `ChatClientProofs` (section 9) | types, what the server hears |
| `CalculatorProofs` (section 10) | types, answers, what ends the server |

Every invariant, action property and refinement that a passing run checks is stated by one of these theorems.
Only model-checked are all liveness properties: fairness and `ENABLED` are beyond the
proof system.

## 12. Not modelled

The nutshell shop (it tests and lowers the stock of four items as the shop of section 7 does,
sends one reply that does not depend on the order, and closes every connection), the hello and echo examples (`A1/A`, `t_*`, `u_*`,
`server.c`, `client.c`, the Python scripts: one message each way, no state), the packet tools `A4` and
`CSB18010.c` (they format and send raw packets), and `CN2` and `cn3`, which hold no code.

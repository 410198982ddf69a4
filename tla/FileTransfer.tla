---------------------------- MODULE FileTransfer ----------------------------
(***************************************************************************)
(* The file server A2/h1/h1.c with the uploader A2/h2/h2.c and the         *)
(* downloader A2/h3/h3.c.                                                  *)
(*                                                                         *)
(* A client sends two records of BUFFSIZE bytes, the operation (argv[1])   *)
(* and the name of the file, and then the file until end of stream, or     *)
(* receives it until end of stream.  The server takes one connection after *)
(* the other and exits on most errors.  There is one step per system call  *)
(* on a connection; a client may be killed between any two of them.        *)
(*                                                                         *)
(* Texts and files are sequences of Chars, records of Chars and ZERO.      *)
(***************************************************************************)
EXTENDS Integers, Sequences, SequencesExt

CONSTANTS
  Clients,            \* runs of h2 and h3
  Uploaders,          \* those of h2
  Op, Name,           \* Op[c]: argv[1]; Name[c]: basename(argv[2])
  Local,              \* Local[c]: contents of the file h2 is to send
  Chars, ZERO,        \* bytes; the byte 0
  UPLOAD, DOWNLOAD,   \* the operations the server knows
  BUFFSIZE,           \* length of records, and of what one recv asks for
  InitialFiles,       \* what the server has: a function from names to contents
  SockBuf,            \* bytes a connection holds in one direction
  BLOCK,              \* size of a stdio buffer
  Whole,              \* clients whose sends arrive in one piece
  Mortal,             \* clients that may be killed
  NULL

Text == Seq(Chars)
Bytes == Chars \cup {ZERO}

ASSUME TransferAssumption ==
  /\ Uploaders \subseteq Clients /\ Mortal \subseteq Clients /\ Whole \subseteq Clients
  /\ Op \in [Clients -> Text] /\ Name \in [Clients -> Text]
  /\ Local \in [Clients -> Text]
  /\ BUFFSIZE \in Nat \ {0} /\ SockBuf \in Nat /\ BLOCK \in Nat \ {0}
  /\ \A c \in Clients : Len(Op[c]) < BUFFSIZE /\ Len(Name[c]) \in 1..(BUFFSIZE - 1)
  /\ UPLOAD \in Text \ {<<>>} /\ DOWNLOAD \in Text \ {<<>>}
  /\ ~IsPrefix(UPLOAD, DOWNLOAD) /\ ~IsPrefix(DOWNLOAD, UPLOAD)
  /\ DOMAIN InitialFiles \subseteq Text \ {<<>>}
  /\ \A n \in DOMAIN InitialFiles : InitialFiles[n] \in Text
  /\ ZERO \notin Chars /\ NULL \notin Clients /\ NULL \notin Seq(Bytes)
  /\ NULL \notin [name : Text, data : Seq(Bytes)]

VARIABLES
  phase, off, got,         \* clients: where they are, bytes sent, file received
  up, down, cEnd, sEnd,    \* connections: bytes under way, how each side ended
  backlog,                 \* listen queue
  pc, cur, filename, rest, \* main; what sendfile has still to send
  files,                   \* the server's directory
  owner, served            \* history: whose upload a file is; what was sent to c

clientVars == <<phase, off, got>>
connVars   == <<up, down, cEnd, sEnd>>
mainVars   == <<cur, filename, rest>>
fileVars   == <<files, owner, served>>

vars == <<clientVars, connVars, backlog, pc, mainVars, fileVars>>

Ended == {"done", "crashed", "failed", "killed"}

Least(m, n) == IF m <= n THEN m ELSE n

\* A buffer initialised with zeros and a text or bytes put in front.
Padded(s) == [k \in 1..BUFFSIZE |-> IF k <= Len(s) THEN s[k] ELSE ZERO]

\* The C string in a buffer.
StringIn(b) == SubSeq(b, 1, CHOOSE n \in 0..Len(b) :
                              /\ \A k \in 1..n : b[k] # ZERO
                              /\ n = Len(b) \/ b[n + 1] = ZERO)

\* strncpy(buff, s, strlen(s)): what is behind s stays.
Over(s, b) == [k \in 1..BUFFSIZE |-> IF k <= Len(s) THEN s[k] ELSE b[k]]

\* How many of the bytes s waiting one recv of a connection of c may return.
Sizes(c, s) == IF c \in Whole THEN {Least(BUFFSIZE, Len(s))}
               ELSE 1..Least(BUFFSIZE, Len(s))

Front1(s, k) == SubSeq(s, 1, k)
Behind(s, k) == SubSeq(s, k + 1, Len(s))

Init ==
  /\ phase = [c \in Clients |-> "idle"]
  /\ off   = [c \in Clients |-> 0]
  /\ got   = [c \in Clients |-> NULL]
  /\ up    = [c \in Clients |-> <<>>]
  /\ down  = [c \in Clients |-> <<>>]
  /\ cEnd  = [c \in Clients |-> "open"]
  /\ sEnd  = [c \in Clients |-> "open"]
  /\ backlog = <<>>
  /\ pc = "accept"
  /\ cur = NULL
  /\ filename = <<>>
  /\ rest = <<>>
  /\ files = InitialFiles
  /\ owner = [n \in DOMAIN InitialFiles |-> NULL]
  /\ served = [c \in Clients |-> NULL]

-----------------------------------------------------------------------------
(* h2.c and h3.c                                                           *)

Connect(c) ==
  /\ phase[c] = "idle" /\ pc # "exited"
  /\ phase' = [phase EXCEPT ![c] = "connected"]
  /\ backlog' = Append(backlog, c)
  /\ UNCHANGED <<off, got, connVars, pc, mainVars, fileVars>>

\* send() to a server that has closed is lost.
Send(c, bytes) ==
  /\ Len(up[c]) + Len(bytes) <= SockBuf \/ sEnd[c] # "open"
  /\ up' = [up EXCEPT ![c] = IF sEnd[c] = "open" THEN @ \o bytes ELSE @]

\* The process ends; bytes it has not read make its kernel reset.  Such a
\* reset takes nothing the server would still read: it writes only to a
\* client whose name it has read.
Leave(c, how) ==
  /\ phase' = [phase EXCEPT ![c] = how]
  /\ cEnd' = [cEnd EXCEPT ![c] = IF down[c] = <<>> THEN "fin" ELSE "rst"]

\* The result of this send is not tested.
SendOp(c) ==
  /\ phase[c] = "connected"
  /\ Send(c, Padded(Op[c]))
  /\ phase' = [phase EXCEPT ![c] = "asked"]
  /\ UNCHANGED <<off, got, down, cEnd, sEnd, backlog, pc, mainVars, fileVars>>

\* The name is copied over the operation in the same buffer.
SendName(c) ==
  /\ phase[c] = "asked"
  /\ Send(c, Over(Name[c], Padded(Op[c])))
  /\ phase' = [phase EXCEPT ![c] = "named"]
  /\ UNCHANGED <<off, got, down, cEnd, sEnd, backlog, pc, mainVars, fileVars>>

\* h2 opens its file, which may be missing, and h3 the file it will write.
Open(c) ==
  /\ phase[c] = "named"
  /\ \/ /\ phase' = [phase EXCEPT ![c] = "moving"]
        /\ got' = [got EXCEPT ![c] = IF c \in Uploaders THEN NULL ELSE <<>>]
        /\ UNCHANGED cEnd
     \/ c \in Uploaders /\ Leave(c, "failed") /\ UNCHANGED got
  /\ UNCHANGED <<off, up, down, sEnd, backlog, pc, mainVars, fileVars>>

\* sendfile of h2: one fread and send.
SendFile(c) ==
  /\ phase[c] = "moving" /\ c \in Uploaders /\ off[c] < Len(Local[c])
  /\ LET n == Least(BUFFSIZE, Len(Local[c]) - off[c]) IN
       /\ Send(c, SubSeq(Local[c], off[c] + 1, off[c] + n))
       /\ off' = [off EXCEPT ![c] = @ + n]
  /\ UNCHANGED <<phase, got, down, cEnd, sEnd, backlog, pc, mainVars, fileVars>>

\* A send after the server closed: an error and exit(1), or SIGPIPE.
SendFails(c) ==
  /\ phase[c] \in {"asked", "moving"} /\ sEnd[c] # "open"
  /\ phase[c] = "moving" => c \in Uploaders /\ off[c] < Len(Local[c])
  /\ Leave(c, "failed")
  /\ UNCHANGED <<off, got, up, down, sEnd, backlog, pc, mainVars, fileVars>>

\* writefile of h3: one recv and fwrite.
WriteFile(c) ==
  /\ phase[c] = "moving" /\ c \notin Uploaders /\ down[c] # <<>>
  /\ \E k \in Sizes(c, down[c]) :
       /\ got' = [got EXCEPT ![c] = @ \o Front1(down[c], k)]
       /\ down' = [down EXCEPT ![c] = Behind(@, k)]
  /\ UNCHANGED <<phase, off, up, cEnd, sEnd, backlog, pc, mainVars, fileVars>>

\* What stdio has written of a file when a process ends without fclose.
Flushed(s) == IF s \in {NULL, <<>>} THEN s
              ELSE Front1(s, ((Len(s) - 1) \div BLOCK) * BLOCK)

\* The transfer is over, by end of file or of the stream, or because recv
\* failed.  The rate is computed before fclose: if the transfer took less
\* than a second the division by zero raises SIGFPE.
Finish(c) ==
  /\ phase[c] = "moving"
  /\ IF c \in Uploaders THEN off[c] = Len(Local[c])
                        ELSE down[c] = <<>> /\ sEnd[c] # "open"
  /\ \/ Leave(c, "done") /\ UNCHANGED got
     \/ Leave(c, "crashed") /\ got' = [got EXCEPT ![c] = Flushed(@)]
  /\ UNCHANGED <<off, up, down, sEnd, backlog, pc, mainVars, fileVars>>

Kill(c) ==
  /\ c \in Mortal /\ phase[c] \notin {"idle"} \cup Ended
  /\ Leave(c, "killed")
  /\ got' = [got EXCEPT ![c] = Flushed(@)]
  /\ UNCHANGED <<off, up, down, sEnd, backlog, pc, mainVars, fileVars>>

-----------------------------------------------------------------------------
(* h1.c                                                                    *)

Accept ==
  /\ pc = "accept" /\ backlog # <<>>
  /\ cur' = Head(backlog)
  /\ backlog' = Tail(backlog)
  /\ pc' = "operation"
  /\ UNCHANGED <<clientVars, connVars, filename, rest, fileVars>>

\* What recv() may return: 0 also stands for -1.
Received == IF up[cur] # <<>> THEN Sizes(cur, up[cur])
            ELSE IF cEnd[cur] = "open" THEN {} ELSE {0}

\* recv() of k bytes.
Recv(k) == up' = [up EXCEPT ![cur] = Behind(@, k)]

\* How the server's side of a connection ends.
ServerEnd(c) == IF up[c] = <<>> THEN "fin" ELSE "rst"

\* exit(1), or SIGPIPE: the kernel closes the connection and resets the queue.
\* Nothing is under way then to a client that still runs.
Exit ==
  /\ pc' = "exited"
  /\ sEnd' = [c \in Clients |-> IF c = cur THEN ServerEnd(c)'
                                ELSE IF c \in ToSet(backlog) THEN "rst" ELSE sEnd[c]]
  /\ backlog' = <<>>

\* An unknown operation, also one received in part or not at all, is ignored.
RecvOperation ==
  /\ pc = "operation"
  /\ \E k \in Received :
       /\ Recv(k)
       /\ LET operation == StringIn(Padded(Front1(up[cur], k))) IN
          pc' = CASE operation = UPLOAD   -> "upload"
                  [] operation = DOWNLOAD -> "download"
                  [] OTHER                -> "close"
  /\ UNCHANGED <<clientVars, down, cEnd, sEnd, backlog, mainVars, fileVars>>

\* Mutant: the result of fopen is not tested.
FailsMutant(n) == FALSE

\* fopen without a name returns NULL.
Fails(n) == n = <<>>

\* fopen(filename, "wb")
Opened(n) == <<>>

\* The function f with value v for n, which it may not have yet.
Put(f, n, v) == [m \in {n} \cup DOMAIN f |-> IF m = n THEN v ELSE f[m]]

\* The name of an upload; the file is created or emptied.
RecvUploadName ==
  /\ pc = "upload"
  /\ \E k \in Received :
       /\ Recv(k)
       /\ LET n == StringIn(Padded(Front1(up[cur], k))) IN
          IF Fails(n) THEN Exit /\ UNCHANGED <<filename, files, owner>>
          ELSE /\ filename' = n
               /\ files' = Put(files, n, Opened(n))
               /\ owner' = Put(owner, n, cur)
               /\ pc' = "writefile"
               /\ UNCHANGED <<sEnd, backlog>>
  /\ UNCHANGED <<clientVars, down, cEnd, cur, rest, served>>

\* Mutant: a short block is taken for the end of the file.
LastRecvMutant(k) == k < BUFFSIZE

\* The end of the stream, or an error.
LastRecv(k) == k = 0

\* writefile: one recv and fwrite; the loop ends as well when recv fails.
RecvFile ==
  /\ pc = "writefile"
  /\ \E k \in Received :
       /\ Recv(k)
       /\ files' = [files EXCEPT ![filename] = @ \o Front1(up[cur], k)]
       /\ pc' = IF LastRecv(k) THEN "close" ELSE pc
  /\ UNCHANGED <<clientVars, down, cEnd, sEnd, backlog, mainVars, owner, served>>

\* The name of a download; without such a file the server exits.
RecvDownloadName ==
  /\ pc = "download"
  /\ \E k \in Received :
       /\ Recv(k)
       /\ LET n == StringIn(Padded(Front1(up[cur], k))) IN
          IF n \notin DOMAIN files THEN Exit /\ UNCHANGED <<filename, rest, served>>
          ELSE /\ filename' = n
               /\ rest' = files[n]
               /\ served' = [served EXCEPT ![cur] = [name |-> n, data |-> files[n]]]
               /\ pc' = "sendfile"
               /\ UNCHANGED <<sEnd, backlog>>
  /\ UNCHANGED <<clientVars, down, cEnd, cur, files, owner>>

\* Mutant: a short block is taken for the end of the file.
MoreMutant == Len(rest) >= BUFFSIZE

\* fread returns something.
More == rest # <<>>

\* sendfile: one fread and send.  What is sent to a client that has ended is
\* lost and answered by a reset, after which send fails.
SendBlock ==
  /\ pc = "sendfile" /\ More
  /\ UNCHANGED <<clientVars, up, cur, filename, fileVars>>
  /\ LET n == Least(BUFFSIZE, Len(rest)) IN
     IF cEnd[cur] = "rst" THEN Exit /\ UNCHANGED <<down, cEnd, rest>>
     ELSE /\ rest' = Behind(rest, n)
          /\ IF cEnd[cur] = "fin"
             THEN cEnd' = [cEnd EXCEPT ![cur] = "rst"] /\ UNCHANGED down
             ELSE /\ Len(down[cur]) + n <= SockBuf
                  /\ down' = [down EXCEPT ![cur] = @ \o Front1(rest, n)]
                  /\ UNCHANGED cEnd
          /\ UNCHANGED <<pc, sEnd, backlog>>

SendEnd ==
  /\ pc = "sendfile" /\ ~More
  /\ pc' = "close"
  /\ UNCHANGED <<clientVars, connVars, backlog, mainVars, fileVars>>

\* Mutant: the connection is left open.
CloseMutant ==
  /\ pc = "close" /\ pc' = "accept"
  /\ UNCHANGED <<clientVars, connVars, backlog, mainVars, fileVars>>

\* How many of the bytes under way to c still arrive when the server's side
\* ends: a reset discards what has not been delivered.
Arrive(c) == IF ServerEnd(c) = "rst" THEN 0..Len(down[c]) ELSE {Len(down[c])}

\* close(connfd)
Close ==
  /\ pc = "close"
  /\ sEnd' = [sEnd EXCEPT ![cur] = ServerEnd(cur)]
  /\ \E k \in Arrive(cur) : down' = [down EXCEPT ![cur] = Front1(@, k)]
  /\ pc' = "accept"
  /\ UNCHANGED <<clientVars, up, cEnd, backlog, mainVars, fileVars>>

-----------------------------------------------------------------------------
ClientProgram(c) == \/ SendOp(c) \/ SendName(c) \/ Open(c) \/ SendFile(c) \/ SendFails(c)
                    \/ WriteFile(c) \/ Finish(c)

Server == \/ Accept \/ RecvOperation \/ RecvUploadName \/ RecvFile
          \/ RecvDownloadName \/ SendBlock \/ SendEnd \/ Close

Next == \/ \E c \in Clients : Connect(c) \/ ClientProgram(c) \/ Kill(c)
        \/ Server

Spec == Init /\ [][Next]_vars

\* No program waits for a user.
FairSpec == /\ Spec
            /\ WF_vars(Server)
            /\ \A c \in Clients : WF_vars(ClientProgram(c))

-----------------------------------------------------------------------------
(* Safety.                                                                 *)

ClientsOK ==
  /\ phase \in [Clients -> {"idle", "connected", "asked", "named", "moving"} \cup Ended]
  /\ off \in [Clients -> Nat]
  /\ got \in [Clients -> Seq(Bytes) \cup {NULL}]
  /\ \A c \in Clients : phase[c] = "moving" =>
       IF c \in Uploaders THEN off[c] <= Len(Local[c]) ELSE got[c] # NULL

ConnectionsOK ==
  /\ up \in [Clients -> Seq(Bytes)] /\ down \in [Clients -> Seq(Bytes)]
  /\ \A c \in Clients : Len(up[c]) <= SockBuf /\ Len(down[c]) <= SockBuf
  /\ cEnd \in [Clients -> {"open", "fin", "rst"}]
  /\ sEnd \in [Clients -> {"open", "fin", "rst"}]
  /\ backlog \in Seq(Clients)

MainOK ==
  /\ pc \in {"accept", "operation", "upload", "writefile", "download", "sendfile",
             "close", "exited"}
  /\ cur \in Clients \cup {NULL}
  /\ pc \notin {"accept", "exited"} => cur # NULL
  /\ filename \in Text /\ Len(filename) <= BUFFSIZE
  /\ pc = "writefile" => filename \in DOMAIN files
  /\ rest \in Seq(Bytes)

FilesOK ==
  /\ DOMAIN files \subseteq Text \ {<<>>} /\ \A n \in DOMAIN files : files[n] \in Seq(Bytes)
  /\ DOMAIN owner = DOMAIN files /\ \A n \in DOMAIN owner : owner[n] \in Clients \cup {NULL}
  /\ served \in [Clients -> [name : Text, data : Seq(Bytes)] \cup {NULL}]

\* Every variable has its type; no name is longer than its buffer, and what
\* is written to has been opened.
TypeOK == ClientsOK /\ ConnectionsOK /\ MainOK /\ FilesOK

\* The two records arrive as they were sent, and the name covers the operation.
Clean(c) == c \in Whole /\ Len(Name[c]) >= Len(Op[c])

\* An upload that ran to its end is stored whole: the file ends with it and, if
\* the records arrive as sent, is it and has the name that was given.
LastUploadWins ==
  \A n \in DOMAIN owner : LET c == owner[n] IN
    c \in Uploaders /\ phase[c] \in {"done", "crashed"} /\ sEnd[c] # "open" =>
      /\ IsSuffix(Local[c], files[n])
      /\ Clean(c) => n = Name[c] /\ files[n] = Local[c]

\* Of an upload that was cut off a first part is stored.
StoredPrefix ==
  \A n \in DOMAIN owner : LET c == owner[n] IN
    c \in Uploaders /\ Clean(c) => IsPrefix(files[n], Local[c])

\* What the server stores of uploads.
StoredRight == LastUploadWins /\ StoredPrefix

\* A download that ends well is a first part of the file the server opened,
\* and all of it unless the connection was reset: h3 takes the error of recv
\* for the end of the file.
DownloadComplete ==
  \A c \in Clients \ Uploaders : phase[c] = "done" /\ served[c] # NULL =>
    /\ IsPrefix(got[c], served[c].data)
    /\ sEnd[c] = "fin" => got[c] = served[c].data

\* c was started with an operation the server knows, and its name covers it.
Usual(c) == Op[c] \in {UPLOAD, DOWNLOAD} /\ Len(Name[c]) >= Len(Op[c])

\* The file the server opened is the one that was asked for, if the records
\* arrive as sent, or else if the server leaves nothing unread at its close.
AskedFor ==
  \A c \in Clients : served[c] # NULL /\ (Clean(c) \/ (Usual(c) /\ sEnd[c] = "fin")) =>
    served[c].name = Name[c]

\* What is sent to a client is never the part of an upload still under way:
\* it is a file of the start, or what a client that has ended had sent, all of
\* it if that one ran to its end.
DownloadServesUpload ==
  \A c \in Clients : served[c] # NULL => LET s == served[c] IN
    \/ s.name \in DOMAIN InitialFiles /\ s.data = InitialFiles[s.name]
    \/ \E d \in Clients : /\ phase[d] \in Ended
                          /\ phase[d] \in {"done", "crashed"} => IsSuffix(Local[d], s.data)
                          /\ Clean(d) => s.name = Name[d] /\ IsPrefix(s.data, Local[d])

\* A client is sent what it asked for, a finished file, and gets all of it,
\* unless a reset cuts it short.
DownloadRight == DownloadComplete /\ AskedFor /\ DownloadServesUpload

\* Nobody runs h2 to download or h3 to upload.
OwnOperation == \A c \in Clients : Op[c] # IF c \in Uploaders THEN DOWNLOAD ELSE UPLOAD

\* Everybody who connects comes to an end, whoever is killed.
EveryoneServed ==
  OwnOperation => \A c \in Clients : phase[c] = "connected" ~> phase[c] \in Ended
=============================================================================

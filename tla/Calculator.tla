----------------------------- MODULE Calculator -----------------------------
(***************************************************************************)
(* The calculator A1/B/server.c with its clients A1/B/client.c.  A client  *)
(* sends a block of 1024 bytes that begins with a line "calc 12+3"; the    *)
(* server takes it with one recv() into a buffer that is never cleared,    *)
(* evaluates what stands there behind the fifth character, sends the       *)
(* result and closes.  Results of calls are not looked at.                 *)
(*                                                                         *)
(* A block is modelled by BLOCK characters behind the first five, which    *)
(* arrive with the next.  Nothing initialises the buffers, and where the   *)
(* server's holds no zero it reads on behind it.  Ints wrap around, as     *)
(* they do in the code compiled without optimisation; a division that has  *)
(* no result ends the server.                                              *)
(***************************************************************************)
EXTENDS Integers, Sequences, FiniteSets, FiniteSetsExt, SequencesExt

CONSTANTS
  Clients,
  Texts,      \* what users type: sequences of characters, the newline last
  Garbage,    \* what an uninitialised buffer may hold
  Beyond,     \* what may stand behind the server's buffer, up to a zero
  Digit,      \* the value of a character that is a digit
  NL, ZERO,   \* newline, the character that ends a string
  BLOCK,
  INT_MAX,    \* the greatest int, 2^31 - 1
  Split,      \* clients whose block may arrive in pieces
  Mortal,     \* clients that may be ended
  NULL

Operators == {"+", "-", "*", "/"}

\* A space stands for every other character.
Characters == DOMAIN Digit \cup Operators \cup {NL, ZERO, " "}

ASSUME CalculatorAssumption ==
  /\ BLOCK \in Nat \ {0} /\ INT_MAX \in Nat
  /\ Digit \in [DOMAIN Digit -> 0..9]
  /\ DOMAIN Digit \cap (Operators \cup {NL, ZERO, " "}) = {}
  /\ NL # ZERO /\ {NL, ZERO} \cap (Operators \cup {" "}) = {}
  /\ Texts \subseteq Seq(Characters) /\ Garbage \subseteq Seq(Characters)
  /\ \A t \in Texts : Len(t) \in 1..BLOCK-1 /\ t[Len(t)] = NL /\ ~Contains(t, ZERO)
  /\ \A g \in Garbage : Len(g) = BLOCK
  /\ \A m \in Beyond : m \in Seq(Characters) /\ m # <<>> /\ m[Len(m)] = ZERO
  /\ Split \cup Mortal \subseteq Clients /\ NULL \notin Clients

VARIABLES
  phase, asked, told,   \* clients: where they are, what they typed, the result
  up, down, rst,        \* connections
  backlog, pc, cur,     \* server: listen queue, place, connection
  buffer, left,         \* what was received, the operator on the stack
  result,
  torn                  \* history: clients of whom less than a block was received

clientVars == <<phase, asked, told>>
connVars   == <<up, down, rst>>
calcVars   == <<buffer, left, result>>

vars == <<clientVars, connVars, backlog, pc, cur, calcVars, torn>>

NOTHING == <<>>
Ended == {"done", "left"}

Init ==
  /\ phase = [c \in Clients |-> "idle"]
  /\ asked = [c \in Clients |-> NOTHING]
  /\ told  = [c \in Clients |-> NOTHING]
  /\ up    = [c \in Clients |-> <<>>]
  /\ down  = [c \in Clients |-> NOTHING]
  /\ rst   = [c \in Clients |-> FALSE]
  /\ backlog = <<>>
  /\ pc = "accept" /\ cur = NULL
  /\ buffer \in Garbage
  /\ left = NULL /\ result = 0
  /\ torn = {}

-----------------------------------------------------------------------------
(* calc()                                                                  *)

Ints == -INT_MAX-1..INT_MAX

\* The int a result becomes.
Wrap(n) == LET m == n % (2 * (INT_MAX + 1)) IN
           IF m <= INT_MAX THEN m ELSE m - 2 * (INT_MAX + 1)

IsDigit(ch) == ch \in DOMAIN Digit

\* One more digit behind a number.
Longer(num, ch) == Wrap(num * 10 + Digit[ch])

\* What the loop does with a character: all digits behind the first operator are
\* one number, and the last operator counts.
Looked(calc, ch) ==
  CASE ch = NL -> calc
    [] IsDigit(ch) /\ calc.state = 0 -> [calc EXCEPT !.num1 = Longer(@, ch)]
    [] IsDigit(ch) /\ calc.state = 1 -> [calc EXCEPT !.num2 = Longer(@, ch)]
    [] OTHER -> [state |-> 1, num1 |-> calc.num1, num2 |-> calc.num2, op |-> ch]

strlen(b) == Min({ i \in DOMAIN b : b[i] = ZERO }) - 1

Begin == [state |-> 0, num1 |-> 0, num2 |-> 0, op |-> NULL]

\* The variables of calc() behind the loop.
Parsed(b) ==
  LET loop[i \in 0..strlen(b)] == IF i = 0 THEN Begin ELSE Looked(loop[i-1], b[i])
  IN loop[strlen(b)]

\* Mutant: op keeps its value from one call to the next.
OpsMutant(calc) == IF left # NULL THEN {left}
                   ELSE IF calc.state = 0 THEN {NULL} ELSE {calc.op}

\* The last operator, or what the stack holds if there is none.
Ops(calc) == IF calc.state = 0 THEN {left, NULL} ELSE {calc.op}

\* The division is undefined, and the processor ends the process.
Dies(calc, op) ==
  op = "/" /\ (calc.num2 = 0 \/ (calc.num2 = -1 /\ calc.num1 = -INT_MAX-1))

\* Division of C, which rounds towards zero.
Quotient(m, n) == LET abs(x) == IF x < 0 THEN -x ELSE x
                      q == abs(m) \div abs(n)
                  IN IF (m < 0) = (n < 0) THEN q ELSE -q

Value(calc, op) ==
  CASE op = "+" -> Wrap(calc.num1 + calc.num2)
    [] op = "-" -> Wrap(calc.num1 - calc.num2)
    [] op = "*" -> Wrap(calc.num1 * calc.num2)
    [] op = "/" -> Quotient(calc.num1, calc.num2)
    [] OTHER -> 0

-----------------------------------------------------------------------------
(* client.c                                                                *)

Connect(c) ==
  /\ phase[c] = "idle" /\ pc # "dead"
  /\ phase' = [phase EXCEPT ![c] = "connected"]
  /\ backlog' = Append(backlog, c)
  /\ UNCHANGED <<asked, told, connVars, pc, cur, calcVars, torn>>

\* The line, its final zero, and what the uninitialised buffer holds behind it.
Block(t, g) == Append(t, ZERO) \o SubSeq(g, Len(t) + 2, BLOCK)

\* The server may have gone meanwhile.
SendText(c) ==
  /\ phase[c] = "connected"
  /\ \E t \in Texts, g \in Garbage :
       /\ asked' = [asked EXCEPT ![c] = t]
       /\ up' = [up EXCEPT ![c] = IF pc = "dead" THEN @ ELSE Block(t, g)]
  /\ \/ phase' = [phase EXCEPT ![c] = "waiting"]
     \/ pc = "dead" /\ phase' = [phase EXCEPT ![c] = "left"]
  /\ UNCHANGED <<told, down, rst, backlog, pc, cur, calcVars, torn>>

\* The result; or the connection was reset, or there is no server, and the
\* client prints what its variable happens to hold.
RecvResult(c) ==
  /\ phase[c] = "waiting"
  /\ \/ down[c] # NOTHING /\ told' = [told EXCEPT ![c] = down[c]]
     \/ (rst[c] \/ (pc = "dead" /\ down[c] = NOTHING)) /\ UNCHANGED told
  /\ phase' = [phase EXCEPT ![c] = "done"]
  /\ UNCHANGED <<asked, connVars, backlog, pc, cur, calcVars, torn>>

Kill(c) ==
  /\ c \in Mortal /\ phase[c] \in {"connected", "waiting"}
  /\ phase' = [phase EXCEPT ![c] = "left"]
  /\ UNCHANGED <<asked, told, connVars, backlog, pc, cur, calcVars, torn>>

-----------------------------------------------------------------------------
(* server.c                                                                *)

Accept ==
  /\ pc = "accept" /\ backlog # <<>>
  /\ cur' = Head(backlog)
  /\ backlog' = Tail(backlog)
  /\ pc' = "recv"
  /\ UNCHANGED <<clientVars, connVars, calcVars, torn>>

\* recv() waits for a part of the block, or the end of the client.
Waits == up[cur] # <<>> \/ phase[cur] \in Ended

Sizes == LET n == Len(up[cur]) IN IF cur \in Split /\ n > 0 THEN 1..n ELSE {n}

\* Behind what was received the buffer is as before.
Overlay(k) == SubSeq(up[cur], 1, k) \o SubSeq(buffer, k + 1, BLOCK)

Receive ==
  /\ pc = "recv" /\ Waits
  /\ \E k \in Sizes :
       /\ buffer' = Overlay(k)
       /\ up' = [up EXCEPT ![cur] = SubSeq(@, k + 1, Len(@))]
       /\ torn' = IF k < BLOCK THEN torn \cup {cur} ELSE torn
  /\ pc' = "calc"
  /\ UNCHANGED <<clientVars, down, rst, backlog, cur, left, result>>

\* strlen() runs to the first zero, in the buffer or behind it.  A variable op
\* that was not assigned keeps what the stack holds.
Calc ==
  /\ pc = "calc"
  /\ \E m \in Beyond : LET calc == Parsed(buffer \o m) IN
     \E op \in Ops(calc) :
       IF Dies(calc, op) THEN pc' = "dead" /\ UNCHANGED <<left, result>>
       ELSE /\ pc' = "send"
            /\ left' = op
            /\ result' = Value(calc, op)
  /\ UNCHANGED <<clientVars, connVars, backlog, cur, buffer, torn>>

\* Mutant: a client whose block came in pieces gets no result.
SendResultMutant ==
  /\ pc = "send"
  /\ down' = IF cur \in torn THEN down ELSE [down EXCEPT ![cur] = <<result>>]
  /\ rst' = [rst EXCEPT ![cur] = up[cur] # <<>> /\ cur \notin torn]
  /\ pc' = "accept"
  /\ UNCHANGED <<clientVars, up, backlog, cur, calcVars, torn>>

\* The result and the end of the connection, which is a reset if a part of the
\* block has not been received.
SendResult ==
  /\ pc = "send"
  /\ down' = [down EXCEPT ![cur] = <<result>>]
  /\ rst' = [rst EXCEPT ![cur] = up[cur] # <<>>]
  /\ pc' = "accept"
  /\ UNCHANGED <<clientVars, up, backlog, cur, calcVars, torn>>

-----------------------------------------------------------------------------
Server == Accept \/ Receive \/ Calc \/ SendResult

Next == Server \/ \E c \in Clients : Connect(c) \/ SendText(c) \/ RecvResult(c) \/ Kill(c)

Spec == Init /\ [][Next]_vars

\* Both programs run, and who has connected types a line.
FairSpec == Spec /\ WF_vars(Server)
            /\ \A c \in Clients : WF_vars(SendText(c)) /\ WF_vars(RecvResult(c))

-----------------------------------------------------------------------------
\* Every variable has its type: the buffer keeps its length, with a zero in it or
\* without, and a result is an int.
TypeOK ==
  /\ phase \in [Clients -> {"idle", "connected", "waiting"} \cup Ended]
  /\ asked \in [Clients -> Texts \cup {NOTHING}]
  /\ told \in [Clients -> Seq(Ints)] /\ down \in [Clients -> Seq(Ints)]
  /\ up \in [Clients -> Seq(Characters)] /\ \A c \in Clients : Len(up[c]) <= BLOCK
  /\ rst \in [Clients -> BOOLEAN]
  /\ backlog \in Seq(Clients) /\ cur \in Clients \cup {NULL}
  /\ pc \in {"accept", "recv", "calc", "send", "dead"}
  /\ buffer \in Seq(Characters) /\ Len(buffer) = BLOCK
  /\ left \in Operators \cup {NULL, " "} /\ result \in Ints
  /\ torn \subseteq Clients

\* A line of two numbers with an operator between them.
WellFormed(t) == \E i \in 2..Len(t) - 2 :
  /\ t[i] \in Operators
  /\ \A j \in 1..Len(t) - 1 : j = i \/ IsDigit(t[j])

\* What a user means by it.
Middle(t) == CHOOSE i \in DOMAIN t : t[i] \in Operators
Decimal(s) == LET n[i \in 0..Len(s)] == IF i = 0 THEN 0 ELSE 10 * n[i-1] + Digit[s[i]]
              IN n[Len(s)]
Operand1(t) == Decimal(SubSeq(t, 1, Middle(t) - 1))
Operand2(t) == Decimal(SubSeq(t, Middle(t) + 1, Len(t) - 1))

Meant(t) == LET op == t[Middle(t)] m == Operand1(t) n == Operand2(t) IN
            CASE op = "+" -> m + n [] op = "-" -> m - n
              [] op = "*" -> m * n [] op = "/" -> IF n = 0 THEN 0 ELSE m \div n

\* A client whose block arrives whole and has two numbers and one operator
\* gets the value of its own line, unless one of them is no int, whatever the
\* buffer and the stack hold from others.
AnsweredRight ==
  \A c \in Clients : LET t == asked[c] IN
    told[c] # NOTHING /\ c \notin torn /\ WellFormed(t)
      /\ {Operand1(t), Operand2(t), Meant(t)} \subseteq Ints => told[c] = <<Meant(t)>>

\* The line that ends the server divides by a number that is zero as an int, or
\* the least int by -1, or has no operator, or was not received whole.
DiesForAReason ==
  pc = "dead" => LET t == asked[cur] n == Wrap(Operand2(t)) IN
    \/ cur \in torn \/ ~WellFormed(t)
    \/ t[Middle(t)] = "/" /\ (n = 0 \/ (n = -1 /\ Wrap(Operand1(t)) = -INT_MAX-1))

\* The calculator works: it gives right results to whole blocks, whatever stood
\* in the buffers and behind them, and is ended by nothing else than a line it
\* cannot evaluate or a block that was not received whole.
Calculates == TypeOK /\ AnsweredRight /\ DiesForAReason

\* Everybody who connects comes to an end, also if the server has died.
EveryoneAnswered == \A c \in Clients : phase[c] = "connected" ~> phase[c] \in Ended
=============================================================================

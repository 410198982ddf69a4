-------------------------------- MODULE Relay --------------------------------
(***************************************************************************)
(* What the Java chat promises, with no threads, list or sockets.          *)
(*                                                                         *)
(* The server takes the lines of a client one after the other and passes   *)
(* each on to some others, before it takes the next of this client.  Who   *)
(* has heard a client misses no later line of it and hears none twice.     *)
(* Lines of different clients are not ordered.                             *)
(***************************************************************************)
EXTENDS Naturals, Sequences

CONSTANT Clients

VARIABLES taken,     \* taken[s]: how many lines of s the server has read
          heard      \* heard[r]: what was sent to r

relayVars == <<taken, heard>>

Line(s, n) == [from |-> s, n |-> n]

Init == /\ taken = [c \in Clients |-> 0]
        /\ heard = [c \in Clients |-> <<>>]

Take(s) == /\ taken' = [taken EXCEPT ![s] = @ + 1]
           /\ UNCHANGED heard

\* The numbers of the lines of s that r was sent.
Known(r, s) == {heard[r][k].n : k \in {j \in DOMAIN heard[r] : heard[r][j].from = s}}

\* The line that was taken last, if it is the next that r does not have.
Pass(s, r) ==
  /\ s # r /\ taken[s] > 0 /\ taken[s] \notin Known(r, s)
  /\ Known(r, s) = {} \/ taken[s] - 1 \in Known(r, s)
  /\ heard' = [heard EXCEPT ![r] = Append(@, Line(s, taken[s]))]
  /\ UNCHANGED taken

Next == \E s \in Clients : Take(s) \/ \E r \in Clients : Pass(s, r)

Spec == Init /\ [][Next]_relayVars
=============================================================================

------------------------------ MODULE ChatRoom ------------------------------
(***************************************************************************)
(* What the chat server of A5 promises, with no threads, sockets or table. *)
(*                                                                         *)
(* There is one room: a sequence of announcements and messages in the      *)
(* order everybody sees them.  A client that is online receives entries    *)
(* of the room, always the newest one, so the stream of every client runs  *)
(* through the room in order.  Nothing is promised about completeness: a   *)
(* client may miss an entry (A5/server.c gives up a broadcast at the first *)
(* failed write), and may see the newest entry twice (two table entries    *)
(* can name the same descriptor).                                          *)
(***************************************************************************)
EXTENDS Naturals, Sequences

CONSTANTS Clients,   \* the people who may chat
          Entry      \* announcements and messages

VARIABLES room,      \* the conversation, in its one order
          seen,      \* seen[c]: the positions of the room c was sent, in order
          online     \* clients that are connected

roomVars == <<room, seen, online>>

Init == /\ room = <<>>
        /\ seen = [c \in Clients |-> <<>>]
        /\ online = {}

Enter(c) == /\ c \notin online
            /\ online' = online \cup {c}
            /\ UNCHANGED <<room, seen>>

Leave(c) == /\ c \in online
            /\ online' = online \ {c}
            /\ UNCHANGED <<room, seen>>

Publish == /\ Len(room') = Len(room) + 1
           /\ SubSeq(room', 1, Len(room)) = room
           /\ room'[Len(room')] \in Entry
           /\ UNCHANGED <<seen, online>>

Deliver(c) == /\ c \in online
              /\ room # <<>>
              /\ seen' = [seen EXCEPT ![c] = Append(@, Len(room))]
              /\ UNCHANGED <<room, online>>

Next == \/ Publish
        \/ \E c \in Clients : Enter(c) \/ Leave(c) \/ Deliver(c)

Spec == Init /\ [][Next]_roomVars
=============================================================================

------------------------------- MODULE ChatRoom -------------------------------
(***************************************************************************)
(* What the three chat servers of hw4 promise their clients, whatever      *)
(* threads, events or requests they are made of: one room, whose messages  *)
(* have one order; a member hears every message said by another member     *)
(* since it joined, in that order, none twice and none skipped, and, while *)
(* it is reachable, each before the next one is said; a member says        *)
(* goodbye at most once, and nothing after it.                             *)
(***************************************************************************)
EXTENDS Naturals, Sequences

CONSTANT Conn

VARIABLES
  member,   \* "out", "in", "quit" (goodbye said) or "left"
  room,     \* all that was said: who, and whether it was the goodbye
  since,    \* length of room when each member joined
  heard,    \* the numbers of the messages each member was given, in order
  gone      \* who cannot be reached any more

roomVars == <<member, room, since, heard, gone>>

RoomInit ==
  /\ member = [c \in Conn |-> "out"]
  /\ room = <<>>
  /\ since = [c \in Conn |-> 0]
  /\ heard = [c \in Conn |-> <<>>]
  /\ gone = {}

HasHeard(c, k) == \E n \in DOMAIN heard[c] : heard[c][n] = k

\* messages that member c is still to be given
Owed(c) ==
  {k \in since[c] + 1 .. Len(room) : room[k].from # c /\ ~HasHeard(c, k)}

AllHaveHeard == \A c \in Conn \ gone : member[c] = "in" => Owed(c) = {}

Join(c) ==
  /\ member[c] = "out" /\ AllHaveHeard
  /\ member' = [member EXCEPT ![c] = "in"]
  /\ since' = [since EXCEPT ![c] = Len(room)]
  /\ UNCHANGED <<room, heard, gone>>

Say(c) ==
  /\ member[c] = "in" /\ AllHaveHeard
  /\ room' = Append(room, [from |-> c, bye |-> FALSE])
  /\ UNCHANGED <<member, since, heard, gone>>

Quit(c) ==
  /\ member[c] = "in" /\ AllHaveHeard
  /\ room' = Append(room, [from |-> c, bye |-> TRUE])
  /\ member' = [member EXCEPT ![c] = "quit"]
  /\ UNCHANGED <<since, heard, gone>>

Leave(c) ==
  /\ member[c] \in {"in", "quit"}
  /\ member' = [member EXCEPT ![c] = "left"]
  /\ UNCHANGED <<room, since, heard, gone>>

\* the next message c has not heard reaches c
Hear(c) ==
  /\ member[c] = "in"
  /\ \E k \in Owed(c) :
       /\ \A j \in Owed(c) : k <= j
       /\ heard' = [heard EXCEPT ![c] = Append(@, k)]
  /\ UNCHANGED <<member, room, since, gone>>

\* the connection of c breaks, or c closes it
Vanish(c) ==
  /\ gone' = gone \cup {c}
  /\ UNCHANGED <<member, room, since, heard>>

RoomNext ==
  \E c \in Conn : Join(c) \/ Say(c) \/ Quit(c) \/ Leave(c) \/ Hear(c) \/ Vanish(c)

RoomSpec == RoomInit /\ [][RoomNext]_roomVars
=============================================================================

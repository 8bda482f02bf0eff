------------------------------- MODULE Lobby -------------------------------
(***************************************************************************)
(* What the Manager promises the rest of the server, without player ids,   *)
(* task queues, ticks and timers: users gather in rooms, a game is played  *)
(* by a full room, each round of it is worth one point to one of the       *)
(* players, and a player takes the points along when leaving.              *)
(***************************************************************************)
EXTENDS Integers, FiniteSets

CONSTANTS
    Users,     \* those who may enter a room
    RoomIds,   \* rooms that may be opened
    Caps       \* sizes a room may have

VARIABLES
    capOf,     \* room -> number of players it takes, for the rooms opened
    members,   \* room -> users in it
    playing,   \* rooms where a game is on
    decided,   \* rooms whose current round has a winner
    points     \* user -> points in the room the user is in, 0 outside

lobbyVars == <<capOf, members, playing, decided, points>>

Init ==
    /\ capOf = [r \in {} |-> 0]
    /\ members = [r \in RoomIds |-> {}]
    /\ playing = {}
    /\ decided = {}
    /\ points = [u \in Users |-> 0]

HasCap(r) == r \in DOMAIN capOf /\ Cardinality(members[r]) = capOf[r]

Open(r, cap) ==
    /\ r \notin DOMAIN capOf
    /\ capOf' = [s \in DOMAIN capOf \cup {r} |->
                    IF s = r THEN cap ELSE capOf[s]]
    /\ UNCHANGED <<members, playing, decided, points>>

\* Nobody enters a room that is full or where a game is on, and nobody is in
\* two rooms.
Enter(u, r) ==
    /\ r \in DOMAIN capOf \ playing
    /\ Cardinality(members[r]) < capOf[r]
    /\ \A s \in RoomIds : u \notin members[s]
    /\ members' = [members EXCEPT ![r] = @ \cup {u}]
    /\ UNCHANGED <<capOf, playing, decided, points>>

Leave(u, r) ==
    /\ u \in members[r]
    /\ members' = [members EXCEPT ![r] = @ \ {u}]
    /\ points' = [points EXCEPT ![u] = 0]
    /\ UNCHANGED <<capOf, playing, decided>>

StartGame(r) ==
    /\ HasCap(r) /\ r \notin playing
    /\ playing' = playing \cup {r}
    /\ decided' = decided \ {r}
    /\ UNCHANGED <<capOf, members, points>>

StopGame(r) ==
    /\ r \in playing /\ ~HasCap(r)
    /\ playing' = playing \ {r}
    /\ UNCHANGED <<capOf, members, decided, points>>

WinRound(u, r) ==
    /\ r \in playing \ decided /\ HasCap(r)
    /\ u \in members[r]
    /\ decided' = decided \cup {r}
    /\ points' = [points EXCEPT ![u] = @ + 1]
    /\ UNCHANGED <<capOf, members, playing>>

NextRound(r) ==
    /\ r \in decided
    /\ decided' = decided \ {r}
    /\ UNCHANGED <<capOf, members, playing, points>>

Next ==
    \E r \in RoomIds :
        \/ \E cap \in Caps : Open(r, cap)
        \/ \E u \in Users : Enter(u, r) \/ Leave(u, r) \/ WinRound(u, r)
        \/ StartGame(r) \/ StopGame(r) \/ NextRound(r)

Spec == Init /\ [][Next]_lobbyVars
=============================================================================

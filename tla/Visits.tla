-------------------------------- MODULE Visits --------------------------------
(***************************************************************************)
(* How a tab comes from the lobby to a room and away again: the lobby's    *)
(* buttons (app/lobby/page.tsx) and the effect of useRoomSocket that looks *)
(* the room's shard up and connects, once for every room the tab shows.    *)
(*                                                                         *)
(* The answer to a request for a room leads there from whatever page the   *)
(* tab shows by then.  The room page of another code is a new page (the    *)
(* router keys a page by its parameters) with a run of the effect and a    *)
(* socketRef of its own.  What a connection carries is in RoomClient.      *)
(*                                                                         *)
(* Operators named ..._Faulty hold a plausible mistake; see module Room.   *)
(***************************************************************************)
EXTENDS HistoryPages

CONSTANTS
  Code,        \* room codes
  Run,         \* places for runs of the effect that have not come to their end
  MaxAssigns   \* bound of the model: requests for a room under way

ASSUME MaxAssignsAssumption == MaxAssigns \in Nat \ {0}
ASSUME NullRunAssumption == Null \notin Run \cup Code

VARIABLES
  pending,     \* LobbyPage: the shown lobby waits for a room
  assigns,     \* POST /api/rooms and /api/rooms/match under way
  room,        \* the code of the room page that is shown, or Null
  runs,        \* runs of the effect: "lookup", then the state of its socket
  socketRef    \* the run whose socket socketRef holds, or Null

lobbyVars == <<pending, assigns>>
roomVars == <<room, runs, socketRef>>
visitVars == <<lobbyVars, roomVars>>

VisitsInit ==
  /\ pending = FALSE /\ assigns = 0 /\ room = Null
  /\ runs = [i \in Run |-> Null] /\ socketRef = Null

-----------------------------------------------------------------------------
(* Pages.                                                                  *)

\* socketRef.current?.close()
Closing(i, step) ==
  IF i = socketRef /\ step \in {"connecting", "open"} THEN "closing" ELSE step

\* The clean-up of the effect.
CleanedUp ==
  [i \in Run |-> IF runs[i] = Null THEN Null
                 ELSE [runs[i] EXCEPT !.cancelled = TRUE, !.step = Closing(i, @)]]

\* The room page for code c; the page that was shown is unmounted, unless it is
\* the same one.
ShowRoom(c) ==
  /\ page' = "room" /\ room' = c /\ pending' = FALSE
  /\ IF page = "room" /\ room = c THEN UNCHANGED <<runs, socketRef>>
     ELSE /\ \E i \in Run :
               /\ runs[i] = Null
               /\ runs' = [CleanedUp EXCEPT ![i] =
                             [room |-> c, cancelled |-> FALSE, step |-> "lookup"]]
          /\ socketRef' = Null
  /\ requests' = {} /\ profile' = NoProfile /\ ranking' = NoRanking
  /\ UNCHANGED dbVars

\* handleJoinByCode, or a line of the list.
JoinByCode(c) == page = "lobby" /\ ShowRoom(c) /\ UNCHANGED assigns

\* The buttons of the lobby: assignAndEnter up to its await.
AssignAndEnter ==
  /\ page = "lobby" /\ ~pending /\ assigns < MaxAssigns
  /\ pending' = TRUE /\ assigns' = assigns + 1
  /\ UNCHANGED <<historyVars, roomVars>>

\* Its continuation, in the lobby or after the lobby was left.
Assigned(c) == assigns > 0 /\ assigns' = assigns - 1 /\ ShowRoom(c)

\* It fails: the request this lobby waits for, or one of a lobby that was left.
AssignFails ==
  /\ assigns > 0 /\ assigns' = assigns - 1
  /\ \/ pending /\ pending' = FALSE
     \/ assigns > (IF pending THEN 1 ELSE 0) /\ UNCHANGED pending
  /\ UNCHANGED <<historyVars, roomVars>>

\* The button of the room page.
LeaveRoom ==
  /\ page = "room" /\ page' = "lobby"
  /\ room' = Null /\ runs' = CleanedUp /\ socketRef' = Null
  /\ UNCHANGED <<dbVars, profile, ranking, requests, lobbyVars>>

-----------------------------------------------------------------------------
(* A run of the effect.                                                    *)

Is(i, steps) == runs[i] # Null /\ runs[i].step \in steps
Ends(i) == runs' = [runs EXCEPT ![i] = Null]

Proceeds_Faulty(i) == TRUE               \* no check after the await
Proceeds(i) == ~runs[i].cancelled

\* The lookup names the shard.
LookupFound(i) ==
  /\ Is(i, {"lookup"})
  /\ \/ /\ Proceeds(i)
        /\ runs' = [runs EXCEPT ![i].step = "connecting"] /\ socketRef' = i
     \/ ~Proceeds(i) /\ Ends(i) /\ UNCHANGED socketRef
  /\ UNCHANGED <<historyVars, lobbyVars, room>>

\* It is 404, or it throws.
LookupFails(i) ==
  /\ Is(i, {"lookup"}) /\ Ends(i)
  /\ UNCHANGED <<historyVars, lobbyVars, room, socketRef>>

\* onopen sends the join message.
SocketOpens(i) ==
  /\ Is(i, {"connecting"}) /\ runs' = [runs EXCEPT ![i].step = "open"]
  /\ UNCHANGED <<historyVars, lobbyVars, room, socketRef>>

\* onclose, whoever closed it.
SocketCloses(i) ==
  /\ Is(i, {"connecting", "open", "closing"}) /\ Ends(i)
  /\ socketRef' = IF socketRef = i THEN Null ELSE socketRef
  /\ UNCHANGED <<historyVars, lobbyVars, room>>

VisitsNext ==
  \/ \E c \in Code : JoinByCode(c) \/ Assigned(c)
  \/ AssignAndEnter \/ AssignFails \/ LeaveRoom
  \/ \E i \in Run : LookupFound(i) \/ LookupFails(i) \/ SocketOpens(i) \/ SocketCloses(i)

-----------------------------------------------------------------------------
(* Properties.                                                             *)

\* A tab holds a seat in the room it shows and in no other: whatever was under
\* way when a room was left, or when a late answer led to another room, nothing
\* is connected, or will be, but the room that is shown, and leaving it can
\* reach that connection (useRoomSocket.ts:125 and 274).
OneSeatPerTab ==
  \A i \in Run :
    /\ Is(i, {"connecting", "open"}) =>
         page = "room" /\ runs[i].room = room /\ socketRef = i
    /\ Is(i, {"lookup"}) /\ ~runs[i].cancelled => page = "room" /\ runs[i].room = room
=============================================================================

------------------------------- MODULE ChatWire -------------------------------
(***************************************************************************)
(* The WebSocket connections between the browser (frontend/src/api/ws.ts)  *)
(* and the chat endpoint (app/routes_chat.py).  Every question the user    *)
(* sends is a turn and opens a connection of its own, so a connection is   *)
(* named by its turn.                                                      *)
(*                                                                         *)
(*   sock[t]  the browser's socket.  close() on an open socket makes it    *)
(*            "closing", after which no message is dispatched; close() on  *)
(*            a connecting one makes it "failing", and the browser will    *)
(*            still dispatch an error event before the close event, after  *)
(*            which it is "failed", as is a connection that is lost.       *)
(*   up[t]    the first frame: the history of the chat, question last.     *)
(*   down[t]  what the server sent and the browser has not dispatched, the *)
(*            answer to the handshake ("open", "refused") and the end of   *)
(*            the connection ("end") included.                             *)
(***************************************************************************)
EXTENDS Naturals, Sequences

Seqs == INSTANCE SequencesExt

CONSTANT MaxTurns        \* bound: questions sent in a behaviour

ASSUME MaxTurnsAssumption == MaxTurns \in Nat \ {0}

Turn == 1 .. MaxTurns
NoTurn == 0

VARIABLES sock, up, down

wireVars == <<sock, up, down>>

SockState == {"none", "connecting", "failing", "failed",
              "open", "closing", "closed"}

Frame(event, size) == [event |-> event, size |-> size]

\* The server still has somebody to send to.
Connected(t) == sock[t] \in {"connecting", "open"}

\* The first frame has left the browser: onopen sends it at once.
Requested(t) == sock[t] \in {"open", "closing", "closed"}

NextFrame(t) == Head(down[t]).event

\* ws.close() on every socket of S.
CloseSockets(S) ==
    [t \in Turn |->
        CASE t \in S /\ sock[t] = "open" -> "closing"
          [] t \in S /\ sock[t] = "connecting" -> "failing"
          [] OTHER -> sock[t]]

WireInit ==
    /\ sock = [t \in Turn |-> "none"]
    /\ up = [t \in Turn |-> <<>>]
    /\ down = [t \in Turn |-> <<>>]
===============================================================================

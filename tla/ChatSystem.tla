------------------------------ MODULE ChatSystem ------------------------------
(***************************************************************************)
(* The chat page and the chat server together: the user clicks, the page   *)
(* dispatches events and timers, the handlers of the turns run on the      *)
(* server concurrently, the server may be stopped and the page reloaded.   *)
(***************************************************************************)
EXTENDS ChatClient, ChatServer

CONSTANTS Shutdowns,     \* the server may be stopped
          Reloads        \* the page may be reloaded

ASSUME FaultsAssumption == Shutdowns \in BOOLEAN /\ Reloads \in BOOLEAN

vars == <<sock, up, down, handler, order, active, msgs, streaming, activeConn,
          target, settled, timer, failTimers, saved, drawn>>

Init == WireInit /\ ServerInit /\ ClientInit

Page ==
    /\ \/ Click
       \/ \E t \in Turn : Dispatch(t) \/ ConnectTimeout(t)
       \/ ClearError
       \/ Reloads /\ Reload
    /\ UNCHANGED handler

Server ==
    /\ \/ \E t \in Turn : Handle(t)
       \/ Shutdowns /\ Shutdown
    /\ UNCHANGED clientVars

Next == Page \/ Server

Spec == Init /\ [][Next]_vars

\* The browser fires a timer that is due.  Nothing is assumed of the server,
\* of the network or of the user.
FairSpec ==
    /\ Spec
    /\ \A t \in Turn : WF_vars(ConnectTimeout(t) /\ UNCHANGED handler)
    /\ WF_vars(ClearError /\ UNCHANGED handler)

-------------------------------------------------------------------------------
Message == [role : {"user", "assistant"}, text : SUBSET Turn, size : Nat,
            cites : Turn \cup {NoTurn}]

\* The type of every variable.
TypeOK ==
    /\ sock \in [Turn -> SockState]
    /\ handler \in [Turn -> HandlerState]
    /\ \A t \in Turn : \A i \in DOMAIN up[t] :
          up[t][i] \in [role : {"user", "assistant"}, size : Nat]
    /\ \A t \in Turn : \A i \in DOMAIN down[t] :
          down[t][i] \in [event : {"open", "token", "citation", "done", "error",
                                   "end", "refused"}, size : Nat]
    /\ drawn \subseteq Chat
    /\ Chats \subseteq drawn
    /\ active \in Chats
    /\ \A c \in Chat : \A i \in DOMAIN msgs[c] : msgs[c][i] \in Message
    /\ streaming \in [status : {"none", "streaming", "error"},
                      chat : Chat \cup {NoChat}, text : SUBSET Turn,
                      size : Nat, cites : Turn \cup {NoTurn}]
    /\ activeConn \in Turn \cup {NoTurn}
    /\ target \in [Turn -> Chat \cup {NoChat}]
    /\ settled \subseteq Turn /\ timer \subseteq Turn
    /\ failTimers \in Nat

\* An answer stands right after the question of its own turn: neither the text
\* nor the citations of another turn, superseded, stopped or of another chat,
\* get into it (the guards of the four handlers and the abort in chat.ts).
AnswersMatch ==
    \A c \in Chat : \A i \in DOMAIN msgs[c] :
        msgs[c][i].role = "assistant" =>
            /\ i > 1
            /\ msgs[c][i - 1].role = "user"
            /\ msgs[c][i].text \subseteq msgs[c][i - 1].text
            /\ msgs[c][i].cites \in msgs[c][i - 1].text \cup {NoTurn}

\* At most one connection is at work for the page, the one activeConn can
\* abort: a superseded or failed turn leaves none behind that nobody holds.
OneConnection ==
    \A t \in Turn : Connected(t) /\ t \notin settled => t = activeConn

\* What is on display as streaming is fed by a connection of its own chat that
\* has not settled, and the chat has not been removed under it.
StreamHasSource ==
    /\ streaming.status = "streaming" =>
          /\ activeConn # NoTurn
          /\ Owned(activeConn)
          /\ activeConn \notin settled
    /\ Sending => streaming.chat \in Chats

\* A reload finds every message: the state in localStorage is the one on
\* display, from the first change on.
SavedIsCurrent ==
    IF saved = Nothing
    THEN \A c \in Chat : msgs[c] = <<>>
    ELSE saved = [order |-> order, active |-> active, msgs |-> msgs]

\* WaitEnds: while the page waits, a timer is pending that ends the wait: the 90 s
\* of the connection that streams, and once that has failed the 4 s of a failure.
\* Only a server that is stopped in the middle of a turn can leave the page
\* without one: its end clears the 90 s (onclose of ws.ts) and calls no handler.
WaitEnds ==
    /\ streaming.status = "streaming" =>
          activeConn \in timer \/ (Shutdowns /\ sock[activeConn] = "closed")
    /\ streaming.status = "error" => failTimers > 0

\* The page leaves the streaming state: the user can send again.
TurnEnds == Sending ~> ~Sending

\* FailedStaysFailed: once a turn has failed on display, nothing that its
\* connection still brings is written into a chat as an answer, a late done
\* least of all (_failStreaming() and the timers of ws.ts close it).  Only the
\* stop button may still keep what had come.
FailedStaysFailed ==
    [][streaming.status = "error" =>
          \A c \in Chat : Len(msgs'[c]) > Len(msgs[c]) =>
              msgs'[c][Len(msgs'[c])].role = "user" \/ UNCHANGED down]_vars
===============================================================================

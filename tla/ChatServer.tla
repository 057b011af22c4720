------------------------------ MODULE ChatServer ------------------------------
(***************************************************************************)
(* The handler of /ws/chat in app/routes_chat.py, one per connection.  The *)
(* server keeps nothing between turns: it is handed the whole history,     *)
(* validates it, runs the agent, and sends at most one token frame with    *)
(* the whole answer, at most one citation frame, and then done.            *)
(*                                                                         *)
(* A message is its role and its size; the agent and the language model    *)
(* are a choice of the answer's size (0: nothing is left of it once the    *)
(* reasoning is stripped), of having citations, and of raising.            *)
(***************************************************************************)
EXTENDS ChatWire

CONSTANTS MaxItem,       \* _MAX_ITEM_CHARS, in units
          MaxHistory,    \* _MAX_HISTORY_CHARS, in units
          ReplySize      \* the sizes of the model's answers

ASSUME SizesAssumption ==
    /\ MaxItem \in Nat /\ MaxHistory \in Nat
    /\ ReplySize \subseteq Nat

VARIABLE handler         \* handler[t]: the await the coroutine of turn t is at

HandlerState == {"none", "receive", "agent", "cite", "done", "refused", "ended"}

TotalSize(history) == Seqs!FoldLeft(LAMBDA sum, item : sum + item.size, 0, history)

ValidHistory(history) ==
    /\ history # <<>>
    /\ \A i \in DOMAIN history : history[i].size <= MaxItem
    /\ history[Len(history)].role = "user"
    /\ TotalSize(history) <= MaxHistory

Running(t) == handler[t] \notin {"none", "refused", "ended"}

Transmit(t, frames) ==
    /\ down' = [down EXCEPT ![t] = @ \o frames]
    /\ UNCHANGED <<sock, up>>

Goto(t, state) == handler' = [handler EXCEPT ![t] = state]

\* await ws.accept()
Accept(t) ==
    /\ handler[t] = "none"
    /\ sock[t] = "connecting"
    /\ down[t] = <<>>
    /\ Goto(t, "receive")
    /\ Transmit(t, <<Frame("open", 0)>>)

\* The first frame is refused: an error frame, then the close.
Refuse(t) ==
    /\ handler[t] = "receive"
    /\ Requested(t)
    /\ ~ValidHistory(up[t])
    /\ Goto(t, "refused")
    /\ Transmit(t, <<Frame("error", 0), Frame("end", 0)>>)

StartAgent(t) ==
    /\ handler[t] = "receive"
    /\ Requested(t)
    /\ ValidHistory(up[t])
    /\ Goto(t, "agent")
    /\ UNCHANGED wireVars

\* graph.ainvoke returned; an answer that is empty once stripped is not sent.
Answer(t) ==
    /\ handler[t] = "agent"
    /\ Connected(t)
    /\ Goto(t, "cite")
    /\ \E size \in ReplySize :
          Transmit(t, IF size > 0 THEN <<Frame("token", size)>> ELSE <<>>)

\* The sources of this turn's search, if it searched.
Cite(t) ==
    /\ handler[t] = "cite"
    /\ Connected(t)
    /\ Goto(t, "done")
    /\ \E frames \in {<<>>, <<Frame("citation", 0)>>} : Transmit(t, frames)

\* done, and the coroutine returns, which ends the connection.
Finish(t) ==
    /\ handler[t] = "done"
    /\ Connected(t)
    /\ Goto(t, "ended")
    /\ Transmit(t, <<Frame("done", 0), Frame("end", 0)>>)

\* Mutation of AgentError: the handler ends without the error frame.
AgentErrorUntold(t) ==
    /\ handler[t] \in {"agent", "cite"}
    /\ Connected(t)
    /\ Goto(t, "ended")
    /\ Transmit(t, <<Frame("end", 0)>>)

\* The agent, the model or the extraction of citations raises.
AgentError(t) ==
    /\ handler[t] \in {"agent", "cite"}
    /\ Connected(t)
    /\ Goto(t, "ended")
    /\ Transmit(t, <<Frame("error", 0), Frame("end", 0)>>)

\* WebSocketDisconnect: learnt from the next receive or send, so that a
\* request that was sent is read, and an agent that runs for nobody runs on.
Disconnected(t) ==
    /\ Running(t)
    /\ ~Connected(t)
    /\ ~(handler[t] = "receive" /\ Requested(t))
    /\ Goto(t, "ended")
    /\ UNCHANGED wireVars

Handle(t) ==
    \/ Accept(t) \/ Refuse(t) \/ StartAgent(t) \/ Answer(t) \/ Cite(t)
    \/ Finish(t) \/ AgentError(t) \/ Disconnected(t)

\* The server process is stopped: uvicorn closes what it has accepted, and
\* the handshakes that are under way are refused.
Shutdown ==
    /\ \E t \in Turn : Running(t) \/ (sock[t] = "connecting" /\ down[t] = <<>>)
    /\ handler' = [t \in Turn |->
          IF Running(t) \/ sock[t] = "connecting" THEN "ended" ELSE handler[t]]
    /\ down' = [t \in Turn |->
          CASE Running(t) /\ Connected(t) -> down[t] \o <<Frame("end", 0)>>
            [] sock[t] = "connecting" /\ down[t] = <<>> -> <<Frame("refused", 0)>>
            [] OTHER -> down[t]]
    /\ UNCHANGED <<sock, up>>

ServerInit == handler = [t \in Turn |-> "none"]
===============================================================================

------------------------------ MODULE ChatClient ------------------------------
(***************************************************************************)
(* The chat page of the browser: the store frontend/src/stores/chat.ts and *)
(* the connections it opens through frontend/src/api/ws.ts.  The page has  *)
(* one thread: every action below is one task of the event loop, a click   *)
(* of the user, the dispatch of a socket's event, or a timer.              *)
(*                                                                         *)
(* A message is its role, its size, the turns whose text is in it, and the *)
(* turn whose citations it carries.  Titles and timestamps are left out.   *)
(***************************************************************************)
EXTENDS ChatWire

CONSTANTS Chat,          \* chat ids (uuidv4: never drawn twice)
          NoChat,
          TextSize       \* sizes of the questions, at most MAX_MESSAGE_CHARS

ASSUME ChatAssumption == NoChat \notin Chat /\ TextSize \subseteq Nat \ {0}

VARIABLES
    order,       \* chats, in order
    active,      \* activeId
    msgs,        \* messages of each chat
    streaming,   \* the streaming state, NoStream when null
    activeConn,  \* the turn of the module variable activeConn, NoTurn when null
    target,      \* targetChatId, closed over by the handlers of each turn
    settled,     \* turns whose connection has settled
    timer,       \* turns whose 90 s timer is pending
    failTimers,  \* number of pending 4 s timers of _failStreaming
    saved,       \* localStorage["counselor:state"], Nothing when absent
    drawn        \* chat ids drawn so far

chatVars   == <<order, active, msgs, saved, drawn>>
streamVars == <<streaming, activeConn, failTimers>>
connVars   == <<target, settled, timer>>
clientVars == <<order, active, msgs, streaming, activeConn, target, settled,
                timer, failTimers, saved, drawn>>

NoStream == [status |-> "none", chat |-> NoChat, text |-> {}, size |-> 0,
             cites |-> NoTurn]
Nothing  == [order |-> <<>>, active |-> NoChat, msgs |-> <<>>]

Question(t, size) == [role |-> "user", text |-> {t}, size |-> size, cites |-> NoTurn]
AnswerOf(stream)  == [role |-> "assistant", text |-> stream.text,
                      size |-> stream.size, cites |-> stream.cites]

Sending == streaming.status # "none"
Owned(t) == streaming.chat = target[t]      \* streaming?.chatId === targetChatId
Live == {activeConn} \ {NoTurn}
Chats == {order[i] : i \in DOMAIN order}
Fresh == {t \in Turn : sock[t] = "none"}
NextTurn == CHOOSE t \in Fresh : TRUE

\* persist(), with the values the action leaves.
Persist == saved' = [order |-> order', active |-> active', msgs |-> msgs']

\* abort() on every connection of S: settled, its timer cleared, closed.
Abort(S) ==
    /\ settled' = settled \cup S
    /\ timer' = timer \ S
    /\ sock' = CloseSockets(S)

Settle(S) ==
    /\ settled' = settled \cup S
    /\ timer' = timer \ S
    /\ sock' = sock

Push(c, m) == msgs' = [msgs EXCEPT ![c] = Append(@, m)]

-------------------------------------------------------------------------------
(* Clicks.                                                                 *)

\* The composer sends only while nothing streams; the suggestions of an empty
\* chat send at any time, which supersedes the turn of another chat.
MaySend == ~Sending \/ (msgs[active] = <<>> /\ streaming.chat # active)

\* Mutation of Send: a superseding send leaves the previous connection alone.
SendKeepsPrevious(size) ==
    LET t == NextTurn IN
    /\ Fresh # {}
    /\ MaySend
    /\ Push(active, Question(t, size))
    /\ UNCHANGED <<order, active, drawn>>
    /\ Persist
    /\ streaming' = [NoStream EXCEPT !.status = "streaming", !.chat = active]
    /\ activeConn' = t
    /\ failTimers' = failTimers
    /\ target' = [target EXCEPT ![t] = active]
    /\ up' = [up EXCEPT ![t] = [i \in DOMAIN msgs'[active] |->
          [role |-> msgs'[active][i].role, size |-> msgs'[active][i].size]]]
    /\ sock' = [sock EXCEPT ![t] = "connecting"]
    /\ timer' = timer \cup {t}
    /\ UNCHANGED <<settled, down>>

Send(size) ==
    LET t == NextTurn IN
    /\ Fresh # {}
    /\ MaySend
    /\ Push(active, Question(t, size))
    /\ UNCHANGED <<order, active, drawn>>
    /\ Persist
    /\ streaming' = [NoStream EXCEPT !.status = "streaming", !.chat = active]
    /\ activeConn' = t
    /\ failTimers' = IF Sending THEN failTimers + 1 ELSE failTimers
    /\ target' = [target EXCEPT ![t] = active]
    /\ up' = [up EXCEPT ![t] = [i \in DOMAIN msgs'[active] |->
          [role |-> msgs'[active][i].role, size |-> msgs'[active][i].size]]]
    /\ LET cancelled == IF Sending THEN Live ELSE {} IN
         /\ sock' = [CloseSockets(cancelled) EXCEPT ![t] = "connecting"]
         /\ settled' = settled \cup cancelled
         /\ timer' = (timer \ cancelled) \cup {t}
    /\ UNCHANGED down

\* What stop() does to the messages: what was received is kept as an answer.
StoppedMsgs ==
    IF streaming.chat \in Chats /\ streaming.size > 0
    THEN [msgs EXCEPT ![streaming.chat] = Append(@, AnswerOf(streaming))]
    ELSE msgs

StopStream ==
    /\ Abort(Live)
    /\ activeConn' = NoTurn
    /\ streaming' = NoStream
    /\ UNCHANGED <<failTimers, target, up, down>>

\* Mutation of Stop: the partial answer is not saved.
StopUnsaved ==
    /\ Sending
    /\ StopStream
    /\ msgs' = StoppedMsgs
    /\ UNCHANGED <<order, active, drawn, saved>>

Stop ==
    /\ Sending
    /\ StopStream
    /\ msgs' = StoppedMsgs
    /\ UNCHANGED <<order, active, drawn>>
    /\ IF msgs' # msgs THEN Persist ELSE UNCHANGED saved

Create ==
    /\ \E c \in Chat \ drawn :
          /\ order' = Append(order, c)
          /\ active' = c
          /\ drawn' = drawn \cup {c}
    /\ UNCHANGED msgs
    /\ Persist
    /\ UNCHANGED <<streamVars, connVars, wireVars>>

SwitchTo(c) ==
    /\ c \in Chats \ {active}
    /\ active' = c
    /\ UNCHANGED <<order, msgs, drawn>>
    /\ Persist
    /\ UNCHANGED <<streamVars, connVars, wireVars>>

\* chats.filter((c) => c.id !== id): an id is drawn, and so kept, once.
Without(c) == Seqs!RemoveAt(order, CHOOSE i \in DOMAIN order : order[i] = c)

\* The chats that are left; a blank one when none is.
Keep(rest) ==
    IF rest # <<>>
    THEN order' = rest /\ drawn' = drawn
    ELSE \E c \in Chat \ drawn : order' = <<c>> /\ drawn' = drawn \cup {c}

\* Mutation of Remove: the chat goes, its turn does not.
RemoveKeepsStream(c) ==
    /\ c \in Chats
    /\ Keep(Without(c))
    /\ active' = IF c = active THEN order'[1] ELSE active
    /\ msgs' = [msgs EXCEPT ![c] = <<>>]
    /\ Persist
    /\ UNCHANGED <<streamVars, connVars, wireVars>>

\* Mutation of Remove: activeId is left on the chat that goes.
RemoveKeepsActive(c) ==
    /\ c \in Chats
    /\ Keep(Without(c))
    /\ active' = active
    /\ msgs' = [msgs EXCEPT ![c] = <<>>]
    /\ Persist
    /\ IF streaming.chat = c THEN StopStream
       ELSE UNCHANGED <<streamVars, connVars, wireVars>>

Remove(c) ==
    /\ c \in Chats
    /\ Keep(Without(c))
    /\ active' = IF c = active THEN order'[1] ELSE active
    /\ msgs' = [msgs EXCEPT ![c] = <<>>]
    /\ Persist
    /\ IF streaming.chat = c THEN StopStream
       ELSE UNCHANGED <<streamVars, connVars, wireVars>>

ClearAll ==
    /\ Keep(<<>>)
    /\ active' = order'[1]
    /\ msgs' = [c \in Chat |-> <<>>]
    /\ Persist
    /\ StopStream

\* The page is loaded again: what was not saved is gone, and its sockets with it.
Reload ==
    /\ IF saved = Nothing
       THEN /\ Keep(<<>>)
            /\ active' = order'[1]
            /\ msgs' = [c \in Chat |-> <<>>]
       ELSE /\ order' = saved.order
            /\ active' = saved.active
            /\ msgs' = saved.msgs
            /\ UNCHANGED drawn
    /\ streaming' = NoStream
    /\ activeConn' = NoTurn
    /\ failTimers' = 0
    /\ timer' = {}
    /\ settled' = {t \in Turn : sock[t] # "none"}
    /\ sock' = [t \in Turn |->
          CASE sock[t] \in {"connecting", "failing"} -> "failed"
            [] sock[t] \in {"open", "closing"} -> "closed"
            [] OTHER -> sock[t]]
    /\ UNCHANGED <<saved, target, up, down>>

-------------------------------------------------------------------------------
(* Events of the sockets.  A message is dispatched on an open socket only. *)

Event(t, event) == down[t] # <<>> /\ NextFrame(t) = event

Consume(t) == down' = [down EXCEPT ![t] = Tail(@)]

\* Mutation of FailStream: nothing clears the error.
FailStreamForGood(settling) ==
    /\ streaming' = [streaming EXCEPT !.status = IF Sending THEN "error" ELSE @]
    /\ settled' = settled \cup Live \cup settling
    /\ timer' = timer \ (Live \cup settling)
    /\ activeConn' = NoTurn
    /\ failTimers' = failTimers

\* _failStreaming(), when the handler of turn t runs it; settling also what the
\* event itself settles.  The connection that is closed is activeConn.
FailStream(settling) ==
    /\ streaming' = [streaming EXCEPT !.status = IF Sending THEN "error" ELSE @]
    /\ settled' = settled \cup Live \cup settling
    /\ timer' = timer \ (Live \cup settling)
    /\ activeConn' = NoTurn
    /\ failTimers' = failTimers + 1

\* handlers.onError of turn t.
OnError(t) ==
    IF Owned(t)
    THEN FailStream({t}) /\ sock' = CloseSockets(Live)
    ELSE Settle({t}) /\ UNCHANGED streamVars

\* onopen: the first frame goes out.
OnOpen(t) ==
    /\ sock[t] = "connecting"
    /\ Event(t, "open")
    /\ Consume(t)
    /\ sock' = [sock EXCEPT ![t] = "open"]
    /\ UNCHANGED <<up, clientVars>>

OnToken(t) ==
    /\ sock[t] = "open"
    /\ Event(t, "token")
    /\ streaming' = IF Owned(t)
          THEN [streaming EXCEPT !.text = @ \cup {t},
                                 !.size = @ + Head(down[t]).size]
          ELSE streaming
    /\ Consume(t)
    /\ UNCHANGED <<sock, up, chatVars, connVars, activeConn, failTimers>>

OnCitation(t) ==
    /\ sock[t] = "open"
    /\ Event(t, "citation")
    /\ streaming' = IF Owned(t) THEN [streaming EXCEPT !.cites = t] ELSE streaming
    /\ Consume(t)
    /\ UNCHANGED <<sock, up, chatVars, connVars, activeConn, failTimers>>

\* Mutation of OnDone: the answer goes to the chat on display.
OnDoneToActive(t) ==
    /\ sock[t] = "open"
    /\ Event(t, "done")
    /\ Consume(t)
    /\ Settle({t})
    /\ UNCHANGED <<up, target, failTimers, order, active, drawn>>
    /\ streaming' = NoStream
    /\ activeConn' = NoTurn
    /\ Push(active, AnswerOf(streaming))
    /\ Persist

OnDone(t) ==
    /\ sock[t] = "open"
    /\ Event(t, "done")
    /\ Consume(t)
    /\ Settle({t})
    /\ UNCHANGED <<up, target, failTimers, order, active, drawn>>
    /\ IF Owned(t)
       THEN /\ streaming' = NoStream
            /\ activeConn' = NoTurn
            /\ IF target[t] \in Chats
               THEN Push(target[t], AnswerOf(streaming)) /\ Persist
               ELSE UNCHANGED <<msgs, saved>>
       ELSE UNCHANGED <<streaming, activeConn, msgs, saved>>

OnErrorFrame(t) ==
    /\ sock[t] = "open"
    /\ Event(t, "error")
    /\ Consume(t)
    /\ OnError(t)
    /\ UNCHANGED <<up, target, chatVars>>

\* The server ended the connection: onclose clears the timer, and that is all.
OnClose(t) ==
    /\ sock[t] = "open"
    /\ Event(t, "end")
    /\ Consume(t)
    /\ sock' = [sock EXCEPT ![t] = "closed"]
    /\ timer' = timer \ {t}
    /\ UNCHANGED <<up, chatVars, streamVars, target, settled>>

\* The close that close() asked for.
OnClosed(t) ==
    /\ sock[t] = "closing"
    /\ sock' = [sock EXCEPT ![t] = "closed"]
    /\ timer' = timer \ {t}
    /\ UNCHANGED <<up, down, chatVars, streamVars, target, settled>>

\* The connection was closed before it was made, could not be made (the server
\* refused it, or is out of reach), or is lost when it was open: onerror, and
\* onclose after it.
OnConnectError(t) ==
    /\ sock[t] \in {"failing", "connecting", "open"}
    /\ UNCHANGED <<up, down, target, chatVars>>
    /\ IF Owned(t)
       THEN /\ FailStream({t})
            /\ sock' = [CloseSockets(Live) EXCEPT ![t] = "failed"]
       ELSE /\ settled' = settled \cup {t}
            /\ timer' = timer \ {t}
            /\ sock' = [sock EXCEPT ![t] = "failed"]
            /\ UNCHANGED streamVars

-------------------------------------------------------------------------------
(* Timers.                                                                 *)

\* Mutation of ConnectTimeout: the handler runs, the socket stays open.
ConnectTimeoutKeepsSocket(t) ==
    /\ t \in timer
    /\ UNCHANGED <<sock, up, down, target, chatVars>>
    /\ IF Owned(t)
       THEN FailStream({t})
       ELSE settled' = settled \cup {t} /\ timer' = timer \ {t} /\ UNCHANGED streamVars

\* The 90 s of a connection that has not settled: closed, then onError.
ConnectTimeout(t) ==
    /\ t \in timer
    /\ UNCHANGED <<up, down, target, chatVars>>
    /\ IF Owned(t)
       THEN FailStream({t}) /\ sock' = CloseSockets(Live \cup {t})
       ELSE Abort({t}) /\ UNCHANGED streamVars

\* The error was on display for 4 s.
ClearError ==
    /\ failTimers > 0
    /\ failTimers' = failTimers - 1
    /\ streaming' = IF streaming.status = "error" THEN NoStream ELSE streaming
    /\ UNCHANGED <<wireVars, chatVars, connVars, activeConn>>

ClientInit ==
    \E c \in Chat :
        /\ order = <<c>>
        /\ active = c
        /\ drawn = {c}
        /\ msgs = [x \in Chat |-> <<>>]
        /\ saved = Nothing
        /\ streaming = NoStream
        /\ activeConn = NoTurn
        /\ failTimers = 0
        /\ target = [t \in Turn |-> NoChat]
        /\ settled = {}
        /\ timer = {}

Click ==
    \/ \E size \in TextSize : Send(size)
    \/ Stop \/ Create \/ ClearAll
    \/ \E c \in Chat : SwitchTo(c) \/ Remove(c)

Dispatch(t) ==
    \/ OnOpen(t) \/ OnToken(t) \/ OnCitation(t) \/ OnDone(t) \/ OnErrorFrame(t)
    \/ OnClose(t) \/ OnClosed(t) \/ OnConnectError(t)
===============================================================================

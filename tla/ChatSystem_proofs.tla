-------------------------- MODULE ChatSystem_proofs --------------------------
(***************************************************************************)
(* The safety of the chat page, for any number of turns and chats, any     *)
(* history and any interleaving of clicks, events, timers, handlers,       *)
(* shutdowns and reloads.                                                  *)
(***************************************************************************)
EXTENDS ChatSystem, TLAPS

ItemType  == [role : {"user", "assistant"}, size : Nat]
FrameType == [event : {"open", "token", "citation", "done", "error", "end",
                       "refused"}, size : Nat]
StreamType == [status : {"none", "streaming", "error"}, chat : Chat \cup {NoChat},
               text : SUBSET Turn, size : Nat, cites : Turn \cup {NoTurn}]

WireTypes ==
    /\ sock \in [Turn -> SockState]
    /\ up = [t \in Turn |-> up[t]]
    /\ \A t \in Turn : \A i \in DOMAIN up[t] : up[t][i] \in ItemType
    /\ down \in [Turn -> Seq(FrameType)]
    /\ handler \in [Turn -> HandlerState]

\* The chats: no id twice, the active one among them, no other has messages.
ChatTypes ==
    /\ order \in Seq(Chat)
    /\ \A i, j \in DOMAIN order : order[i] = order[j] => i = j
    /\ drawn \subseteq Chat
    /\ Chats \subseteq drawn
    /\ active \in Chats
    /\ msgs \in [Chat -> Seq(Message)]

ConnTypes ==
    /\ streaming \in StreamType
    /\ activeConn \in Turn \cup {NoTurn}
    /\ target \in [Turn -> Chat \cup {NoChat}]
    /\ settled \subseteq Turn
    /\ timer \subseteq {t \in Turn : sock[t] # "none"}
    /\ failTimers \in Nat

Final == {"done", "error", "end", "refused"}

\* What the server sends ends with one final frame and the end; a connection
\* that has settled while open brings nothing but the end any more.
Orderly ==
    \A t \in Turn :
        /\ \A i, j \in DOMAIN down[t] :
              i < j /\ down[t][i].event \in Final => down[t][j].event = "end"
        /\ \A i \in DOMAIN down[t] :
              down[t][i].event \in Final => handler[t] \in {"refused", "ended"}
        /\ t \in settled => sock[t] \notin {"none", "connecting"}
        /\ t \in settled /\ sock[t] = "open" =>
              /\ handler[t] \in {"refused", "ended"}
              /\ \A i \in DOMAIN down[t] : down[t][i].event = "end"

\* The connection that is held is the source of what is streaming.
Source ==
    /\ streaming.status = "streaming" <=> activeConn # NoTurn
    /\ activeConn # NoTurn =>
          /\ activeConn \notin settled
          /\ sock[activeConn] # "none"
          /\ target[activeConn] = streaming.chat
    /\ streaming.status # "none" => streaming.chat \in Chats

\* What is on display answers the last message of its chat, the question of
\* the turn that streams.
Pending ==
    Sending =>
        LET asked == msgs[streaming.chat]
            last  == asked[Len(asked)] IN
        /\ asked # <<>>
        /\ last.role = "user"
        /\ streaming.text \subseteq last.text
        /\ streaming.cites \in last.text \cup {NoTurn}
        /\ streaming.status = "streaming" => last.text = {activeConn}

Inv ==
    /\ WireTypes /\ ChatTypes /\ ConnTypes
    /\ Orderly /\ Source /\ OneConnection
    /\ Pending /\ AnswersMatch /\ SavedIsCurrent

-------------------------------------------------------------------------------
(* The chats.                                                              *)

LEMMA WithoutSeq ==
    ASSUME order \in Seq(Chat), NEW c \in Chats,
           \A i, j \in DOMAIN order : order[i] = order[j] => i = j
    PROVE  /\ Without(c) \in Seq(Chat)
           /\ {Without(c)[i] : i \in DOMAIN Without(c)} = Chats \ {c}
           /\ \A i, j \in DOMAIN Without(c) : Without(c)[i] = Without(c)[j] => i = j
<1> PICK k \in DOMAIN order : k = (CHOOSE j \in DOMAIN order : order[j] = c)
                              /\ order[k] = c
  BY DEF Chats
<1> DEFINE s == Without(c)
           n == Len(order)
<1>1. s = Seqs!RemoveAt(order, k)
  BY DEF Without
<1>2. s \in Seq(Chat)
  BY <1>1 DEF Seqs!RemoveAt
<1>3. DOMAIN order = 1 .. n /\ n \in Nat /\ k \in 1 .. n
  OBVIOUS
<1>4. DOMAIN s = 1 .. (n - 1)
  BY <1>1 DEF Seqs!RemoveAt
<1>5. \A j \in 1 .. (n - 1) : s[j] = IF j < k THEN order[j] ELSE order[j + 1]
  BY <1>1 DEF Seqs!RemoveAt
<1> HIDE DEF s, n
<1>6. ASSUME NEW j \in DOMAIN s PROVE s[j] \in Chats \ {c}
  <2>1. CASE j < k
    BY <2>1, <1>3, <1>4, <1>5 DEF Chats
  <2>2. CASE ~(j < k)
    <3>1. j + 1 \in DOMAIN order /\ j + 1 # k /\ s[j] = order[j + 1]
      BY <2>2, <1>3, <1>4, <1>5
    <3> QED
      BY <3>1 DEF Chats
  <2> QED
    BY <2>1, <2>2
<1>7. ASSUME NEW i \in DOMAIN order, i # k
      PROVE  \E j \in DOMAIN s : s[j] = order[i]
  <2>1. CASE i < k
    <3>1. i \in DOMAIN s /\ s[i] = order[i]
      BY <2>1, <1>3, <1>4, <1>5
    <3> QED
      BY <3>1
  <2>2. CASE i > k
    <3>1. i - 1 \in 1 .. (n - 1) /\ ~(i - 1 < k)
      BY <2>2, <1>3
    <3>2. s[i - 1] = order[i]
      BY <3>1, <1>3, <1>5
    <3> QED
      BY <3>1, <3>2, <1>4
  <2> QED
    BY <2>1, <2>2, <1>3, <1>7
<1>8. ASSUME NEW i \in DOMAIN s, NEW j \in DOMAIN s, s[i] = s[j] PROVE i = j
  <2> DEFINE at(x) == IF x < k THEN x ELSE x + 1
  <2>1. \A x \in DOMAIN s : at(x) \in DOMAIN order /\ s[x] = order[at(x)]
    BY <1>3, <1>4, <1>5
  <2>2. at(i) = at(j)
    BY <2>1, <1>8
  <2> QED
    BY <2>2, <1>3, <1>4
<1>9. {s[i] : i \in DOMAIN s} = Chats \ {c}
  BY <1>6, <1>7 DEF Chats
<1> QED
  BY <1>2, <1>8, <1>9 DEF s

LEMMA Persisted ==
    ASSUME ChatTypes', Persist
    PROVE  SavedIsCurrent'
BY ChatAssumption DEF ChatTypes, Persist, SavedIsCurrent, Nothing

LEMMA SavedKept ==
    ASSUME SavedIsCurrent, UNCHANGED <<order, active, msgs, saved>>
    PROVE  SavedIsCurrent'
BY DEF SavedIsCurrent

LEMMA ChatsKept ==
    ASSUME ChatTypes, UNCHANGED <<order, active, msgs, drawn>>
    PROVE  ChatTypes' /\ Chats' = Chats
BY DEF ChatTypes, Chats

\* A message is put after those of its chat: a question anywhere, an answer after
\* its question.
LEMMA Pushed ==
    ASSUME msgs \in [Chat -> Seq(Message)], AnswersMatch,
           NEW c \in Chat, NEW m \in Message, Push(c, m),
           m.role = "assistant" =>
              /\ msgs[c] # <<>>
              /\ msgs[c][Len(msgs[c])].role = "user"
              /\ m.text \subseteq msgs[c][Len(msgs[c])].text
              /\ m.cites \in msgs[c][Len(msgs[c])].text \cup {NoTurn}
    PROVE  /\ msgs' \in [Chat -> Seq(Message)]
           /\ AnswersMatch'
           /\ msgs'[c] # <<>>
           /\ msgs'[c][Len(msgs'[c])] = m
           /\ \A d \in Chat \ {c} : msgs'[d] = msgs[d]
           /\ Len(msgs'[c]) = Len(msgs[c]) + 1
<1> DEFINE s == msgs[c]
           n == Len(s)
<1>1. s \in Seq(Message) /\ n \in Nat
  OBVIOUS
<1>2. msgs' \in [Chat -> Seq(Message)] /\ msgs'[c] = Append(s, m)
      /\ \A d \in Chat \ {c} : msgs'[d] = msgs[d]
  BY DEF Push
<1>3. /\ DOMAIN msgs'[c] = 1 .. (n + 1) /\ Len(msgs'[c]) = n + 1
      /\ msgs'[c][n + 1] = m /\ msgs'[c] # <<>>
      /\ \A i \in 1 .. n : msgs'[c][i] = s[i]
  BY <1>1, <1>2
<1>4. ASSUME NEW d \in Chat, NEW i \in DOMAIN msgs'[d], msgs'[d][i].role = "assistant"
      PROVE  /\ i > 1
             /\ msgs'[d][i - 1].role = "user"
             /\ msgs'[d][i].text \subseteq msgs'[d][i - 1].text
             /\ msgs'[d][i].cites \in msgs'[d][i - 1].text \cup {NoTurn}
  <2>1. CASE d # c
    BY <2>1, <1>2, <1>4 DEF AnswersMatch
  <2>2. CASE d = c /\ i \in 1 .. n
    <3>1. i \in DOMAIN s /\ s[i].role = "assistant"
      BY <2>2, <1>1, <1>3, <1>4
    <3>2. /\ i > 1 /\ s[i - 1].role = "user"
          /\ s[i].text \subseteq s[i - 1].text
          /\ s[i].cites \in s[i - 1].text \cup {NoTurn}
      BY <3>1 DEF AnswersMatch
    <3>3. i - 1 \in 1 .. n
      BY <2>2, <3>2, <1>1
    <3> QED
      BY <2>2, <3>2, <3>3, <1>3
  <2>3. CASE d = c /\ i = n + 1
    <3>1. n \in 1 .. n
      BY <2>3, <1>1, <1>3, <1>4
    <3>2. i - 1 = n
      BY <2>3, <1>1
    <3> QED
      BY <2>3, <3>1, <3>2, <1>3, <1>4
  <2> QED
    BY <2>1, <2>2, <2>3, <1>3, <1>1
<1>5. AnswersMatch'
  BY <1>4 DEF AnswersMatch
<1> QED
  BY <1>2, <1>3, <1>5

-------------------------------------------------------------------------------
(* The connections.                                                        *)

LEMMA Closing ==
    ASSUME sock \in [Turn -> SockState], NEW S
    PROVE  /\ CloseSockets(S) \in [Turn -> SockState]
           /\ \A t \in Turn :
                 /\ CloseSockets(S)[t] = "none" <=> sock[t] = "none"
                 /\ CloseSockets(S)[t] = "open" <=> sock[t] = "open" /\ t \notin S
                 /\ CloseSockets(S)[t] = "connecting" <=>
                       sock[t] = "connecting" /\ t \notin S
BY DEF CloseSockets, SockState

LEMMA TurnNumbers == NoTurn \notin Turn /\ Turn \subseteq Nat
BY MaxTurnsAssumption DEF Turn, NoTurn

LEMMA FirstFrame ==
    ASSUME WireTypes, NEW t \in Turn, down[t] # <<>>
    PROVE  /\ Head(down[t]) = down[t][1] /\ 1 \in DOMAIN down[t]
           /\ Head(down[t]) \in FrameType
           /\ Tail(down[t]) \in Seq(FrameType)
           /\ \A i \in DOMAIN Tail(down[t]) :
                 i + 1 \in DOMAIN down[t] /\ Tail(down[t])[i] = down[t][i + 1]
<1>1. down[t] \in Seq(FrameType)
  BY DEF WireTypes
<1> QED
  BY <1>1

\* Only the connection that is held says anything but the end.
LEMMA Speaking ==
    ASSUME Inv, NEW t \in Turn, sock[t] = "open", down[t] # <<>>,
           NextFrame(t) # "end"
    PROVE  t \notin settled /\ t = activeConn /\ streaming.status = "streaming" /\ Owned(t)
<1>1. t \notin settled
  BY FirstFrame DEF Inv, Orderly, NextFrame
<1>2. t = activeConn
  BY <1>1 DEF Inv, OneConnection, Connected
<1> QED
  BY <1>1, <1>2, TurnNumbers DEF Inv, Source, Owned

\* What a task of the page does to a connection keeps what the server sent in order.
LEMMA StillOrderly ==
    ASSUME Inv, UNCHANGED handler,
           \A t \in Turn :
              \/ down'[t] = down[t]
              \/ down[t] # <<>> /\ down'[t] = Tail(down[t]),
           \A t \in Turn : t \in settled' =>
              /\ sock'[t] \notin {"none", "connecting"}
              /\ sock'[t] = "open" =>
                    \/ t \in settled /\ sock[t] = "open"
                    \/ /\ down[t] # <<>> /\ down'[t] = Tail(down[t])
                       /\ NextFrame(t) \in Final
    PROVE  Orderly'
<1> SUFFICES ASSUME NEW t \in Turn
             PROVE  /\ \A i, j \in DOMAIN down'[t] :
                          i < j /\ down'[t][i].event \in Final => down'[t][j].event = "end"
                    /\ \A i \in DOMAIN down'[t] :
                          down'[t][i].event \in Final => handler[t] \in {"refused", "ended"}
                    /\ t \in settled' => sock'[t] \notin {"none", "connecting"}
                    /\ t \in settled' /\ sock'[t] = "open" =>
                          /\ handler[t] \in {"refused", "ended"}
                          /\ \A i \in DOMAIN down'[t] : down'[t][i].event = "end"
  BY DEF Orderly
<1> WireTypes /\ Orderly
  BY DEF Inv
<1>1. down[t] \in Seq(FrameType)
  BY DEF WireTypes
<1>2. CASE down'[t] = down[t]
  <2>1. t \in settled' /\ sock'[t] = "open" =>
          /\ handler[t] \in {"refused", "ended"}
          /\ \A i \in DOMAIN down[t] : down[t][i].event = "end"
    <3>1. down[t] # <<>> => Len(Tail(down[t])) = Len(down[t]) - 1 /\ Len(down[t]) \in Nat
      BY <1>1
    <3>2. ASSUME down[t] # <<>>, down'[t] = Tail(down[t]) PROVE FALSE
      <4>1. Tail(down[t]) = down[t]
        BY <3>2, <1>2
      <4>2. Len(down[t]) = Len(down[t]) - 1
        BY <4>1, <3>1, <3>2
      <4> QED
        BY <4>2, <3>1, <3>2
    <3> QED
      BY <3>2, <1>2 DEF Orderly
  <2> QED
    BY <1>2, <2>1 DEF Orderly
<1>3. CASE down[t] # <<>> /\ down'[t] = Tail(down[t])
  <2>1. /\ 1 \in DOMAIN down[t] /\ NextFrame(t) = down[t][1].event
        /\ \A i \in DOMAIN down'[t] :
              i \in Nat \ {0} /\ i + 1 \in DOMAIN down[t] /\ down'[t][i] = down[t][i + 1]
    BY <1>1, <1>3 DEF NextFrame
  <2>2. \A i, j \in DOMAIN down'[t] :
          i < j /\ down'[t][i].event \in Final => down'[t][j].event = "end"
    <3> SUFFICES ASSUME NEW i \in DOMAIN down'[t], NEW j \in DOMAIN down'[t],
                        i < j, down'[t][i].event \in Final
                 PROVE  down'[t][j].event = "end"
      OBVIOUS
    <3>1. i + 1 < j + 1
      BY <2>1
    <3> QED
      BY <3>1, <2>1 DEF Orderly
  <2>3. \A i \in DOMAIN down'[t] :
          down'[t][i].event \in Final => handler[t] \in {"refused", "ended"}
    BY <2>1 DEF Orderly
  <2>4. ASSUME t \in settled', sock'[t] = "open"
        PROVE  /\ handler[t] \in {"refused", "ended"}
               /\ \A i \in DOMAIN down'[t] : down'[t][i].event = "end"
    <3>1. CASE t \in settled /\ sock[t] = "open"
      BY <3>1, <2>1 DEF Orderly
    <3>2. CASE NextFrame(t) \in Final
      <4>1. \A i \in DOMAIN down'[t] : 1 < i + 1
        BY <2>1
      <4> QED
        BY <3>2, <2>1, <4>1 DEF Orderly
    <3> QED
      BY <2>4, <3>1, <3>2
  <2> QED
    BY <2>2, <2>3, <2>4
<1> QED
  BY <1>2, <1>3

-------------------------------------------------------------------------------
(* The server.                                                             *)

\* What is sent at once: in order, and final only as the handler ends.
Closes(frames, h) ==
    /\ \A i, j \in DOMAIN frames :
          i < j /\ frames[i].event \in Final => frames[j].event = "end"
    /\ \A i \in DOMAIN frames : frames[i].event \in Final => h \in {"refused", "ended"}

LEMMA Sends ==
    ASSUME Inv, NEW t \in Turn, NEW frames \in Seq(FrameType), NEW h \in HandlerState,
           handler[t] \notin {"refused", "ended"},
           Closes(frames, h),
           down' = [down EXCEPT ![t] = @ \o frames],
           Goto(t, h),
           UNCHANGED <<sock, up, settled>>
    PROVE  /\ UNCHANGED <<sock, up>>
           /\ down' \in [Turn -> Seq(FrameType)]
           /\ handler' \in [Turn -> HandlerState]
           /\ Orderly'
<1> DEFINE n == Len(down[t])
           m == Len(frames)
<1> WireTypes /\ Orderly
  BY DEF Inv
<1>1. down' \in [Turn -> Seq(FrameType)] /\ handler' \in [Turn -> HandlerState]
      /\ down'[t] = down[t] \o frames /\ handler'[t] = h
      /\ \A u \in Turn \ {t} : down'[u] = down[u] /\ handler'[u] = handler[u]
  BY DEF WireTypes, Goto
<1>2. down[t] \in Seq(FrameType) /\ n \in Nat /\ m \in Nat
  BY DEF WireTypes
<1>3. /\ DOMAIN down'[t] = 1 .. (n + m)
      /\ \A i \in 1 .. n : i \in DOMAIN down[t] /\ down'[t][i] = down[t][i]
      /\ \A i \in 1 .. (n + m) : i > n => i - n \in DOMAIN frames /\ down'[t][i] = frames[i - n]
  BY <1>1, <1>2
<1>4. \A i \in 1 .. n : down[t][i].event \notin Final
  BY <1>3 DEF Orderly
<1>5. t \in settled => sock[t] # "open" /\ sock[t] \notin {"none", "connecting"}
  BY DEF Orderly
<1>6. ASSUME NEW i \in DOMAIN down'[t], down'[t][i].event \in Final
      PROVE  h \in {"refused", "ended"} /\ i > n
  BY <1>2, <1>3, <1>4, <1>6 DEF Closes
<1>7. ASSUME NEW i \in DOMAIN down'[t], NEW j \in DOMAIN down'[t],
             i < j, down'[t][i].event \in Final
      PROVE  down'[t][j].event = "end"
  <2>1. i > n /\ j > n /\ i - n < j - n
    BY <1>2, <1>3, <1>6, <1>7
  <2> QED
    BY <2>1, <1>3, <1>7 DEF Closes
<1>8. ASSUME NEW u \in Turn
      PROVE  /\ \A i, j \in DOMAIN down'[u] :
                   i < j /\ down'[u][i].event \in Final => down'[u][j].event = "end"
             /\ \A i \in DOMAIN down'[u] :
                   down'[u][i].event \in Final => handler'[u] \in {"refused", "ended"}
             /\ u \in settled' => sock'[u] \notin {"none", "connecting"}
             /\ u \in settled' /\ sock'[u] = "open" =>
                   /\ handler'[u] \in {"refused", "ended"}
                   /\ \A i \in DOMAIN down'[u] : down'[u][i].event = "end"
  <2>1. CASE u = t
    BY <2>1, <1>1, <1>5, <1>6, <1>7
  <2>2. CASE u # t
    BY <2>2, <1>1 DEF Orderly
  <2> QED
    BY <2>1, <2>2
<1>9. Orderly'
  BY <1>8 DEF Orderly
<1> QED
  BY <1>1, <1>9

LEMMA Frames ==
    ASSUME NEW size \in Nat, NEW h
    PROVE  /\ <<>> \in Seq(FrameType) /\ Closes(<<>>, h)
           /\ <<Frame("open", 0)>> \in Seq(FrameType) /\ Closes(<<Frame("open", 0)>>, h)
           /\ <<Frame("token", size)>> \in Seq(FrameType)
           /\ Closes(<<Frame("token", size)>>, h)
           /\ <<Frame("citation", 0)>> \in Seq(FrameType)
           /\ Closes(<<Frame("citation", 0)>>, h)
BY DEF Frame, FrameType, Closes, Final

LEMMA FinalFrames ==
    ASSUME NEW event \in {"error", "done"}, NEW h \in {"refused", "ended"}
    PROVE  /\ <<Frame(event, 0), Frame("end", 0)>> \in Seq(FrameType)
           /\ Closes(<<Frame(event, 0), Frame("end", 0)>>, h)
BY DEF Frame, FrameType, Closes, Final

LEMMA HandleStep ==
    ASSUME Inv, NEW t \in Turn, Handle(t), UNCHANGED settled
    PROVE  /\ UNCHANGED <<sock, up>>
           /\ down' \in [Turn -> Seq(FrameType)]
           /\ handler' \in [Turn -> HandlerState]
           /\ Orderly'
<1> DEFINE Sent == /\ UNCHANGED <<sock, up>>
                   /\ down' \in [Turn -> Seq(FrameType)]
                   /\ handler' \in [Turn -> HandlerState]
                   /\ Orderly'
<1>0. down[t] \in Seq(FrameType) /\ down \in [Turn -> Seq(FrameType)]
  BY DEF Inv, WireTypes
<1>a. ASSUME NEW frames \in Seq(FrameType), NEW h \in HandlerState, Closes(frames, h),
             handler[t] \notin {"refused", "ended"},
             handler' = [handler EXCEPT ![t] = h],
             down' = [down EXCEPT ![t] = @ \o frames], UNCHANGED <<sock, up>>
      PROVE  Sent
  BY <1>a, Sends DEF Goto
<1>b. ASSUME NEW h \in HandlerState, handler[t] \notin {"refused", "ended"},
             handler' = [handler EXCEPT ![t] = h], UNCHANGED <<sock, up, down>>
      PROVE  Sent
  <2>1. down[t] \o <<>> = down[t]
    BY <1>0
  <2>2. down' = [down EXCEPT ![t] = @ \o <<>>]
    BY <1>0, <2>1, <1>b
  <2>3. <<>> \in Seq(FrameType) /\ Closes(<<>>, h)
    BY Frames
  <2> QED
    BY <2>2, <2>3, <1>b, Sends DEF Goto
<1> SUFFICES Sent
  OBVIOUS
<1> HIDE DEF Sent
<1>1. CASE Accept(t)
  <2>1. <<Frame("open", 0)>> \in Seq(FrameType) /\ Closes(<<Frame("open", 0)>>, "receive")
    BY Frames
  <2>2. "receive" \in HandlerState /\ handler[t] \notin {"refused", "ended"}
    BY <1>1 DEF Accept, HandlerState
  <2> QED
    BY <1>1, <2>1, <2>2, <1>a DEF Accept, Transmit, Goto
<1>2. CASE Refuse(t)
  <2>1. /\ <<Frame("error", 0), Frame("end", 0)>> \in Seq(FrameType)
        /\ Closes(<<Frame("error", 0), Frame("end", 0)>>, "refused")
    BY FinalFrames
  <2>2. "refused" \in HandlerState /\ handler[t] \notin {"refused", "ended"}
    BY <1>2 DEF Refuse, HandlerState
  <2> QED
    BY <1>2, <2>1, <2>2, <1>a DEF Refuse, Transmit, Goto
<1>3. CASE StartAgent(t)
  <2>1. "agent" \in HandlerState /\ handler[t] \notin {"refused", "ended"}
    BY <1>3 DEF StartAgent, HandlerState
  <2> QED
    BY <1>3, <2>1, <1>b DEF StartAgent, wireVars, Goto
<1>4. CASE Answer(t)
  <2>1. PICK size \in ReplySize :
          Transmit(t, IF size > 0 THEN <<Frame("token", size)>> ELSE <<>>)
    BY <1>4 DEF Answer
  <2>2. /\ <<Frame("token", size)>> \in Seq(FrameType)
        /\ Closes(<<Frame("token", size)>>, "cite")
        /\ <<>> \in Seq(FrameType) /\ Closes(<<>>, "cite")
    BY SizesAssumption, Frames
  <2>3. "cite" \in HandlerState /\ handler[t] \notin {"refused", "ended"}
    BY <1>4 DEF Answer, HandlerState
  <2>4. CASE size > 0
    BY <1>4, <2>1, <2>2, <2>3, <2>4, <1>a DEF Answer, Transmit, Goto
  <2>5. CASE ~(size > 0)
    BY <1>4, <2>1, <2>2, <2>3, <2>5, <1>a DEF Answer, Transmit, Goto
  <2> QED
    BY <2>4, <2>5
<1>5. CASE Cite(t)
  <2>1. PICK frames \in {<<>>, <<Frame("citation", 0)>>} : Transmit(t, frames)
    BY <1>5 DEF Cite
  <2>2. frames \in Seq(FrameType) /\ Closes(frames, "done")
    BY Frames
  <2>3. "done" \in HandlerState /\ handler[t] \notin {"refused", "ended"}
    BY <1>5 DEF Cite, HandlerState
  <2> QED
    BY <1>5, <2>1, <2>2, <2>3, <1>a DEF Cite, Transmit, Goto
<1>6. CASE Finish(t)
  <2>1. /\ <<Frame("done", 0), Frame("end", 0)>> \in Seq(FrameType)
        /\ Closes(<<Frame("done", 0), Frame("end", 0)>>, "ended")
    BY FinalFrames
  <2>2. "ended" \in HandlerState /\ handler[t] \notin {"refused", "ended"}
    BY <1>6 DEF Finish, HandlerState
  <2> QED
    BY <1>6, <2>1, <2>2, <1>a DEF Finish, Transmit, Goto
<1>7. CASE AgentError(t)
  <2>1. /\ <<Frame("error", 0), Frame("end", 0)>> \in Seq(FrameType)
        /\ Closes(<<Frame("error", 0), Frame("end", 0)>>, "ended")
    BY FinalFrames
  <2>2. "ended" \in HandlerState /\ handler[t] \notin {"refused", "ended"}
    BY <1>7 DEF AgentError, HandlerState
  <2> QED
    BY <1>7, <2>1, <2>2, <1>a DEF AgentError, Transmit, Goto
<1>8. CASE Disconnected(t)
  <2>1. "ended" \in HandlerState /\ handler[t] \notin {"refused", "ended"}
    BY <1>8 DEF Disconnected, Running, HandlerState
  <2> QED
    BY <1>8, <2>1, <1>b DEF Disconnected, wireVars, Goto
<1> QED
  BY <1>1, <1>2, <1>3, <1>4, <1>5, <1>6, <1>7, <1>8 DEF Handle

LEMMA ShutdownStep ==
    ASSUME Inv, Shutdown, UNCHANGED settled
    PROVE  /\ UNCHANGED <<sock, up>>
           /\ down' \in [Turn -> Seq(FrameType)]
           /\ handler' \in [Turn -> HandlerState]
           /\ Orderly'
<1> WireTypes /\ Orderly
  BY DEF Inv
<1>1. handler' \in [Turn -> HandlerState] /\ UNCHANGED <<sock, up>>
  BY DEF Shutdown, WireTypes, HandlerState
<1>2. ASSUME NEW t \in Turn
      PROVE  \/ down'[t] = down[t]
             \/ /\ Running(t) /\ down'[t] = down[t] \o <<Frame("end", 0)>>
                /\ handler'[t] = "ended"
             \/ /\ down'[t] = <<Frame("refused", 0)>>
                /\ sock[t] = "connecting" /\ handler'[t] = "ended"
  BY DEF Shutdown
<1>3. ASSUME NEW t \in Turn
      PROVE  handler'[t] = handler[t] \/ handler'[t] = "ended"
  BY DEF Shutdown
<1>4. down' \in [Turn -> Seq(FrameType)]
  <2>1. down' = [t \in Turn |-> down'[t]]
    BY DEF Shutdown
  <2>2. ASSUME NEW t \in Turn PROVE down'[t] \in Seq(FrameType)
    <3>1. /\ down[t] \in Seq(FrameType)
          /\ <<Frame("end", 0)>> \in Seq(FrameType)
          /\ <<Frame("refused", 0)>> \in Seq(FrameType)
      BY DEF WireTypes, Frame, FrameType
    <3>2. CASE down'[t] = down[t] \o <<Frame("end", 0)>>
      BY <3>1, <3>2
    <3> QED
      BY <3>1, <3>2, <1>2
  <2> QED
    BY <2>1, <2>2
<1>5. ASSUME NEW t \in Turn
      PROVE  /\ \A i, j \in DOMAIN down'[t] :
                   i < j /\ down'[t][i].event \in Final => down'[t][j].event = "end"
             /\ \A i \in DOMAIN down'[t] :
                   down'[t][i].event \in Final => handler'[t] \in {"refused", "ended"}
             /\ t \in settled /\ sock[t] = "open" =>
                   /\ handler'[t] \in {"refused", "ended"}
                   /\ \A i \in DOMAIN down'[t] : down'[t][i].event = "end"
  <2>1. CASE down'[t] = down[t]
    BY <2>1, <1>3 DEF Orderly
  <2>2. CASE /\ Running(t) /\ down'[t] = down[t] \o <<Frame("end", 0)>>
             /\ handler'[t] = "ended"
    <3> DEFINE n == Len(down[t])
    <3>1. down[t] \in Seq(FrameType) /\ n \in Nat
      BY DEF WireTypes
    <3>2. /\ DOMAIN down'[t] = 1 .. (n + 1)
          /\ \A i \in 1 .. n : i \in DOMAIN down[t] /\ down'[t][i] = down[t][i]
          /\ down'[t][n + 1].event = "end"
      BY <2>2, <3>1 DEF Frame
    <3>3. \A i \in 1 .. n : down[t][i].event \notin Final
      BY <2>2, <3>2 DEF Orderly, Running
    <3>4. ~(t \in settled /\ sock[t] = "open")
      BY <2>2 DEF Orderly, Running
    <3>5. \A i, j \in DOMAIN down'[t] :
            i < j /\ down'[t][i].event \in Final => down'[t][j].event = "end"
      BY <3>1, <3>2, <3>3
    <3> QED
      BY <2>2, <3>4, <3>5
  <2>3. CASE /\ down'[t] = <<Frame("refused", 0)>>
             /\ sock[t] = "connecting" /\ handler'[t] = "ended"
    BY <2>3 DEF Frame
  <2> QED
    BY <1>2, <2>1, <2>2, <2>3
<1>6. Orderly'
  BY <1>1, <1>5 DEF Orderly
<1> QED
  BY <1>1, <1>4, <1>6

LEMMA ServerStep == Inv /\ Server => Inv'
<1> SUFFICES ASSUME Inv, Server PROVE Inv'
  OBVIOUS
<1>1. UNCHANGED clientVars
  BY DEF Server
<1>2. /\ UNCHANGED <<sock, up>>
      /\ down' \in [Turn -> Seq(FrameType)]
      /\ handler' \in [Turn -> HandlerState]
      /\ Orderly'
  BY <1>1, HandleStep, ShutdownStep DEF Server, clientVars
<1>3. WireTypes'
  BY <1>2 DEF Inv, WireTypes
<1>4. ChatTypes' /\ Chats' = Chats /\ SavedIsCurrent'
  BY <1>1, ChatsKept, SavedKept DEF Inv, clientVars
<1>5. ConnTypes' /\ OneConnection'
  BY <1>1, <1>2 DEF Inv, ConnTypes, OneConnection, Connected, clientVars
<1>6. Source' /\ Pending' /\ AnswersMatch'
  BY <1>1, <1>2, <1>4 DEF Inv, Source, Pending, AnswersMatch, Sending, clientVars
<1> QED
  BY <1>2, <1>3, <1>4, <1>5, <1>6 DEF Inv

-------------------------------------------------------------------------------
(* The page: what several tasks have in common.                            *)

LEMMA NextIsFresh ==
    ASSUME Fresh # {}
    PROVE  NextTurn \in Turn /\ sock[NextTurn] = "none"
BY DEF Fresh, NextTurn

Connections ==
    WireTypes /\ ConnTypes /\ Orderly /\ Source /\ OneConnection /\ Pending

\* A task that leaves the connections and what streams alone.
LEMMA Aside ==
    ASSUME Inv, UNCHANGED <<wireVars, handler, streamVars, connVars>>,
           Sending => /\ streaming.chat \in Chats'
                      /\ msgs'[streaming.chat] = msgs[streaming.chat]
    PROVE  Connections'
<1>1. UNCHANGED <<sock, up, down, handler, streaming, activeConn, failTimers,
                  target, settled, timer>>
  BY DEF wireVars, streamVars, connVars
<1>2. WireTypes' /\ ConnTypes' /\ Orderly' /\ OneConnection'
  BY <1>1 DEF Inv, WireTypes, ConnTypes, Orderly, OneConnection, Connected
<1>3. Source' /\ Pending'
  BY <1>1 DEF Inv, Source, Pending, Sending
<1> QED
  BY <1>2, <1>3 DEF Connections

\* stop() and its callers: the connection that is held is closed.
LEMMA Stopped ==
    ASSUME Inv, UNCHANGED handler, StopStream
    PROVE  Connections'
<1> WireTypes /\ ConnTypes /\ Orderly /\ Source /\ OneConnection
  BY DEF Inv
<1>1. /\ settled' = settled \cup Live /\ timer' = timer \ Live
      /\ sock' = CloseSockets(Live)
      /\ activeConn' = NoTurn /\ streaming' = NoStream
      /\ UNCHANGED <<failTimers, target, up, down>>
  BY DEF StopStream, Abort
<1>2. Live \subseteq Turn /\ \A t \in Live : t = activeConn /\ sock[t] # "none"
  BY DEF Live, ConnTypes, Source
<1>3. /\ sock' \in [Turn -> SockState]
      /\ \A t \in Turn :
            /\ sock'[t] = "none" <=> sock[t] = "none"
            /\ sock'[t] = "open" <=> sock[t] = "open" /\ t \notin Live
            /\ sock'[t] = "connecting" <=> sock[t] = "connecting" /\ t \notin Live
  BY <1>1, Closing DEF WireTypes
<1>4. WireTypes'
  BY <1>1, <1>3 DEF WireTypes
<1>5. ConnTypes'
  BY <1>1, <1>2, <1>3 DEF ConnTypes, NoStream, StreamType
<1>6. Orderly'
  <2>1. ASSUME NEW t \in Turn, t \in settled'
        PROVE  /\ sock'[t] \notin {"none", "connecting"}
               /\ sock'[t] = "open" => t \in settled /\ sock[t] = "open"
    BY <2>1, <1>1, <1>2, <1>3 DEF Orderly
  <2> QED
    BY <2>1, <1>1, StillOrderly
<1>7. Source' /\ Pending'
  BY <1>1 DEF Source, Pending, Sending, NoStream
<1>8. OneConnection'
  BY <1>1, <1>3 DEF OneConnection, Connected, Live
<1> QED
  BY <1>4, <1>5, <1>6, <1>7, <1>8 DEF Connections

\* _failStreaming(): the connection that is held is closed, and S with it.
LEMMA Failed ==
    ASSUME Inv, NEW S \in SUBSET Turn, FailStream(S),
           UNCHANGED <<handler, up, target, chatVars>>,
           sock' \in [Turn -> SockState],
           down' \in [Turn -> Seq(FrameType)],
           \A t \in S : sock[t] # "none",
           \A t \in Turn :
              /\ sock'[t] = "none" <=> sock[t] = "none"
              /\ sock'[t] \in {"open", "connecting"} =>
                    sock'[t] = sock[t] /\ t \notin Live \cup S,
           \A t \in Turn :
              \/ down'[t] = down[t]
              \/ down[t] # <<>> /\ down'[t] = Tail(down[t])
    PROVE  Connections'
<1> WireTypes /\ ConnTypes /\ Orderly /\ Source /\ OneConnection
  BY DEF Inv
<1>1. /\ streaming' = [streaming EXCEPT !.status = IF Sending THEN "error" ELSE @]
      /\ settled' = settled \cup Live \cup S
      /\ timer' = timer \ (Live \cup S)
      /\ activeConn' = NoTurn
      /\ failTimers' = failTimers + 1
  BY DEF FailStream
<1>2. UNCHANGED <<order, active, msgs, saved, drawn>> /\ Chats' = Chats
  BY DEF chatVars, Chats
<1>3. Live \subseteq Turn /\ \A t \in Live : sock[t] # "none"
  BY DEF Live, ConnTypes, Source
<1>4. WireTypes'
  BY DEF WireTypes
<1>5. streaming' \in StreamType /\ (Sending' => Sending /\ streaming'.status = "error")
      /\ streaming'.chat = streaming.chat /\ streaming'.text = streaming.text
      /\ streaming'.cites = streaming.cites
  BY <1>1 DEF ConnTypes, StreamType, Sending
<1>6. ConnTypes'
  <2>1. settled' \subseteq Turn
    BY <1>1, <1>3 DEF ConnTypes
  <2>2. timer' \subseteq {t \in Turn : sock'[t] # "none"}
    BY <1>1 DEF ConnTypes
  <2>3. failTimers' \in Nat /\ activeConn' = NoTurn
    BY <1>1 DEF ConnTypes
  <2>4. UNCHANGED target
    OBVIOUS
  <2> QED
    BY <1>5, <2>1, <2>2, <2>3, <2>4 DEF ConnTypes
<1>7. Orderly'
  <2>1. ASSUME NEW t \in Turn, t \in settled'
        PROVE  /\ sock'[t] \notin {"none", "connecting"}
               /\ sock'[t] = "open" => t \in settled /\ sock[t] = "open"
    BY <2>1, <1>1, <1>3 DEF Orderly
  <2> QED
    BY <2>1, StillOrderly
<1>8. Source'
  BY <1>1, <1>2, <1>5 DEF Source, Sending, ConnTypes
<1>9. Pending'
  BY <1>2, <1>5 DEF Inv, Pending
<1>10. OneConnection'
  <2>1. ASSUME NEW t \in Turn, Connected(t)', t \notin settled' PROVE FALSE
    <3>1. Connected(t) /\ t \notin settled /\ t \notin Live
      BY <2>1, <1>1 DEF Connected
    <3>2. t = activeConn
      BY <3>1 DEF OneConnection
    <3> QED
      BY <3>1, <3>2, TurnNumbers DEF Live
  <2> QED
    BY <2>1 DEF OneConnection
<1> QED
  BY <1>4, <1>6, <1>7, <1>8, <1>9, <1>10 DEF Connections

LEMMA Untouched ==
    ASSUME Inv, UNCHANGED chatVars
    PROVE  ChatTypes' /\ Chats' = Chats /\ SavedIsCurrent' /\ AnswersMatch'
<1>1. UNCHANGED <<order, active, msgs, saved, drawn>>
  BY DEF chatVars
<1>2. AnswersMatch'
  BY <1>1 DEF Inv, AnswersMatch
<1> QED
  BY <1>1, <1>2, ChatsKept, SavedKept DEF Inv

-------------------------------------------------------------------------------
(* The clicks.                                                             *)

LEMMA ActiveChat == ChatTypes => active \in Chat /\ Chats \subseteq Chat
BY DEF ChatTypes

LEMMA SendStep ==
    ASSUME Inv, UNCHANGED handler, NEW size \in TextSize, Send(size)
    PROVE  Inv'
<1> DEFINE t == NextTurn
           cancelled == IF Sending THEN Live ELSE {}
<1> WireTypes /\ ChatTypes /\ ConnTypes /\ Orderly /\ Source /\ OneConnection /\ AnswersMatch
  BY DEF Inv
<1>1. t \in Turn /\ sock[t] = "none"
  BY NextIsFresh DEF Send
<1>2. /\ Push(active, Question(t, size)) /\ UNCHANGED <<order, active, drawn, down>>
      /\ Persist
      /\ streaming' = [NoStream EXCEPT !.status = "streaming", !.chat = active]
      /\ activeConn' = t
      /\ failTimers' = IF Sending THEN failTimers + 1 ELSE failTimers
      /\ target' = [target EXCEPT ![t] = active]
      /\ sock' = [CloseSockets(cancelled) EXCEPT ![t] = "connecting"]
      /\ settled' = settled \cup cancelled
      /\ timer' = (timer \ cancelled) \cup {t}
  BY DEF Send
<1>3. up' = [up EXCEPT ![t] = [i \in DOMAIN msgs'[active] |->
                [role |-> msgs'[active][i].role, size |-> msgs'[active][i].size]]]
  BY DEF Send
<1> HIDE DEF t, cancelled
<1>4. Question(t, size) \in Message /\ Question(t, size).role = "user"
      /\ Question(t, size).text = {t}
  BY <1>1, ChatAssumption DEF Question, Message
<1>5. /\ msgs' \in [Chat -> Seq(Message)]
      /\ AnswersMatch'
      /\ msgs'[active] # <<>>
      /\ msgs'[active][Len(msgs'[active])] = Question(t, size)
  <2>1. active \in Chat /\ msgs \in [Chat -> Seq(Message)]
    BY ActiveChat DEF ChatTypes
  <2> QED
    BY <2>1, <1>2, <1>4, Pushed
<1>6. Chats' = Chats /\ ChatTypes'
  BY <1>2, <1>5 DEF ChatTypes, Chats
<1>7. SavedIsCurrent'
  BY <1>2, <1>6, Persisted
<1>8. \A u \in cancelled : u = activeConn /\ u \in Turn /\ u # t /\ sock[u] # "none"
  BY <1>1 DEF cancelled, Live, ConnTypes, Source
<1>9. /\ sock' \in [Turn -> SockState]
      /\ sock'[t] = "connecting"
      /\ \A u \in Turn \ {t} :
            /\ sock'[u] = "none" <=> sock[u] = "none"
            /\ sock'[u] = "open" <=> sock[u] = "open" /\ u \notin cancelled
            /\ sock'[u] = "connecting" <=> sock[u] = "connecting" /\ u \notin cancelled
  <2>1. CloseSockets(cancelled) \in [Turn -> SockState] /\ "connecting" \in SockState
    BY Closing DEF WireTypes, SockState
  <2>2. sock' \in [Turn -> SockState] /\ sock'[t] = "connecting"
        /\ \A u \in Turn \ {t} : sock'[u] = CloseSockets(cancelled)[u]
    BY <2>1, <1>1, <1>2
  <2> QED
    BY <2>2, Closing DEF WireTypes
<1>10. WireTypes'
  <2>1. up' = [u \in Turn |-> up'[u]]
    BY <1>3 DEF WireTypes
  <2>2. ASSUME NEW i \in DOMAIN msgs'[active]
        PROVE  [role |-> msgs'[active][i].role, size |-> msgs'[active][i].size] \in ItemType
    <3>1. msgs'[active] \in Seq(Message)
      BY <1>5, ActiveChat
    <3>2. msgs'[active][i] \in Message
      BY <3>1
    <3> QED
      BY <3>2 DEF Message, ItemType
  <2>3. \A u \in Turn : \A i \in DOMAIN up'[u] : up'[u][i] \in ItemType
    <3> SUFFICES ASSUME NEW u \in Turn, NEW i \in DOMAIN up'[u]
                 PROVE  up'[u][i] \in ItemType
      OBVIOUS
    <3>1. CASE u = t
      <4>1. up'[u] = [j \in DOMAIN msgs'[active] |->
                [role |-> msgs'[active][j].role, size |-> msgs'[active][j].size]]
        BY <3>1, <1>1, <1>3 DEF WireTypes
      <4> QED
        BY <4>1, <2>2
    <3>2. CASE u # t
      BY <3>2, <1>3 DEF WireTypes
    <3> QED
      BY <3>1, <3>2
  <2> QED
    BY <2>1, <2>3, <1>2, <1>9 DEF WireTypes
<1>11. ConnTypes'
  <2>1. active \in Chat
    BY ActiveChat
  <2>2. streaming' \in StreamType
    BY <1>2, <2>1 DEF NoStream, StreamType
  <2>3. target' \in [Turn -> Chat \cup {NoChat}]
    BY <1>2, <2>1 DEF ConnTypes
  <2>5. failTimers' \in Nat
    BY <1>2 DEF ConnTypes
  <2>4. settled' \subseteq Turn /\ activeConn' \in Turn
    BY <1>1, <1>2, <1>8 DEF ConnTypes
  <2>6. timer' \subseteq {u \in Turn : sock'[u] # "none"}
    BY <1>1, <1>2, <1>9 DEF ConnTypes
  <2> QED
    BY <2>2, <2>3, <2>4, <2>5, <2>6 DEF ConnTypes
<1>12. t \notin settled'
  BY <1>1, <1>2, <1>8 DEF Orderly
<1>13. Orderly'
  <2>1. ASSUME NEW u \in Turn, u \in settled'
        PROVE  /\ sock'[u] \notin {"none", "connecting"}
               /\ sock'[u] = "open" => u \in settled /\ sock[u] = "open"
    BY <2>1, <1>2, <1>8, <1>9, <1>12 DEF Orderly
  <2> QED
    BY <2>1, <1>2, StillOrderly
<1>14. streaming'.status = "streaming" /\ streaming'.chat = active
       /\ streaming'.text = {} /\ streaming'.cites = NoTurn
  BY <1>2 DEF NoStream
<1>15. Source'
  BY <1>1, <1>2, <1>6, <1>9, <1>12, <1>14, TurnNumbers DEF Source, ConnTypes, ChatTypes
<1>16. OneConnection'
  <2>1. ASSUME NEW u \in Turn, u # t, Connected(u)', u \notin settled' PROVE FALSE
    <3>1. Connected(u) /\ u \notin cancelled /\ u \notin settled
      BY <2>1, <1>2, <1>9 DEF Connected
    <3>2. u = activeConn /\ Sending
      BY <3>1, TurnNumbers DEF OneConnection, Source, Sending
    <3> QED
      BY <3>1, <3>2, TurnNumbers DEF cancelled, Live
  <2> QED
    BY <2>1, <1>2 DEF OneConnection
<1>17. Pending'
  BY <1>2, <1>4, <1>5, <1>14 DEF Pending
<1> QED
  BY <1>5, <1>6, <1>7, <1>10, <1>11, <1>13, <1>15, <1>16, <1>17 DEF Inv

LEMMA StopStep ==
    ASSUME Inv, UNCHANGED handler, Stop
    PROVE  Inv'
<1> ChatTypes /\ ConnTypes /\ Source /\ AnswersMatch /\ SavedIsCurrent
  BY DEF Inv
<1>1. Connections'
  BY Stopped DEF Stop
<1>2. CASE streaming.chat \in Chats /\ streaming.size > 0
  <2> DEFINE c == streaming.chat
  <2>1. c \in Chat /\ msgs \in [Chat -> Seq(Message)]
    BY <1>2, ActiveChat DEF ChatTypes
  <2>2. Push(c, AnswerOf(streaming)) /\ UNCHANGED <<order, active, drawn>>
    BY <1>2 DEF Stop, StoppedMsgs, Push
  <2>3. /\ AnswerOf(streaming) \in Message
        /\ AnswerOf(streaming).text = streaming.text
        /\ AnswerOf(streaming).cites = streaming.cites
    BY DEF AnswerOf, Message, ConnTypes, StreamType
  <2>4. /\ msgs[c] # <<>>
        /\ msgs[c][Len(msgs[c])].role = "user"
        /\ streaming.text \subseteq msgs[c][Len(msgs[c])].text
        /\ streaming.cites \in msgs[c][Len(msgs[c])].text \cup {NoTurn}
    BY DEF Stop, Inv, Pending
  <2>5. /\ msgs' \in [Chat -> Seq(Message)] /\ AnswersMatch'
        /\ Len(msgs'[c]) = Len(msgs[c]) + 1 /\ msgs[c] \in Seq(Message)
    BY <2>1, <2>2, <2>3, <2>4, Pushed
  <2>6. ChatTypes'
    BY <2>2, <2>5 DEF ChatTypes, Chats
  <2>7. msgs' # msgs
    BY <2>5
  <2>8. SavedIsCurrent'
    BY <2>6, <2>7, Persisted DEF Stop
  <2> QED
    BY <1>1, <2>5, <2>6, <2>8 DEF Inv, Connections
<1>3. CASE ~(streaming.chat \in Chats /\ streaming.size > 0)
  <2>1. UNCHANGED chatVars
    BY <1>3 DEF Stop, StoppedMsgs, chatVars
  <2> QED
    BY <1>1, <2>1, Untouched DEF Inv, Connections
<1> QED
  BY <1>2, <1>3

LEMMA CreateStep ==
    ASSUME Inv, UNCHANGED handler, Create
    PROVE  Inv'
<1> ChatTypes /\ Source
  BY DEF Inv
<1>1. PICK c \in Chat \ drawn : /\ order' = Append(order, c)
                                /\ active' = c
                                /\ drawn' = drawn \cup {c}
  BY DEF Create
<1>2. UNCHANGED msgs /\ Persist /\ UNCHANGED <<streamVars, connVars, wireVars>>
  BY DEF Create
<1> DEFINE n == Len(order)
<1>3. order \in Seq(Chat) /\ n \in Nat /\ DOMAIN order = 1 .. n
  BY DEF ChatTypes
<1>4. /\ order' \in Seq(Chat) /\ DOMAIN order' = 1 .. (n + 1)
      /\ order'[n + 1] = c
      /\ \A i \in 1 .. n : order'[i] = order[i]
  BY <1>1, <1>3
<1>5. \A i \in 1 .. n : order[i] # c
  BY <1>1, <1>3 DEF ChatTypes, Chats
<1>6. Chats' = Chats \cup {c}
  <2>1. n + 1 \in 1 .. (n + 1) /\ \A i \in 1 .. n : i \in 1 .. (n + 1)
    BY <1>3
  <2>2. \A i \in 1 .. (n + 1) : i = n + 1 \/ i \in 1 .. n
    BY <1>3
  <2> QED
    BY <2>1, <2>2, <1>3, <1>4 DEF Chats
<1>7. \A i, j \in DOMAIN order' : order'[i] = order'[j] => i = j
  <2>1. \A i \in 1 .. (n + 1) : i = n + 1 \/ i \in 1 .. n
    BY <1>3
  <2> QED
    BY <2>1, <1>3, <1>4, <1>5 DEF ChatTypes
<1>8. ChatTypes'
  BY <1>1, <1>2, <1>4, <1>6, <1>7 DEF ChatTypes
<1>9. SavedIsCurrent'
  BY <1>2, <1>8, Persisted
<1>10. AnswersMatch'
  BY <1>2 DEF Inv, AnswersMatch
<1>11. Connections'
  BY <1>2, <1>6, Aside DEF Source, Sending
<1> QED
  BY <1>8, <1>9, <1>10, <1>11 DEF Inv, Connections

LEMMA SwitchStep ==
    ASSUME Inv, UNCHANGED handler, NEW c \in Chat, SwitchTo(c)
    PROVE  Inv'
<1> ChatTypes /\ Source
  BY DEF Inv
<1>1. /\ c \in Chats /\ active' = c /\ UNCHANGED <<order, msgs, drawn>> /\ Persist
      /\ UNCHANGED <<streamVars, connVars, wireVars>>
  BY DEF SwitchTo
<1>2. ChatTypes' /\ Chats' = Chats
  BY <1>1 DEF ChatTypes, Chats
<1>3. SavedIsCurrent'
  BY <1>1, <1>2, Persisted
<1>4. AnswersMatch'
  BY <1>1 DEF Inv, AnswersMatch
<1>5. Connections'
  BY <1>1, <1>2, Aside DEF Source, Sending
<1> QED
  BY <1>2, <1>3, <1>4, <1>5 DEF Inv, Connections

\* The chats that are left are in order, and a blank one is new.
LEMMA Kept ==
    ASSUME ChatTypes, NEW rest \in Seq(Chat), Keep(rest),
           {rest[i] : i \in DOMAIN rest} \subseteq Chats,
           \A i, j \in DOMAIN rest : rest[i] = rest[j] => i = j
    PROVE  /\ order' \in Seq(Chat)
           /\ \A i, j \in DOMAIN order' : order'[i] = order'[j] => i = j
           /\ drawn' \subseteq Chat
           /\ Chats' \subseteq drawn'
           /\ order'[1] \in Chats'
           /\ {rest[i] : i \in DOMAIN rest} \subseteq Chats'
<1>1. CASE rest # <<>>
  <2>1. order' = rest /\ drawn' = drawn
    BY <1>1 DEF Keep
  <2>2. 1 \in DOMAIN rest
    BY <1>1
  <2> QED
    BY <2>1, <2>2 DEF ChatTypes, Chats
<1>2. CASE rest = <<>>
  <2>1. PICK c \in Chat \ drawn : order' = <<c>> /\ drawn' = drawn \cup {c}
    BY <1>2 DEF Keep
  <2>2. order' \in Seq(Chat) /\ DOMAIN order' = {1} /\ order'[1] = c
    BY <2>1
  <2>3. Chats' = {c}
    BY <2>2 DEF Chats
  <2>4. {rest[i] : i \in DOMAIN rest} = {}
    BY <1>2
  <2> QED
    BY <2>1, <2>2, <2>3, <2>4 DEF ChatTypes
<1> QED
  BY <1>1, <1>2

LEMMA RemoveStep ==
    ASSUME Inv, UNCHANGED handler, NEW c \in Chat, Remove(c)
    PROVE  Inv'
<1> ChatTypes /\ Source
  BY DEF Inv
<1>1. /\ c \in Chats /\ Keep(Without(c))
      /\ active' = IF c = active THEN order'[1] ELSE active
      /\ msgs' = [msgs EXCEPT ![c] = <<>>]
      /\ Persist
      /\ IF streaming.chat = c THEN StopStream
         ELSE UNCHANGED <<streamVars, connVars, wireVars>>
  BY DEF Remove
<1>2. /\ Without(c) \in Seq(Chat)
      /\ {Without(c)[i] : i \in DOMAIN Without(c)} = Chats \ {c}
      /\ \A i, j \in DOMAIN Without(c) : Without(c)[i] = Without(c)[j] => i = j
  BY <1>1, WithoutSeq DEF ChatTypes
<1>3. /\ order' \in Seq(Chat)
      /\ \A i, j \in DOMAIN order' : order'[i] = order'[j] => i = j
      /\ drawn' \subseteq Chat
      /\ Chats' \subseteq drawn'
      /\ order'[1] \in Chats'
      /\ Chats \ {c} \subseteq Chats'
  BY <1>1, <1>2, Kept
<1>4. /\ msgs' \in [Chat -> Seq(Message)] /\ msgs'[c] = <<>>
      /\ \A d \in Chat \ {c} : msgs'[d] = msgs[d]
  BY <1>1 DEF ChatTypes
<1>5. active' \in Chats'
  BY <1>1, <1>3 DEF ChatTypes
<1>6. ChatTypes'
  BY <1>3, <1>4, <1>5 DEF ChatTypes
<1>7. SavedIsCurrent'
  BY <1>1, <1>6, Persisted
<1>8. AnswersMatch'
  BY <1>4 DEF Inv, AnswersMatch
<1>9. Connections'
  <2>1. CASE streaming.chat = c
    BY <2>1, <1>1, Stopped
  <2>2. CASE streaming.chat # c
    <3>1. Sending => streaming.chat \in Chats' /\ msgs'[streaming.chat] = msgs[streaming.chat]
      BY <2>2, <1>3, <1>4, ActiveChat DEF Source, Sending
    <3> QED
      BY <2>2, <3>1, <1>1, Aside
  <2> QED
    BY <2>1, <2>2
<1> QED
  BY <1>6, <1>7, <1>8, <1>9 DEF Inv, Connections

LEMMA Emptied ==
    ASSUME msgs' = [c \in Chat |-> <<>>]
    PROVE  msgs' \in [Chat -> Seq(Message)] /\ AnswersMatch'
BY DEF AnswersMatch

LEMMA NoneKept ==
    ASSUME ChatTypes, Keep(<<>>)
    PROVE  /\ order' \in Seq(Chat)
           /\ \A i, j \in DOMAIN order' : order'[i] = order'[j] => i = j
           /\ drawn' \subseteq Chat
           /\ Chats' \subseteq drawn'
           /\ order'[1] \in Chats'
<1>1. <<>> \in Seq(Chat) /\ DOMAIN <<>> = {}
  OBVIOUS
<1> DEFINE rest == <<>>
<1>2. rest \in Seq(Chat) /\ Keep(rest) /\ DOMAIN rest = {}
  BY <1>1
<1> HIDE DEF rest
<1>3. {rest[i] : i \in DOMAIN rest} \subseteq Chats
  BY <1>2
<1> QED
  BY <1>2, <1>3, Kept

LEMMA ClearAllStep ==
    ASSUME Inv, UNCHANGED handler, ClearAll
    PROVE  Inv'
<1>1. /\ Keep(<<>>) /\ active' = order'[1] /\ msgs' = [c \in Chat |-> <<>>]
      /\ Persist /\ StopStream
  BY DEF ClearAll
<1>2. ChatTypes'
  BY <1>1, NoneKept, Emptied DEF Inv, ChatTypes
<1>3. SavedIsCurrent' /\ AnswersMatch' /\ Connections'
  BY <1>1, <1>2, Persisted, Emptied, Stopped
<1> QED
  BY <1>2, <1>3 DEF Inv, Connections

LEMMA ReloadStep ==
    ASSUME Inv, UNCHANGED handler, Reload
    PROVE  Inv'
<1> WireTypes /\ ChatTypes /\ ConnTypes /\ Orderly /\ SavedIsCurrent
  BY DEF Inv
<1>1. /\ streaming' = NoStream /\ activeConn' = NoTurn /\ failTimers' = 0
      /\ timer' = {}
      /\ settled' = {t \in Turn : sock[t] # "none"}
      /\ sock' = [t \in Turn |->
              CASE sock[t] \in {"connecting", "failing"} -> "failed"
                [] sock[t] \in {"open", "closing"} -> "closed"
                [] OTHER -> sock[t]]
      /\ UNCHANGED <<saved, target, up, down>>
  BY DEF Reload
<1>2. ChatTypes' /\ AnswersMatch' /\ SavedIsCurrent'
  <2>1. CASE saved = Nothing
    <3>1. Keep(<<>>) /\ active' = order'[1] /\ msgs' = [c \in Chat |-> <<>>]
      BY <2>1 DEF Reload
    <3>2. ChatTypes'
      BY <3>1, NoneKept, Emptied DEF ChatTypes
    <3>3. AnswersMatch'
      BY <3>1, Emptied
    <3> QED
      BY <2>1, <3>1, <3>2, <3>3, <1>1 DEF SavedIsCurrent
  <2>2. CASE saved # Nothing
    <3>1. saved = [order |-> order, active |-> active, msgs |-> msgs]
      BY <2>2 DEF SavedIsCurrent
    <3>2. order' = order /\ active' = active /\ msgs' = msgs /\ drawn' = drawn
      BY <2>2, <3>1 DEF Reload
    <3>3. UNCHANGED chatVars
      BY <3>2, <1>1 DEF chatVars
    <3> QED
      BY <3>3, Untouched
  <2> QED
    BY <2>1, <2>2
<1>3. /\ sock' \in [Turn -> SockState]
      /\ \A t \in Turn : /\ sock'[t] = "none" <=> sock[t] = "none"
                         /\ sock'[t] \notin {"open", "connecting"}
  BY <1>1 DEF WireTypes, SockState
<1>4. WireTypes'
  BY <1>1, <1>3 DEF WireTypes
<1>5. ConnTypes'
  BY <1>1 DEF ConnTypes, NoStream, StreamType
<1>6. Orderly'
  <2>1. \A t \in Turn : t \in settled' => sock'[t] \notin {"none", "connecting", "open"}
    BY <1>1, <1>3
  <2> QED
    BY <2>1, <1>1, StillOrderly
<1>7. Source' /\ Pending' /\ OneConnection'
  BY <1>1, <1>3 DEF Source, Pending, Sending, NoStream, OneConnection, Connected
<1> QED
  BY <1>2, <1>4, <1>5, <1>6, <1>7 DEF Inv

-------------------------------------------------------------------------------
(* The events of the sockets, and the timers.                              *)

LEMMA Consumed ==
    ASSUME WireTypes, NEW t \in Turn, down[t] # <<>>, Consume(t)
    PROVE  /\ down' \in [Turn -> Seq(FrameType)]
           /\ \A u \in Turn :
                 \/ down'[u] = down[u]
                 \/ u = t /\ down[u] # <<>> /\ down'[u] = Tail(down[u])
           /\ down'[t] = Tail(down[t])
<1> DEFINE rest == Tail(down[t])
<1>1. rest \in Seq(FrameType)
  BY FirstFrame
<1>2. down \in [Turn -> Seq(FrameType)] /\ down' = [down EXCEPT ![t] = rest]
  BY DEF Consume, WireTypes
<1> HIDE DEF rest
<1>3. down'[t] = rest /\ \A u \in Turn \ {t} : down'[u] = down[u]
  BY <1>2
<1>4. down' \in [Turn -> Seq(FrameType)]
  BY <1>1, <1>2
<1>5. \A u \in Turn :
         \/ down'[u] = down[u]
         \/ u = t /\ down[u] # <<>> /\ down'[u] = Tail(down[u])
  BY <1>3 DEF rest
<1> QED
  BY <1>3, <1>4, <1>5 DEF rest

\* Events that change a socket and nothing of what streams.
LEMMA SocketEvent ==
    ASSUME Inv, NEW t \in Turn, NEW s \in SockState \ {"none"}, sock[t] # "none",
           UNCHANGED <<handler, up, settled, target, streamVars, chatVars>>,
           timer' \subseteq timer,
           sock' = [sock EXCEPT ![t] = s],
           s = "open" => sock[t] = "connecting",
           s # "connecting",
           UNCHANGED down \/ (down[t] # <<>> /\ Consume(t))
    PROVE  Inv'
<1> WireTypes /\ ConnTypes /\ Orderly /\ Source /\ OneConnection /\ Pending
  BY DEF Inv
<1>1. UNCHANGED <<streaming, activeConn, failTimers, msgs>> /\ Chats' = Chats
  BY DEF streamVars, chatVars, Chats
<1>2. /\ sock' \in [Turn -> SockState] /\ sock'[t] = s
      /\ \A u \in Turn \ {t} : sock'[u] = sock[u]
  BY DEF WireTypes
<1>3. /\ down' \in [Turn -> Seq(FrameType)]
      /\ \A u \in Turn : down'[u] = down[u] \/ (down[u] # <<>> /\ down'[u] = Tail(down[u]))
  BY Consumed DEF WireTypes
<1>4. WireTypes'
  BY <1>2, <1>3 DEF WireTypes
<1>5. ConnTypes'
  BY <1>1, <1>2 DEF ConnTypes
<1>6. Orderly'
  <2>1. ASSUME NEW u \in Turn, u \in settled'
        PROVE  /\ sock'[u] \notin {"none", "connecting"}
               /\ sock'[u] = "open" => u \in settled /\ sock[u] = "open"
    BY <2>1, <1>2 DEF Orderly
  <2> QED
    BY <2>1, <1>3, StillOrderly
<1>7. Source' /\ Pending'
  BY <1>1, <1>2 DEF Source, Pending, Sending, ConnTypes
<1>8. OneConnection'
  BY <1>1, <1>2 DEF OneConnection, Connected
<1> QED
  BY <1>4, <1>5, <1>6, <1>7, <1>8, Untouched DEF Inv

\* What is received goes on display under the question it answers.
LEMMA Received ==
    ASSUME Inv, NEW t \in Turn, sock[t] = "open", down[t] # <<>>,
           NextFrame(t) # "end", Consume(t),
           UNCHANGED <<handler, sock, up, chatVars, connVars, activeConn, failTimers>>,
           streaming' \in StreamType,
           streaming'.status = streaming.status,
           streaming'.chat = streaming.chat,
           streaming'.text \subseteq streaming.text \cup {t},
           streaming'.cites \in {streaming.cites, t}
    PROVE  Inv'
<1> WireTypes /\ ConnTypes /\ Orderly /\ Source /\ OneConnection /\ Pending
  BY DEF Inv
<1>1. t = activeConn /\ streaming.status = "streaming"
  BY Speaking
<1>2. UNCHANGED <<msgs, settled, target, timer>> /\ Chats' = Chats
  BY DEF connVars, chatVars, Chats
<1>3. /\ down' \in [Turn -> Seq(FrameType)]
      /\ \A u \in Turn : down'[u] = down[u] \/ (down[u] # <<>> /\ down'[u] = Tail(down[u]))
  BY Consumed
<1>4. WireTypes' /\ ConnTypes' /\ OneConnection'
  BY <1>2, <1>3 DEF WireTypes, ConnTypes, OneConnection, Connected
<1>5. Orderly'
  BY <1>2, <1>3, StillOrderly DEF Orderly
<1>6. Source'
  BY <1>2 DEF Source
<1>7. Pending'
  BY <1>1, <1>2 DEF Pending, Sending
<1> QED
  BY <1>4, <1>5, <1>6, <1>7, Untouched DEF Inv

LEMMA OnTokenStep ==
    ASSUME Inv, UNCHANGED handler, NEW t \in Turn, OnToken(t)
    PROVE  Inv'
<1> WireTypes /\ ConnTypes
  BY DEF Inv
<1>1. /\ sock[t] = "open" /\ down[t] # <<>> /\ NextFrame(t) # "end" /\ Consume(t)
      /\ UNCHANGED <<sock, up, chatVars, connVars, activeConn, failTimers>>
  BY DEF OnToken, Event
<1>2. Head(down[t]).size \in Nat
  BY <1>1, FirstFrame DEF FrameType
<1>3. streaming' = [streaming EXCEPT !.text = @ \cup {t},
                                     !.size = @ + Head(down[t]).size]
  BY <1>1, Speaking DEF OnToken
<1>4. streaming \in StreamType
  BY DEF ConnTypes
<1>5. streaming.size + Head(down[t]).size \in Nat /\ streaming.text \cup {t} \in SUBSET Turn
  BY <1>2, <1>4 DEF StreamType
<1>6. /\ streaming'.status = streaming.status /\ streaming'.chat = streaming.chat
      /\ streaming'.text = streaming.text \cup {t} /\ streaming'.cites = streaming.cites
  BY <1>3, <1>4 DEF StreamType
<1>7. streaming' \in StreamType
  BY <1>3, <1>4, <1>5 DEF StreamType
<1> QED
  BY <1>1, <1>6, <1>7, Received

LEMMA OnCitationStep ==
    ASSUME Inv, UNCHANGED handler, NEW t \in Turn, OnCitation(t)
    PROVE  Inv'
<1> WireTypes /\ ConnTypes
  BY DEF Inv
<1>1. /\ sock[t] = "open" /\ down[t] # <<>> /\ NextFrame(t) # "end" /\ Consume(t)
      /\ UNCHANGED <<sock, up, chatVars, connVars, activeConn, failTimers>>
  BY DEF OnCitation, Event
<1>2. streaming' = [streaming EXCEPT !.cites = t]
  BY <1>1, Speaking DEF OnCitation
<1>3. /\ streaming' \in StreamType
      /\ streaming'.status = streaming.status /\ streaming'.chat = streaming.chat
      /\ streaming'.text = streaming.text /\ streaming'.cites = t
  BY <1>2 DEF ConnTypes, StreamType
<1> QED
  BY <1>1, <1>3, Received

LEMMA OnDoneStep ==
    ASSUME Inv, UNCHANGED handler, NEW t \in Turn, OnDone(t)
    PROVE  Inv'
<1> WireTypes /\ ChatTypes /\ ConnTypes /\ Orderly /\ Source /\ OneConnection
    /\ Pending /\ AnswersMatch
  BY DEF Inv
<1>1. /\ sock[t] = "open" /\ down[t] # <<>> /\ NextFrame(t) = "done" /\ Consume(t)
      /\ settled' = settled \cup {t} /\ timer' = timer \ {t}
      /\ UNCHANGED <<sock, up, target, failTimers, order, active, drawn>>
  BY DEF OnDone, Event, Settle
<1>2. t = activeConn /\ streaming.status = "streaming" /\ Owned(t)
  BY <1>1, Speaking
<1> DEFINE c == streaming.chat
<1>3. c \in Chats /\ c \in Chat /\ target[t] = c
  BY <1>2, ActiveChat DEF Source, Owned
<1>4. /\ streaming' = NoStream /\ activeConn' = NoTurn
      /\ Push(c, AnswerOf(streaming)) /\ Persist
  BY <1>2, <1>3 DEF OnDone
<1>5. /\ AnswerOf(streaming) \in Message
      /\ AnswerOf(streaming).text = streaming.text
      /\ AnswerOf(streaming).cites = streaming.cites
  BY DEF AnswerOf, Message, ConnTypes, StreamType
<1>6. /\ msgs[c] # <<>>
      /\ msgs[c][Len(msgs[c])].role = "user"
      /\ streaming.text \subseteq msgs[c][Len(msgs[c])].text
      /\ streaming.cites \in msgs[c][Len(msgs[c])].text \cup {NoTurn}
  BY <1>2 DEF Pending, Sending
<1>7. msgs' \in [Chat -> Seq(Message)] /\ AnswersMatch'
  <2>1. msgs \in [Chat -> Seq(Message)]
    BY DEF ChatTypes
  <2> QED
    BY <2>1, <1>3, <1>4, <1>5, <1>6, Pushed
<1>8. ChatTypes'
  BY <1>1, <1>7 DEF ChatTypes, Chats
<1>9. SavedIsCurrent'
  BY <1>4, <1>8, Persisted
<1>10. /\ down' \in [Turn -> Seq(FrameType)]
       /\ \A u \in Turn : down'[u] = down[u] \/ (down[u] # <<>> /\ down'[u] = Tail(down[u]))
       /\ down'[t] = Tail(down[t])
  BY <1>1, Consumed
<1>11. WireTypes'
  BY <1>1, <1>10 DEF WireTypes
<1>12. ConnTypes'
  BY <1>1, <1>4 DEF ConnTypes, NoStream, StreamType
<1>13. Orderly'
  <2>1. ASSUME NEW u \in Turn, u \in settled'
        PROVE  /\ sock'[u] \notin {"none", "connecting"}
               /\ sock'[u] = "open" =>
                     \/ u \in settled /\ sock[u] = "open"
                     \/ /\ down[u] # <<>> /\ down'[u] = Tail(down[u])
                        /\ NextFrame(u) \in Final
    BY <2>1, <1>1, <1>10 DEF Orderly, Final
  <2> QED
    BY <2>1, <1>10, StillOrderly
<1>14. Source' /\ Pending'
  BY <1>4 DEF Source, Pending, Sending, NoStream
<1>15. OneConnection'
  BY <1>1, <1>2 DEF OneConnection, Connected
<1> QED
  BY <1>7, <1>8, <1>9, <1>11, <1>12, <1>13, <1>14, <1>15 DEF Inv

LEMMA OnErrorFrameStep ==
    ASSUME Inv, UNCHANGED handler, NEW t \in Turn, OnErrorFrame(t)
    PROVE  Inv'
<1> WireTypes /\ ConnTypes /\ Source
  BY DEF Inv
<1>1. /\ sock[t] = "open" /\ down[t] # <<>> /\ NextFrame(t) = "error" /\ Consume(t)
      /\ UNCHANGED <<up, target, chatVars>>
  BY DEF OnErrorFrame, Event
<1>2. t = activeConn /\ Owned(t)
  BY <1>1, Speaking
<1>3. FailStream({t}) /\ sock' = CloseSockets(Live)
  BY <1>2 DEF OnErrorFrame, OnError
<1>4. Live = {t}
  BY <1>2, TurnNumbers DEF Live
<1>5. /\ sock' \in [Turn -> SockState]
      /\ \A u \in Turn :
            /\ sock'[u] = "none" <=> sock[u] = "none"
            /\ sock'[u] \in {"open", "connecting"} =>
                  sock'[u] = sock[u] /\ u \notin Live \cup {t}
  <2>1. /\ sock' \in [Turn -> SockState]
        /\ \A u \in Turn :
              /\ sock'[u] = "none" <=> sock[u] = "none"
              /\ sock'[u] = "open" <=> sock[u] = "open" /\ u \notin Live
              /\ sock'[u] = "connecting" <=> sock[u] = "connecting" /\ u \notin Live
    BY <1>3, Closing DEF WireTypes
  <2> QED
    BY <2>1, <1>4
<1>6. /\ down' \in [Turn -> Seq(FrameType)]
      /\ \A u \in Turn : down'[u] = down[u] \/ (down[u] # <<>> /\ down'[u] = Tail(down[u]))
  BY <1>1, Consumed
<1>7. Connections'
  BY <1>1, <1>3, <1>5, <1>6, Failed
<1> QED
  BY <1>1, <1>7, Untouched DEF Inv, Connections

LEMMA OnConnectErrorStep ==
    ASSUME Inv, UNCHANGED handler, NEW t \in Turn, OnConnectError(t)
    PROVE  Inv'
<1> WireTypes /\ ConnTypes /\ Orderly /\ Source /\ OneConnection /\ Pending
  BY DEF Inv
<1>1. /\ sock[t] \in {"failing", "connecting", "open"}
      /\ UNCHANGED <<up, down, target, chatVars>>
  BY DEF OnConnectError
<1>2. CASE Owned(t)
  <2>1. FailStream({t}) /\ sock' = [CloseSockets(Live) EXCEPT ![t] = "failed"]
    BY <1>2 DEF OnConnectError
  <2>2. CloseSockets(Live) \in [Turn -> SockState] /\ "failed" \in SockState
    BY Closing DEF WireTypes, SockState
  <2>3. /\ sock' \in [Turn -> SockState] /\ sock'[t] = "failed"
        /\ \A u \in Turn \ {t} : sock'[u] = CloseSockets(Live)[u]
    BY <2>1, <2>2
  <2>4. \A u \in Turn :
          /\ CloseSockets(Live)[u] = "none" <=> sock[u] = "none"
          /\ CloseSockets(Live)[u] = "open" <=> sock[u] = "open" /\ u \notin Live
          /\ CloseSockets(Live)[u] = "connecting" <=> sock[u] = "connecting" /\ u \notin Live
    BY Closing DEF WireTypes
  <2>5. \A u \in Turn :
          /\ sock'[u] = "none" <=> sock[u] = "none"
          /\ sock'[u] \in {"open", "connecting"} =>
                sock'[u] = sock[u] /\ u \notin Live \cup {t}
    BY <2>3, <2>4, <1>1
  <2>6. {t} \in SUBSET Turn /\ \A u \in {t} : sock[u] # "none"
    BY <1>1
  <2>7. /\ down' \in [Turn -> Seq(FrameType)]
        /\ \A u \in Turn : down'[u] = down[u]
        /\ UNCHANGED <<handler, up, target, chatVars>>
    BY <1>1 DEF WireTypes
  <2>8. Connections'
    BY ONLY Inv, <2>1, <2>3, <2>5, <2>6, <2>7, Failed
  <2> QED
    BY <2>8, <1>1, Untouched DEF Inv, Connections
<1>3. CASE ~Owned(t)
  <2>1. /\ settled' = settled \cup {t} /\ timer' = timer \ {t}
        /\ sock' = [sock EXCEPT ![t] = "failed"]
        /\ UNCHANGED <<streaming, activeConn, failTimers>>
    BY <1>3 DEF OnConnectError, streamVars
  <2>2. UNCHANGED msgs /\ Chats' = Chats
    BY <1>1 DEF chatVars, Chats
  <2>3. t # activeConn
    BY <1>3, TurnNumbers DEF Source, Owned
  <2>4. /\ sock' \in [Turn -> SockState] /\ sock'[t] = "failed"
        /\ \A u \in Turn \ {t} : sock'[u] = sock[u]
    BY <2>1 DEF WireTypes, SockState
  <2>5. WireTypes' /\ ConnTypes'
    BY <1>1, <2>1, <2>4 DEF WireTypes, ConnTypes
  <2>6. Orderly'
    <3>1. ASSUME NEW u \in Turn, u \in settled'
          PROVE  /\ sock'[u] \notin {"none", "connecting"}
                 /\ sock'[u] = "open" => u \in settled /\ sock[u] = "open"
      BY <3>1, <2>1, <2>4 DEF Orderly
    <3> QED
      BY <3>1, <1>1, StillOrderly
  <2>7. Source' /\ Pending'
    BY <1>1, <2>1, <2>2, <2>3, <2>4 DEF Source, Pending, Sending, ConnTypes
  <2>8. OneConnection'
    BY <2>1, <2>4 DEF OneConnection, Connected
  <2> QED
    BY <1>1, <2>5, <2>6, <2>7, <2>8, Untouched DEF Inv
<1> QED
  BY <1>2, <1>3

LEMMA ConnectTimeoutStep ==
    ASSUME Inv, UNCHANGED handler, NEW t \in Turn, ConnectTimeout(t)
    PROVE  Inv'
<1> WireTypes /\ ConnTypes /\ Orderly /\ Source /\ OneConnection /\ Pending
  BY DEF Inv
<1>1. t \in timer /\ sock[t] # "none" /\ UNCHANGED <<up, down, target, chatVars>>
  BY DEF ConnectTimeout, ConnTypes
<1>2. CASE Owned(t)
  <2>1. FailStream({t}) /\ sock' = CloseSockets(Live \cup {t})
    BY <1>2 DEF ConnectTimeout
  <2>2. /\ sock' \in [Turn -> SockState]
        /\ \A u \in Turn :
              /\ sock'[u] = "none" <=> sock[u] = "none"
              /\ sock'[u] = "open" <=> sock[u] = "open" /\ u \notin Live \cup {t}
              /\ sock'[u] = "connecting" <=> sock[u] = "connecting" /\ u \notin Live \cup {t}
    BY <2>1, Closing DEF WireTypes
  <2>3. Connections'
    BY <1>1, <2>1, <2>2, Failed DEF WireTypes
  <2> QED
    BY <2>3, <1>1, Untouched DEF Inv, Connections
<1>3. CASE ~Owned(t)
  <2>1. /\ settled' = settled \cup {t} /\ timer' = timer \ {t}
        /\ sock' = CloseSockets({t})
        /\ UNCHANGED <<streaming, activeConn, failTimers>>
    BY <1>3 DEF ConnectTimeout, Abort, streamVars
  <2>2. UNCHANGED msgs /\ Chats' = Chats
    BY <1>1 DEF chatVars, Chats
  <2>3. t # activeConn
    BY <1>3, TurnNumbers DEF Source, Owned
  <2>4. /\ sock' \in [Turn -> SockState]
        /\ \A u \in Turn :
              /\ sock'[u] = "none" <=> sock[u] = "none"
              /\ sock'[u] = "open" <=> sock[u] = "open" /\ u # t
              /\ sock'[u] = "connecting" <=> sock[u] = "connecting" /\ u # t
    BY <2>1, Closing DEF WireTypes
  <2>5. WireTypes' /\ ConnTypes'
    BY <1>1, <2>1, <2>4 DEF WireTypes, ConnTypes
  <2>6. Orderly'
    <3>1. ASSUME NEW u \in Turn, u \in settled'
          PROVE  /\ sock'[u] \notin {"none", "connecting"}
                 /\ sock'[u] = "open" => u \in settled /\ sock[u] = "open"
      BY <3>1, <1>1, <2>1, <2>4 DEF Orderly
    <3> QED
      BY <3>1, <1>1, StillOrderly
  <2>7. Source' /\ Pending'
    BY <1>1, <2>1, <2>2, <2>3, <2>4 DEF Source, Pending, Sending, ConnTypes
  <2>8. OneConnection'
    BY <2>1, <2>4 DEF OneConnection, Connected
  <2> QED
    BY <1>1, <2>5, <2>6, <2>7, <2>8, Untouched DEF Inv
<1> QED
  BY <1>2, <1>3

LEMMA ClearErrorStep ==
    ASSUME Inv, UNCHANGED handler, ClearError
    PROVE  Inv'
<1> WireTypes /\ ConnTypes /\ Orderly /\ Source /\ OneConnection /\ Pending
  BY DEF Inv
<1>1. /\ failTimers > 0 /\ failTimers' = failTimers - 1
      /\ streaming' = IF streaming.status = "error" THEN NoStream ELSE streaming
      /\ UNCHANGED <<sock, up, down, target, settled, timer, activeConn, chatVars>>
  BY DEF ClearError, wireVars, connVars
<1>2. UNCHANGED msgs /\ Chats' = Chats
  BY <1>1 DEF chatVars, Chats
<1>3. streaming' \in StreamType /\ failTimers' \in Nat
  BY <1>1 DEF ConnTypes, NoStream, StreamType
<1>4. WireTypes' /\ ConnTypes' /\ OneConnection'
  BY <1>1, <1>3 DEF WireTypes, ConnTypes, OneConnection, Connected
<1>5. Orderly'
  BY <1>1 DEF Orderly
<1>6. Source' /\ Pending'
  BY <1>1, <1>2 DEF Source, Pending, Sending, NoStream
<1> QED
  BY <1>1, <1>4, <1>5, <1>6, Untouched DEF Inv

-------------------------------------------------------------------------------
(* The theorems.                                                           *)

LEMMA InitInv == Init => Inv
<1> SUFFICES ASSUME Init PROVE Inv
  OBVIOUS
<1>1. PICK c \in Chat :
        /\ order = <<c>> /\ active = c /\ drawn = {c}
        /\ msgs = [x \in Chat |-> <<>>] /\ saved = Nothing
        /\ streaming = NoStream /\ activeConn = NoTurn /\ failTimers = 0
        /\ target = [t \in Turn |-> NoChat] /\ settled = {} /\ timer = {}
  BY DEF Init, ClientInit
<1>2. /\ sock = [t \in Turn |-> "none"] /\ up = [t \in Turn |-> <<>>]
      /\ down = [t \in Turn |-> <<>>] /\ handler = [t \in Turn |-> "none"]
  BY DEF Init, WireInit, ServerInit
<1>3. WireTypes
  BY <1>2 DEF WireTypes, SockState, HandlerState
<1>4. ChatTypes
  <2>1. order \in Seq(Chat) /\ DOMAIN order = {1} /\ order[1] = c
    BY <1>1
  <2> QED
    BY <1>1, <2>1 DEF ChatTypes, Chats
<1>5. ConnTypes
  BY <1>1 DEF ConnTypes, NoStream, StreamType
<1>6. Orderly /\ OneConnection
  BY <1>1, <1>2 DEF Orderly, OneConnection, Connected
<1>7. Source /\ Pending /\ AnswersMatch /\ SavedIsCurrent
  BY <1>1 DEF Source, Pending, Sending, NoStream, AnswersMatch, SavedIsCurrent
<1> QED
  BY <1>3, <1>4, <1>5, <1>6, <1>7 DEF Inv

LEMMA DispatchStep ==
    ASSUME Inv, UNCHANGED handler, NEW t \in Turn, Dispatch(t)
    PROVE  Inv'
<1> USE DEF SockState
<1>1. CASE OnOpen(t)
  <2>1. UNCHANGED <<settled, target, timer, streaming, activeConn, failTimers,
                    order, active, msgs, saved, drawn>>
    BY <1>1 DEF OnOpen, clientVars
  <2>2. UNCHANGED <<streamVars, chatVars>>
    BY <2>1 DEF streamVars, chatVars
  <2>3. /\ sock[t] = "connecting" /\ down[t] # <<>> /\ Consume(t)
        /\ sock' = [sock EXCEPT ![t] = "open"] /\ UNCHANGED up
    BY <1>1 DEF OnOpen, Event
  <2> QED
    BY <2>1, <2>2, <2>3, SocketEvent
<1>2. CASE OnClose(t)
  <2>1. /\ sock[t] = "open" /\ down[t] # <<>> /\ Consume(t)
        /\ sock' = [sock EXCEPT ![t] = "closed"] /\ timer' \subseteq timer
        /\ UNCHANGED <<up, settled, target, streamVars, chatVars>>
    BY <1>2 DEF OnClose, Event
  <2> QED
    BY <2>1, SocketEvent
<1>3. CASE OnClosed(t)
  <2>1. /\ sock[t] = "closing"
        /\ sock' = [sock EXCEPT ![t] = "closed"] /\ timer' \subseteq timer
        /\ UNCHANGED <<up, down, settled, target, streamVars, chatVars>>
    BY <1>3 DEF OnClosed
  <2> QED
    BY <2>1, SocketEvent
<1> QED
  BY <1>1, <1>2, <1>3, OnTokenStep, OnCitationStep, OnDoneStep, OnErrorFrameStep,
     OnConnectErrorStep DEF Dispatch

LEMMA PageStep == Inv /\ Page => Inv'
<1> SUFFICES ASSUME Inv, Page PROVE Inv'
  OBVIOUS
<1>1. UNCHANGED handler
  BY DEF Page
<1>2. CASE Click
  BY <1>1, <1>2, SendStep, StopStep, CreateStep, SwitchStep, RemoveStep, ClearAllStep
     DEF Click
<1> QED
  BY <1>1, <1>2, DispatchStep, ConnectTimeoutStep, ClearErrorStep, ReloadStep DEF Page

LEMMA Unchanged == Inv /\ UNCHANGED vars => Inv'
<1> SUFFICES ASSUME Inv, UNCHANGED vars PROVE Inv'
  OBVIOUS
<1>1. UNCHANGED <<order, active, msgs, saved, drawn>> /\ Chats' = Chats
  BY DEF vars, Chats
<1>2. UNCHANGED <<sock, up, down, handler, streaming, activeConn, failTimers,
                  target, settled, timer>>
  BY DEF vars
<1>3. Connections'
  BY <1>1, <1>2, Aside DEF Inv, Source, Sending, wireVars, streamVars, connVars
<1> QED
  BY <1>1, <1>3, Untouched DEF Inv, Connections, chatVars

LEMMA Invariance == Spec => []Inv
<1>1. Inv /\ [Next]_vars => Inv'
  BY PageStep, ServerStep, Unchanged DEF Next
<1> QED
  BY <1>1, InitInv, PTL DEF Spec

\* No chat is listed that was not drawn, and every variable keeps its type.
THEOREM ChatTypeCorrect == Spec => []TypeOK
<1>1. Inv => TypeOK
  <2> SUFFICES ASSUME Inv PROVE TypeOK
    OBVIOUS
  <2>1. /\ \A c \in Chat : \A i \in DOMAIN msgs[c] : msgs[c][i] \in Message
        /\ drawn \subseteq Chat /\ Chats \subseteq drawn /\ active \in Chats
    BY DEF Inv, ChatTypes
  <2>2. /\ sock \in [Turn -> SockState] /\ handler \in [Turn -> HandlerState]
        /\ \A t \in Turn : \A i \in DOMAIN up[t] : up[t][i] \in ItemType
        /\ \A t \in Turn : \A i \in DOMAIN down[t] : down[t][i] \in FrameType
    BY DEF Inv, WireTypes
  <2>3. ConnTypes
    BY DEF Inv
  <2> QED
    BY <2>1, <2>2, <2>3 DEF TypeOK, ConnTypes, StreamType, ItemType, FrameType
<1> QED
  BY <1>1, Invariance, PTL

\* Neither a superseded nor a stopped turn, nor that of another chat, gets into
\* an answer (the handlers of chat.ts): every answer follows its own question.
THEOREM AnswersAlwaysMatch == Spec => []AnswersMatch
<1>1. Inv => AnswersMatch
  BY DEF Inv
<1> QED
  BY <1>1, Invariance, PTL

\* The page never has two connections at work (_failStreaming, stop, send).
THEOREM NeverTwoConnections == Spec => []OneConnection
<1>1. Inv => OneConnection
  BY DEF Inv
<1> QED
  BY <1>1, Invariance, PTL

\* What streams has a source: the connection that is held, of a chat that exists.
THEOREM StreamAlwaysHasSource == Spec => []StreamHasSource
<1>1. Inv => StreamHasSource
  BY DEF Inv, Source, StreamHasSource, Owned, Sending
<1> QED
  BY <1>1, Invariance, PTL

\* A reload finds what was on display (persist() in every action of chat.ts).
THEOREM AlwaysSaved == Spec => []SavedIsCurrent
<1>1. Inv => SavedIsCurrent
  BY DEF Inv
<1> QED
  BY <1>1, Invariance, PTL

\* Once a turn has failed on display no event of its connection writes an answer
\* (_failStreaming closed it, and what is closed dispatches nothing).
THEOREM FailedAlwaysStays == Spec => FailedStaysFailed
<1> DEFINE Stays(c) ==
        Len(msgs'[c]) > Len(msgs[c]) =>
            msgs'[c][Len(msgs'[c])].role = "user" \/ UNCHANGED down
           Step == streaming.status = "error" => \A c \in Chat : Stays(c)
<1>1. ASSUME Inv, UNCHANGED msgs, NEW c \in Chat PROVE Stays(c)
  <2>1. Len(msgs[c]) \in Nat
    BY DEF Inv, ChatTypes
  <2> QED
    BY <2>1, <1>1
<1>2. ASSUME Inv, [Next]_vars, streaming.status = "error", NEW c \in Chat PROVE Stays(c)
  <2> HIDE DEF Stays
  <2>1. CASE UNCHANGED down
    BY <2>1 DEF Stays
  <2>2. CASE UNCHANGED msgs
    BY <2>2, <1>1, <1>2
  <2>3. ASSUME NEW size \in TextSize, Send(size) PROVE Stays(c)
    BY <2>1, <2>3 DEF Send
  <2>4. CASE Click
    BY <2>1, <2>2, <2>3, <2>4 DEF Click, Stop, StopStream, Create, SwitchTo, Remove,
       ClearAll, wireVars
  <2>5. ASSUME NEW t \in Turn, OnDone(t) PROVE Stays(c)
    <3>1. sock[t] = "open" /\ down[t] # <<>> /\ NextFrame(t) # "end"
      BY <2>5 DEF OnDone, Event
    <3> QED
      BY <3>1, <1>2, Speaking
  <2>6. ASSUME NEW t \in Turn, Dispatch(t) PROVE Stays(c)
    BY <2>2, <2>5, <2>6 DEF Dispatch, OnOpen, OnToken, OnCitation, OnErrorFrame,
       OnClose, OnClosed, OnConnectError, clientVars, chatVars
  <2>7. CASE Server \/ UNCHANGED vars
    BY <2>2, <2>7 DEF Server, clientVars, vars
  <2>8. CASE Page
    BY <2>1, <2>2, <2>4, <2>6, <2>8 DEF Page, ConnectTimeout, ClearError, Reload, chatVars
  <2> QED
    BY <2>7, <2>8, <1>2 DEF Next
<1>3. Inv /\ [Next]_vars => [Step]_vars
  BY <1>2
<1>4. Inv /\ [Next]_vars =>
        [streaming.status = "error" =>
            \A c \in Chat : Len(msgs'[c]) > Len(msgs[c]) =>
                msgs'[c][Len(msgs'[c])].role = "user" \/ UNCHANGED down]_vars
  BY <1>3
<1> QED
  BY <1>4, Invariance, PTL DEF Spec, FailedStaysFailed


-------------------------------------------------------------------------------
(* What ends a wait of the page.                                           *)

Early == {"none", "connecting", "open"}
Verdict == {"done", "error"}

Answered(frames) ==
    \A i \in DOMAIN frames : frames[i].event = "end" =>
        \E j \in DOMAIN frames : j < i /\ frames[j].event \in Verdict

\* A connection that the page itself closes has settled; one that has not hears
\* done or error before the end, unless the server was stopped.
Told ==
    /\ \A t \in Turn : sock[t] \in {"closing", "failing"} => t \in settled
    /\ Shutdowns \/ \A t \in Turn :
          t \notin settled /\ sock[t] \in Early => Answered(down[t])

LEMMA AnsweredAfter ==
    ASSUME NEW f \in Seq(FrameType), NEW g \in Seq(FrameType), Answered(f), Answered(g)
    PROVE  Answered(f \o g)
<1> DEFINE n == Len(f)
           m == Len(g)
<1>1. /\ n \in Nat /\ m \in Nat /\ DOMAIN f = 1 .. n /\ DOMAIN g = 1 .. m
      /\ DOMAIN (f \o g) = 1 .. (n + m)
      /\ \A i \in 1 .. n : (f \o g)[i] = f[i]
      /\ \A i \in 1 .. m : (f \o g)[n + i] = g[i]
  OBVIOUS
<1> DEFINE h == f \o g
<1> SUFFICES ASSUME NEW i \in DOMAIN h, h[i].event = "end"
             PROVE  \E j \in DOMAIN h : j < i /\ h[j].event \in Verdict
  BY DEF Answered
<1>2. CASE i \in 1 .. n
  <2>1. PICK j \in DOMAIN f : j < i /\ f[j].event \in Verdict
    BY <1>1, <1>2 DEF Answered
  <2>2. j \in DOMAIN h /\ h[j] = f[j]
    BY <1>1, <2>1
  <2> QED
    BY <2>1, <2>2
<1>3. CASE i \notin 1 .. n
  <2>1. i - n \in 1 .. m /\ n + (i - n) = i
    BY <1>1, <1>3
  <2>2. h[i] = g[i - n]
    BY <1>1, <2>1
  <2>3. PICK j \in DOMAIN g : j < i - n /\ g[j].event \in Verdict
    BY <1>1, <2>1, <2>2 DEF Answered
  <2>4. n + j \in DOMAIN h /\ n + j < i /\ h[n + j] = g[j]
    BY <1>1, <2>1, <2>3
  <2> QED
    BY <2>3, <2>4
<1> QED
  BY <1>2, <1>3

\* What is left is still announced, once a frame that announces nothing is gone.
LEMMA AnsweredRest ==
    ASSUME NEW f \in Seq(FrameType), f # <<>>, Answered(f), f[1].event \notin Verdict
    PROVE  Answered(Tail(f)) /\ f[1].event # "end"
<1> DEFINE n == Len(f)
           rest == Tail(f)
<1>1. /\ n \in Nat \ {0} /\ DOMAIN f = 1 .. n /\ DOMAIN rest = 1 .. (n - 1)
      /\ \A i \in 1 .. (n - 1) : rest[i] = f[i + 1]
  OBVIOUS
<1>2. f[1].event # "end"
  <2>1. 1 \in DOMAIN f /\ ~ \E j \in DOMAIN f : j < 1
    BY <1>1
  <2> QED
    BY <2>1 DEF Answered
<1> HIDE DEF rest, n
<1>3. ASSUME NEW i \in DOMAIN rest, rest[i].event = "end"
      PROVE  \E j \in DOMAIN rest : j < i /\ rest[j].event \in Verdict
  <2>1. i + 1 \in DOMAIN f /\ f[i + 1].event = "end"
    BY <1>1, <1>3
  <2>2. PICK k \in DOMAIN f : k < i + 1 /\ f[k].event \in Verdict
    BY <2>1 DEF Answered
  <2>3. k # 1
    BY <2>2
  <2>4. k - 1 \in DOMAIN rest /\ k - 1 < i /\ rest[k - 1] = f[k]
    <3>1. k - 1 \in 1 .. (n - 1) /\ (k - 1) + 1 = k /\ i \in 1 .. (n - 1)
      BY <1>1, <1>3, <2>2, <2>3
    <3> QED
      BY <3>1, <1>1, <2>2
  <2> QED
    BY <2>2, <2>4
<1> QED
  BY <1>2, <1>3 DEF Answered, rest

\* A task of the page keeps the announcements: it settles who hears one.
LEMMA StillTold ==
    ASSUME Inv, Told, settled \subseteq settled',
           \A t \in Turn : sock'[t] \in {"closing", "failing"} => t \in settled' ,
           \A t \in Turn : sock'[t] \in Early => sock[t] \in Early,
           \A t \in Turn : t \notin settled' /\ sock'[t] \in Early =>
              \/ down'[t] = down[t]
              \/ /\ down[t] # <<>> /\ down'[t] = Tail(down[t])
                 /\ NextFrame(t) \notin Verdict
    PROVE  Told'
<1> SUFFICES ASSUME ~Shutdowns, NEW t \in Turn, t \notin settled', sock'[t] \in Early
             PROVE  Answered(down'[t])
  BY FaultsAssumption DEF Told, Answered
<1>1. Answered(down[t]) /\ down[t] \in Seq(FrameType)
  BY DEF Told, Inv, WireTypes
<1>2. CASE down'[t] = down[t]
  BY <1>1, <1>2
<1>3. CASE down[t] # <<>> /\ down'[t] = Tail(down[t]) /\ NextFrame(t) \notin Verdict
  <2>1. NextFrame(t) = down[t][1].event
    BY <1>1, <1>3 DEF NextFrame
  <2>2. Answered(Tail(down[t]))
    BY <1>1, <1>3, <2>1, AnsweredRest
  <2> QED
    BY <2>2, <1>3
<1> QED
  BY <1>2, <1>3

\* Closing is for what the page settles with it.
LEMMA Closed ==
    ASSUME Inv, Told, NEW S \in SUBSET Turn
    PROVE  /\ \A t \in Turn : CloseSockets(S)[t] \in {"closing", "failing"} =>
                 t \in settled \cup S
           /\ \A t \in Turn : CloseSockets(S)[t] \in Early => sock[t] \in Early
           /\ \A t \in Turn \ S : CloseSockets(S)[t] = sock[t]
BY DEF Told, CloseSockets, Early, Inv, WireTypes, SockState

WaitInv == Told /\ WaitEnds

\* The connection that streams, its timer pending or its end seen.
LEMMA Streams ==
    ASSUME Inv, WaitEnds, streaming.status = "streaming"
    PROVE  /\ activeConn \in Turn /\ activeConn \notin settled
           /\ Owned(activeConn)
           /\ activeConn \in timer \/ (Shutdowns /\ sock[activeConn] = "closed")
BY DEF Inv, Source, ConnTypes, WaitEnds, Owned

\* Nothing streams any more, and no failure is on display.
LEMMA StoppedWaits ==
    ASSUME Inv, WaitInv, StopStream
    PROVE  WaitInv'
<1>1. /\ settled' = settled \cup Live /\ sock' = CloseSockets(Live)
      /\ streaming' = NoStream /\ UNCHANGED down
  BY DEF StopStream, Abort
<1>2. Live \in SUBSET Turn
  BY DEF Live, Inv, ConnTypes
<1>3. Told'
  BY <1>1, <1>2, Closed, StillTold DEF WaitInv
<1>4. WaitEnds'
  BY <1>1 DEF WaitEnds, NoStream
<1> QED
  BY <1>3, <1>4 DEF WaitInv

\* A failure is on display for the 4 s that begin with it.
LEMMA FailedWaits ==
    ASSUME Inv, WaitEnds, NEW S, FailStream(S)
    PROVE  WaitEnds'
<1>1. /\ streaming' = [streaming EXCEPT !.status = IF Sending THEN "error" ELSE @]
      /\ failTimers' = failTimers + 1 /\ failTimers \in Nat
      /\ streaming \in StreamType
  BY DEF FailStream, Inv, ConnTypes
<1>2. streaming'.status # "streaming" /\ failTimers' > 0
  BY <1>1 DEF Sending, StreamType
<1> QED
  BY <1>2 DEF WaitEnds

LEMMA AsideWaits ==
    ASSUME WaitInv, UNCHANGED <<streaming, activeConn, failTimers, timer, settled, sock, down>>
    PROVE  WaitInv'
BY DEF WaitInv, Told, WaitEnds

LEMMA ClickWaits ==
    ASSUME Inv, WaitInv, Click
    PROVE  WaitInv'
<1>1. ASSUME NEW size \in TextSize, Send(size) PROVE WaitInv'
  <2> DEFINE t == NextTurn
             cancelled == IF Sending THEN Live ELSE {}
  <2>1. t \in Turn /\ sock[t] = "none"
    BY <1>1, NextIsFresh DEF Send
  <2>2. /\ streaming' = [NoStream EXCEPT !.status = "streaming", !.chat = active]
        /\ activeConn' = t
        /\ sock' = [CloseSockets(cancelled) EXCEPT ![t] = "connecting"]
        /\ settled' = settled \cup cancelled
        /\ timer' = (timer \ cancelled) \cup {t}
        /\ UNCHANGED down
    BY <1>1 DEF Send
  <2> HIDE DEF t, cancelled
  <2>3. cancelled \in SUBSET Turn
    BY DEF cancelled, Live, Inv, ConnTypes
  <2>4. CloseSockets(cancelled) \in [Turn -> SockState]
    BY Closing DEF Inv, WireTypes
  <2>5. sock'[t] = "connecting" /\ \A u \in Turn \ {t} : sock'[u] = CloseSockets(cancelled)[u]
    BY <2>1, <2>2, <2>4
  <2>6. Told'
    <3>1. \A u \in Turn : sock'[u] \in {"closing", "failing"} => u \in settled'
      BY <2>2, <2>3, <2>5, Closed DEF WaitInv
    <3>2. \A u \in Turn : sock'[u] \in Early => sock[u] \in Early
      BY <2>1, <2>3, <2>5, Closed DEF WaitInv, Early
    <3> QED
      BY <2>2, <3>1, <3>2, StillTold DEF WaitInv
  <2>7. WaitEnds'
    BY <2>2 DEF WaitEnds, NoStream
  <2> QED
    BY <2>6, <2>7 DEF WaitInv
<1>2. CASE Stop \/ ClearAll
  BY <1>2, StoppedWaits DEF Stop, ClearAll
<1>3. CASE UNCHANGED <<streamVars, connVars, wireVars>>
  BY <1>3, AsideWaits DEF streamVars, connVars, wireVars
<1>4. CASE Create
  BY <1>3, <1>4 DEF Create
<1>5. ASSUME NEW c \in Chat, SwitchTo(c) \/ Remove(c) PROVE WaitInv'
  BY <1>3, <1>5, StoppedWaits DEF SwitchTo, Remove
<1> QED
  BY <1>1, <1>2, <1>4, <1>5 DEF Click

LEMMA EventWaits ==
    ASSUME Inv, WaitInv, NEW t \in Turn, Dispatch(t)
    PROVE  WaitInv'
<1> Told /\ WaitEnds /\ WireTypes /\ ConnTypes
  BY DEF WaitInv, Inv
<1> Live \in SUBSET Turn
  BY DEF Live, ConnTypes
<1>1. ASSUME sock[t] \in Early, down[t] # <<>>, Consume(t), NextFrame(t) \notin Verdict,
             UNCHANGED settled, sock' \in [Turn -> SockState],
             sock'[t] \notin {"closing", "failing"},
             \A u \in Turn \ {t} : sock'[u] = sock[u]
      PROVE  Told'
  <2>1. \A u \in Turn : \/ down'[u] = down[u]
                        \/ u = t /\ down[u] # <<>> /\ down'[u] = Tail(down[u])
    BY <1>1, Consumed
  <2>2. \A u \in Turn : sock'[u] \in {"closing", "failing"} => u \in settled'
    BY <1>1 DEF Told
  <2>3. \A u \in Turn : sock'[u] \in Early => sock[u] \in Early
    BY <1>1
  <2> QED
    BY <1>1, <2>1, <2>2, <2>3, StillTold
<1>2. CASE OnOpen(t)
  <2>1. /\ sock[t] = "connecting" /\ down[t] # <<>> /\ Consume(t) /\ NextFrame(t) = "open"
        /\ sock' = [sock EXCEPT ![t] = "open"]
        /\ UNCHANGED <<settled, timer, streaming, activeConn, failTimers>>
    BY <1>2 DEF OnOpen, Event, clientVars
  <2>2. /\ sock' \in [Turn -> SockState] /\ sock'[t] = "open"
        /\ \A u \in Turn \ {t} : sock'[u] = sock[u]
    BY <2>1 DEF WireTypes, SockState
  <2>3. Told'
    BY <1>1, <2>1, <2>2 DEF Early, Verdict
  <2>4. WaitEnds'
    BY <2>1, <2>2, Streams DEF WaitEnds
  <2> QED
    BY <2>3, <2>4 DEF WaitInv
<1>3. CASE OnToken(t) \/ OnCitation(t)
  <2>1. /\ sock[t] = "open" /\ down[t] # <<>> /\ Consume(t)
        /\ NextFrame(t) \in {"token", "citation"}
        /\ UNCHANGED <<sock, settled, timer, activeConn, failTimers>>
        /\ streaming'.status = streaming.status
    BY <1>3 DEF OnToken, OnCitation, Event, connVars, ConnTypes, StreamType
  <2>2. Told'
    BY <1>1, <2>1 DEF Early, Verdict, WireTypes
  <2>3. WaitEnds'
    BY <2>1 DEF WaitEnds
  <2> QED
    BY <2>2, <2>3 DEF WaitInv
<1>4. CASE OnDone(t)
  <2>1. /\ sock[t] = "open" /\ down[t] # <<>> /\ NextFrame(t) = "done" /\ Consume(t)
        /\ settled' = settled \cup {t} /\ UNCHANGED sock
    BY <1>4 DEF OnDone, Event, Settle
  <2>2. streaming' = NoStream
    BY <1>4, <2>1, Speaking DEF OnDone
  <2>3. \A u \in Turn \ {t} : down'[u] = down[u]
    BY <2>1 DEF Consume
  <2>4. Told'
    BY <2>1, <2>3, StillTold DEF Told
  <2>5. WaitEnds'
    BY <2>2 DEF WaitEnds, NoStream
  <2> QED
    BY <2>4, <2>5 DEF WaitInv
<1>5. CASE OnErrorFrame(t)
  <2>1. sock[t] = "open" /\ down[t] # <<>> /\ NextFrame(t) = "error" /\ Consume(t)
    BY <1>5 DEF OnErrorFrame, Event
  <2>2. FailStream({t}) /\ sock' = CloseSockets(Live)
    BY <1>5, <2>1, Speaking DEF OnErrorFrame, OnError
  <2>3. settled' = settled \cup Live \cup {t}
    BY <2>2 DEF FailStream
  <2>4. \A u \in Turn \ {t} : down'[u] = down[u]
    BY <2>1 DEF Consume
  <2>5. Told'
    BY <2>2, <2>3, <2>4, Closed, StillTold
  <2> QED
    BY <2>2, <2>5, FailedWaits DEF WaitInv
<1>6. CASE OnClose(t)
  <2>1. /\ sock[t] = "open" /\ down[t] # <<>> /\ NextFrame(t) = "end" /\ Consume(t)
        /\ sock' = [sock EXCEPT ![t] = "closed"] /\ timer' = timer \ {t}
        /\ UNCHANGED <<settled, streaming, activeConn, failTimers>>
    BY <1>6 DEF OnClose, Event, streamVars
  <2>2. /\ sock' \in [Turn -> SockState] /\ sock'[t] = "closed"
        /\ \A u \in Turn \ {t} : sock'[u] = sock[u]
    BY <2>1 DEF WireTypes, SockState
  <2>3. Told'
    BY <1>1, <2>1, <2>2 DEF Early, Verdict
  <2>4. ASSUME streaming.status = "streaming", t = activeConn PROVE Shutdowns
    <3>1. t \notin settled /\ down[t] \in Seq(FrameType)
      BY <2>4, Streams DEF WireTypes
    <3>2. down[t][1].event = "end"
      BY <2>1, <3>1 DEF NextFrame
    <3>3. ~Answered(down[t])
      BY <2>1, <3>1, <3>2, AnsweredRest DEF Verdict
    <3> QED
      BY <2>1, <3>1, <3>3, FaultsAssumption DEF Told, Early
  <2>5. WaitEnds'
    BY <2>1, <2>2, <2>4, Streams DEF WaitEnds
  <2> QED
    BY <2>3, <2>5 DEF WaitInv
<1>7. CASE OnClosed(t)
  <2>1. /\ sock[t] = "closing"
        /\ sock' = [sock EXCEPT ![t] = "closed"] /\ timer' = timer \ {t}
        /\ UNCHANGED <<down, settled, streaming, activeConn, failTimers>>
    BY <1>7 DEF OnClosed, streamVars
  <2>2. t \in settled
    BY <2>1 DEF Told
  <2>3. sock'[t] = "closed" /\ \A u \in Turn \ {t} : sock'[u] = sock[u]
    BY <2>1 DEF WireTypes
  <2>4. Told'
    BY <2>1, <2>3 DEF Told, Early
  <2>5. WaitEnds'
    BY <2>1, <2>2, <2>3, Streams DEF WaitEnds
  <2> QED
    BY <2>4, <2>5 DEF WaitInv
<1>8. CASE OnConnectError(t) /\ Owned(t)
  <2>1. FailStream({t}) /\ sock' = [CloseSockets(Live) EXCEPT ![t] = "failed"] /\ UNCHANGED down
    BY <1>8 DEF OnConnectError
  <2>2. CloseSockets(Live) \in [Turn -> SockState]
    BY Closing DEF WireTypes
  <2>3. sock'[t] = "failed" /\ \A u \in Turn \ {t} : sock'[u] = CloseSockets(Live)[u]
    BY <2>1, <2>2
  <2>4. settled' = settled \cup Live \cup {t}
    BY <2>1 DEF FailStream
  <2>5. Told'
    <3>1. \A u \in Turn : sock'[u] \in {"closing", "failing"} => u \in settled'
      BY <2>3, <2>4, Closed
    <3>2. \A u \in Turn : sock'[u] \in Early => sock[u] \in Early
      BY <2>3, Closed DEF Early
    <3> QED
      BY <2>1, <2>4, <3>1, <3>2, StillTold
  <2> QED
    BY <2>1, <2>5, FailedWaits DEF WaitInv
<1>9. CASE OnConnectError(t) /\ ~Owned(t)
  <2>1. /\ settled' = settled \cup {t} /\ timer' = timer \ {t}
        /\ sock' = [sock EXCEPT ![t] = "failed"]
        /\ UNCHANGED <<streaming, activeConn, failTimers, down>>
    BY <1>9 DEF OnConnectError, streamVars
  <2>2. sock'[t] = "failed" /\ \A u \in Turn \ {t} : sock'[u] = sock[u]
    BY <2>1 DEF WireTypes
  <2>3. Told'
    BY <2>1, <2>2 DEF Told, Early
  <2>4. WaitEnds'
    BY <1>9, <2>1, <2>2, Streams DEF WaitEnds
  <2> QED
    BY <2>3, <2>4 DEF WaitInv
<1> QED
  BY <1>2, <1>3, <1>4, <1>5, <1>6, <1>7, <1>8, <1>9 DEF Dispatch

LEMMA TimerWaits ==
    ASSUME Inv, WaitInv, NEW t \in Turn, ConnectTimeout(t)
    PROVE  WaitInv'
<1> Told /\ WaitEnds
  BY DEF WaitInv
<1> Live \in SUBSET Turn
  BY DEF Live, Inv, ConnTypes
<1>1. CASE Owned(t)
  <2>1. FailStream({t}) /\ sock' = CloseSockets(Live \cup {t}) /\ UNCHANGED down
    BY <1>1 DEF ConnectTimeout
  <2>2. settled' = settled \cup Live \cup {t}
    BY <2>1 DEF FailStream
  <2>3. Live \cup {t} \in SUBSET Turn
    OBVIOUS
  <2>4. Told'
    BY <2>1, <2>2, <2>3, Closed, StillTold
  <2> QED
    BY <2>1, <2>4, FailedWaits DEF WaitInv
<1>2. CASE ~Owned(t)
  <2>1. /\ settled' = settled \cup {t} /\ timer' = timer \ {t}
        /\ sock' = CloseSockets({t})
        /\ UNCHANGED <<down, streaming, activeConn, failTimers>>
    BY <1>2 DEF ConnectTimeout, Abort, streamVars
  <2>2. {t} \in SUBSET Turn
    OBVIOUS
  <2>3. Told'
    BY <2>1, <2>2, Closed, StillTold
  <2>4. \A u \in Turn \ {t} : sock'[u] = sock[u]
    BY <2>1, <2>2, Closed
  <2>5. WaitEnds'
    BY <1>2, <2>1, <2>4, Streams DEF WaitEnds
  <2> QED
    BY <2>3, <2>5 DEF WaitInv
<1> QED
  BY <1>1, <1>2

LEMMA PageWaits ==
    ASSUME Inv, WaitInv, Page
    PROVE  WaitInv'
<1> Told /\ WaitEnds
  BY DEF WaitInv
<1>1. CASE ClearError
  <2>1. /\ failTimers > 0 /\ failTimers' = failTimers - 1
        /\ streaming' = IF streaming.status = "error" THEN NoStream ELSE streaming
        /\ UNCHANGED <<sock, down, settled, timer, activeConn>>
    BY <1>1 DEF ClearError, wireVars, connVars
  <2>2. Told'
    BY <2>1 DEF Told
  <2>3. WaitEnds'
    BY <2>1 DEF WaitEnds, NoStream
  <2> QED
    BY <2>2, <2>3 DEF WaitInv
<1>2. CASE Reload
  <2>1. /\ streaming' = NoStream
        /\ settled' = {t \in Turn : sock[t] # "none"}
        /\ sock' = [t \in Turn |->
              CASE sock[t] \in {"connecting", "failing"} -> "failed"
                [] sock[t] \in {"open", "closing"} -> "closed"
                [] OTHER -> sock[t]]
        /\ UNCHANGED down
    BY <1>2 DEF Reload
  <2>2. settled \subseteq settled'
    BY <2>1 DEF Inv, Orderly, ConnTypes
  <2>3. \A t \in Turn : /\ sock'[t] \notin {"closing", "failing"}
                        /\ sock'[t] \in Early => sock[t] \in Early
    BY <2>1 DEF Early
  <2>4. Told'
    BY <2>1, <2>2, <2>3, StillTold
  <2>5. WaitEnds'
    BY <2>1 DEF WaitEnds, NoStream
  <2> QED
    BY <2>4, <2>5 DEF WaitInv
<1> QED
  BY <1>1, <1>2, ClickWaits, EventWaits, TimerWaits DEF Page

\* What a handler sends is announced before it ends.
LEMMA AnsweredFrames ==
    /\ Answered(<<>>)
    /\ \A event \in {"open", "token", "citation"}, size \in Nat :
          Answered(<<Frame(event, size)>>)
    /\ \A event \in Verdict : Answered(<<Frame(event, 0), Frame("end", 0)>>)
BY DEF Answered, Frame, Verdict

LEMMA HandleSends ==
    ASSUME NEW t \in Turn, Handle(t)
    PROVE  \/ UNCHANGED down
           \/ \E frames \in Seq(FrameType) :
                 Answered(frames) /\ down' = [down EXCEPT ![t] = @ \o frames]
<1> DEFINE Says == \E frames \in Seq(FrameType) :
                      Answered(frames) /\ down' = [down EXCEPT ![t] = @ \o frames]
<1>1. /\ \A event \in {"open", "token", "citation"}, size \in Nat :
            <<Frame(event, size)>> \in Seq(FrameType)
      /\ \A event \in Verdict : <<Frame(event, 0), Frame("end", 0)>> \in Seq(FrameType)
      /\ <<>> \in Seq(FrameType)
  BY DEF Frame, FrameType, Verdict
<1>2. CASE Accept(t)
  BY <1>1, <1>2, AnsweredFrames DEF Accept, Transmit
<1>3. CASE Refuse(t)
  BY <1>1, <1>3, AnsweredFrames DEF Refuse, Transmit, Verdict
<1>4. CASE Answer(t)
  <2>1. PICK size \in ReplySize :
          Transmit(t, IF size > 0 THEN <<Frame("token", size)>> ELSE <<>>)
    BY <1>4 DEF Answer
  <2>2. size \in Nat
    BY SizesAssumption
  <2> QED
    BY <1>1, <2>1, <2>2, AnsweredFrames DEF Transmit
<1>5. CASE Cite(t)
  BY <1>1, <1>5, AnsweredFrames DEF Cite, Transmit
<1>6. CASE Finish(t)
  BY <1>1, <1>6, AnsweredFrames DEF Finish, Transmit, Verdict
<1>7. CASE AgentError(t)
  BY <1>1, <1>7, AnsweredFrames DEF AgentError, Transmit, Verdict
<1> QED
  BY <1>2, <1>3, <1>4, <1>5, <1>6, <1>7 DEF Handle, StartAgent, Disconnected, wireVars

LEMMA ServerWaits ==
    ASSUME Inv, WaitInv, Server
    PROVE  WaitInv'
<1> Told /\ WaitEnds
  BY DEF WaitInv
<1>1. UNCHANGED <<streaming, activeConn, failTimers, timer, settled>>
  BY DEF Server, clientVars
<1>2. UNCHANGED sock
  BY <1>1, HandleStep, ShutdownStep DEF Server
<1>3. WaitEnds'
  BY <1>1, <1>2 DEF WaitEnds
<1>4. Told'
  <2>1. CASE Shutdowns
    BY <2>1, <1>1, <1>2 DEF Told
  <2>2. ASSUME NEW t \in Turn, Handle(t), NEW u \in Turn, Answered(down[u])
        PROVE  Answered(down'[u])
    <3>1. CASE UNCHANGED down
      BY <2>2, <3>1
    <3>2. ASSUME NEW frames \in Seq(FrameType), Answered(frames),
                 down' = [down EXCEPT ![t] = @ \o frames]
          PROVE  Answered(down'[u])
      <4>1. down \in [Turn -> Seq(FrameType)]
        BY DEF Inv, WireTypes
      <4>2. Answered(down[u] \o frames)
        BY <2>2, <3>2, <4>1, AnsweredAfter
      <4>3. down'[u] = IF u = t THEN down[u] \o frames ELSE down[u]
        BY <3>2, <4>1
      <4> QED
        BY <2>2, <4>2, <4>3
    <3> QED
      BY <2>2, <3>1, <3>2, HandleSends
  <2>3. CASE ~Shutdowns
    BY <2>2, <2>3, <1>1, <1>2 DEF Told, Server
  <2> QED
    BY <2>1, <2>3
<1> QED
  BY <1>3, <1>4 DEF WaitInv

\* While the page waits, a timer is pending that ends the wait, for any number of
\* turns and however sends, errors, stops and timeouts interleave: the 90 s of
\* the connection that streams (ws.ts), the 4 s of a failure (_failStreaming).
\* Only a server that is stopped leaves the page without one.
THEOREM WaitsAlwaysEnd == Spec => []WaitEnds
<1>1. Init => WaitInv
  <2> SUFFICES ASSUME Init PROVE WaitInv
    OBVIOUS
  <2>1. /\ sock = [t \in Turn |-> "none"] /\ down = [t \in Turn |-> <<>>]
        /\ streaming = NoStream
    BY DEF Init, WireInit, ClientInit
  <2>2. Told
    BY <2>1, AnsweredFrames DEF Told
  <2>3. WaitEnds
    BY <2>1 DEF WaitEnds, NoStream
  <2> QED
    BY <2>2, <2>3 DEF WaitInv
<1>2. Inv /\ WaitInv /\ [Next]_vars => WaitInv'
  <2> SUFFICES ASSUME Inv, WaitInv, [Next]_vars PROVE WaitInv'
    OBVIOUS
  <2>1. CASE UNCHANGED vars
    BY <2>1, AsideWaits DEF vars
  <2> QED
    BY <2>1, PageWaits, ServerWaits DEF Next
<1>3. WaitInv => WaitEnds
  BY DEF WaitInv
<1> QED
  BY <1>1, <1>2, <1>3, Invariance, PTL DEF Spec
===============================================================================

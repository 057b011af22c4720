------------------------------ MODULE AgentTurn -------------------------------
(***************************************************************************)
(* One turn of the agent: the graph of agent/graph.py with its one tool    *)
(* (agent/tools.py), and what app/routes_chat.py makes of the messages it  *)
(* ends with: the answer without the model's reasoning, and the sources of *)
(* this turn's searches (rag/citations.py).                                *)
(*                                                                         *)
(* A text is a sequence of tokens: the opening or closing tag of one of    *)
(* the kinds in _REASONING_PAIRS, the first or second half of such a tag,  *)
(* white space, or a piece of anything else.  Halves that stand together   *)
(* are a tag, also where the substitution has brought them together.  The  *)
(* path of a document is the sequence of its names, and may be missing, as *)
(* may its page.  The model and the retriever are choices.                 *)
(***************************************************************************)
EXTENDS Naturals, Sequences, FiniteSets

CONSTANTS
    Histories,   \* what the page sends: its questions and answers, a question last
    Replies,     \* what the model may answer
    Asides,      \* what it may say beside a call of the tool
    Found,       \* what a search may return, nothing included
    MaxCalls,    \* bound: calls of the tool in one message of the model
    MaxSteps,    \* recursion_limit of the graph, in rounds of model and tool
    NoPage,      \* the page of a document that has none
    UnknownFile  \* "(unknown)", the file name of a document without a path

Token == [is : {"open", "open1", "open2", "close", "close1", "close2", "blank", "text"},
          of : STRING]
Document == [source : Seq(STRING), page : Nat \cup {NoPage}]
Message == [kind : {"human", "ai", "tool"}, content : Seq(Token), docs : Seq(Document)]

Human(content) == [kind |-> "human", content |-> content, docs |-> <<>>]
Ai(content)    == [kind |-> "ai", content |-> content, docs |-> <<>>]
Tool(docs)     == [kind |-> "tool", content |-> <<>>, docs |-> docs]

ASSUME ModelAssumption ==
    /\ Replies \subseteq Seq(Token)
    /\ Asides \subseteq Seq(Token)
    /\ MaxCalls \in Nat /\ MaxSteps \in Nat

ASSUME SearchAssumption == Found \subseteq Seq(Document)

ASSUME PageAssumption == NoPage \notin Nat /\ UnknownFile \in STRING

\* There is no message of the tool but those of the turn: the graph runs without
\* a checkpointer.
ASSUME HistoriesAssumption ==
    \A history \in Histories :
        /\ history \in Seq(Message)
        /\ history # <<>>
        /\ \A i \in DOMAIN history : history[i].kind # "tool" /\ history[i].docs = <<>>
        /\ history[Len(history)].kind = "human"

VARIABLES
    messages,    \* the state of the graph
    phase,       \* where the coroutine of the handler is
    pending,     \* calls of the tool still to be answered
    steps,       \* rounds so far
    show,        \* show_reasoning, of the request or of the settings
    sent,        \* the frames the handler sent
    found        \* history: file name and page of all that this turn's searches gave

vars == <<messages, phase, pending, steps, show, sent, found>>

LastOf(S) == CHOOSE i \in S \cup {0} : \A j \in S : j <= i
FirstOf(S) == CHOOSE i \in S : \A j \in S : i <= j

\* The tokens of c at the positions in S.
Only(c, S) ==
    LET pick[i \in 0 .. Len(c)] ==
          IF i = 0 THEN <<>>
          ELSE IF i \in S THEN Append(pick[i - 1], c[i]) ELSE pick[i - 1]
    IN pick[Len(c)]

-------------------------------------------------------------------------------
(* The answer.                                                             *)

\* An opening tag begins at i, whole or in two halves.
Opened(c, i) ==
    \/ c[i].is = "open"
    \/ i + 1 \in DOMAIN c /\ c[i].is = "open1" /\ c[i + 1] = [is |-> "open2", of |-> c[i].of]

\* A closing tag ends at j.
Closed(c, j) ==
    \/ c[j].is = "close"
    \/ j - 1 \in DOMAIN c /\ c[j].is = "close2" /\ c[j - 1] = [is |-> "close1", of |-> c[j].of]

Closes(c, i, j) == i < j /\ c[i].of = c[j].of /\ Opened(c, i) /\ Closed(c, j)

\* Mutation of BlockEnd: a block has no other tag in it.
BlockEndFlat(c, i) ==
    LET ends == {j \in DOMAIN c : Closes(c, i, j) /\ \A k \in i + 1 .. j - 1 : c[k].is # "open"}
    IN IF ends = {} THEN 0 ELSE FirstOf(ends)

\* Mutation of BlockEnd: the match is greedy.
BlockEndGreedy(c, i) ==
    LET ends == {j \in DOMAIN c : Closes(c, i, j)} IN LastOf(ends)

\* Where the block that opens at i ends: at the first tag that closes it; 0 if
\* there is none.
BlockEnd(c, i) ==
    LET ends == {j \in DOMAIN c : Closes(c, i, j)}
    IN IF ends = {} THEN 0 ELSE FirstOf(ends)

\* What the substitution leaves, from the left and in one pass: an opening tag
\* takes everything up to the end of its block with it, and a tag that this
\* brings together is not looked at again.  gone[i] is the end of the last
\* block that opens at i or before.
Unblocked(c) ==
    LET gone[i \in 0 .. Len(c)] ==
          IF i = 0 THEN 0
          ELSE IF gone[i - 1] < i /\ BlockEnd(c, i) > i THEN BlockEnd(c, i) ELSE gone[i - 1]
    IN {i \in DOMAIN c : gone[i] < i}

\* strip()
Trimmed(c, S) ==
    LET solid == {i \in S : c[i].is # "blank"}
    IN {i \in S : \E j, k \in solid : j <= i /\ i <= k}

StripReasoning(c) == IF show THEN c ELSE Only(c, Trimmed(c, Unblocked(c)))

LastAnswer == messages[LastOf({i \in DOMAIN messages : messages[i].kind = "ai"})].content

-------------------------------------------------------------------------------
(* The sources.                                                            *)

SourceOf(cite) == <<cite.filename, cite.page>>

\* os.path.basename, and what a document without a path or a page counts as.
FileName(doc) == IF doc.source = <<>> THEN UnknownFile ELSE doc.source[Len(doc.source)]
PageOf(doc)   == IF doc.page = NoPage THEN 0 ELSE doc.page

\* to_citations: numbered within one search.
ToCitations(docs) ==
    [i \in DOMAIN docs |->
        [index |-> i, filename |-> FileName(docs[i]), page |-> PageOf(docs[i])]]

\* The last question.
TurnStart == LastOf({i \in DOMAIN messages : messages[i].kind = "human"})

\* Mutation of AddCitation: one source a file.
AddCitationOfFile(list, cite) ==
    IF \E i \in DOMAIN list : list[i].filename = cite.filename THEN list ELSE Append(list, cite)

\* The first citation of a page of a file stays.
AddCitation(list, cite) ==
    IF \E i \in DOMAIN list : SourceOf(list[i]) = SourceOf(cite) THEN list ELSE Append(list, cite)

\* The citations of one message, to those of the messages before it.
AddAll(list, cites) ==
    LET add[n \in 0 .. Len(cites)] ==
          IF n = 0 THEN list ELSE AddCitation(add[n - 1], cites[n])
    IN add[Len(cites)]

Citations ==
    LET turn == SubSeq(messages, TurnStart + 1, Len(messages))
        cited[n \in 0 .. Len(turn)] ==
          IF n = 0 THEN <<>> ELSE AddAll(cited[n - 1], ToCitations(turn[n].docs))
    IN cited[Len(turn)]

-------------------------------------------------------------------------------
(* The loop of model and tool.                                             *)

\* Mutation of CallTool: the graph has no limit.
CallToolAlways ==
    /\ phase = "model"
    /\ \E content \in Asides, n \in 1 .. MaxCalls :
          messages' = Append(messages, Ai(content)) /\ pending' = n
    /\ phase' = "tools"
    /\ steps' = steps + 1
    /\ UNCHANGED <<show, sent, found>>

\* The model calls search_documents, several times at once if it likes.
CallTool ==
    /\ phase = "model"
    /\ steps < MaxSteps
    /\ \E content \in Asides, n \in 1 .. MaxCalls :
          messages' = Append(messages, Ai(content)) /\ pending' = n
    /\ phase' = "tools"
    /\ steps' = steps + 1
    /\ UNCHANGED <<show, sent, found>>

\* The tool returns; or raises and the tool node makes a message without
\* documents of it.
Search ==
    /\ phase = "tools"
    /\ \E docs \in Found :
          /\ messages' = Append(messages, Tool(docs))
          /\ found' = found \cup {<<FileName(docs[i]), PageOf(docs[i])>> : i \in DOMAIN docs}
    /\ pending' = pending - 1
    /\ phase' = IF pending = 1 THEN "model" ELSE "tools"
    /\ UNCHANGED <<steps, show, sent>>

\* The model answers; when it would go on at the limit, the graph answers for it.
Answer ==
    /\ phase = "model"
    /\ \E content \in Replies : messages' = Append(messages, Ai(content))
    /\ phase' = "answer"
    /\ UNCHANGED <<pending, steps, show, sent, found>>

-------------------------------------------------------------------------------
(* The frames.                                                             *)

Transmit(event, data) == sent' = Append(sent, [event |-> event, data |-> data])

\* Mutation of SendAnswer: an answer of which nothing is left is sent.
SendAnswerAlways ==
    /\ phase = "answer"
    /\ Transmit("token", StripReasoning(LastAnswer))
    /\ phase' = "cite"
    /\ UNCHANGED <<messages, pending, steps, show, found>>

SendAnswer ==
    /\ phase = "answer"
    /\ LET answer == StripReasoning(LastAnswer)
       IN IF answer # <<>> THEN Transmit("token", answer) ELSE UNCHANGED sent
    /\ phase' = "cite"
    /\ UNCHANGED <<messages, pending, steps, show, found>>

SendCitations ==
    /\ phase = "cite"
    /\ IF Citations # <<>> THEN Transmit("citation", Citations) ELSE UNCHANGED sent
    /\ phase' = "done"
    /\ UNCHANGED <<messages, pending, steps, show, found>>

SendDone ==
    /\ phase = "done"
    /\ Transmit("done", <<>>)
    /\ phase' = "ended"
    /\ UNCHANGED <<messages, pending, steps, show, found>>

\* The model cannot be reached, times out, or refuses; the graph raises; or what
\* comes of it is no text, or has a page that is no number.
TurnRaises ==
    /\ phase \in {"model", "tools", "answer", "cite"}
    /\ Transmit("error", <<>>)
    /\ phase' = "ended"
    /\ pending' = 0
    /\ UNCHANGED <<messages, steps, show, found>>

Init ==
    /\ messages \in Histories
    /\ phase = "model"
    /\ pending = 0
    /\ steps = 0
    /\ show \in BOOLEAN
    /\ sent = <<>>
    /\ found = {}

Next ==
    \/ CallTool \/ Search \/ Answer \/ TurnRaises
    \/ SendAnswer \/ SendCitations \/ SendDone

Spec == Init /\ [][Next]_vars

-------------------------------------------------------------------------------
\* The type of every variable.
TypeOK ==
    /\ \A i \in DOMAIN messages : messages[i].kind \in {"human", "ai", "tool"}
    /\ phase \in {"model", "tools", "answer", "cite", "done", "ended"}
    /\ pending \in 0 .. MaxCalls
    /\ phase = "tools" <=> pending > 0
    /\ steps \in 0 .. MaxSteps
    /\ show \in BOOLEAN
    /\ \A i \in DOMAIN sent : sent[i].event \in {"token", "citation", "done", "error"}

SentAs(event) == {sent[i].data : i \in {j \in DOMAIN sent : sent[j].event = event}}

\* No block of the answer is shown (unless it is asked for): the user sees no
\* opening tag of the answer with a tag behind it that closes it, also of blocks
\* one in another or that overlap.  Two things are shown all the same: a block
\* whose tag the substitution has brought together, and the rest of an outer
\* block of the same kind behind the first tag that closes it.
ReasoningHidden ==
    ~show => \A data \in SentAs("token") :
               \E S \in SUBSET DOMAIN LastAnswer :
                  /\ data = Only(LastAnswer, S)
                  /\ ~\E i, j \in S : Closes(LastAnswer, i, j)

InBlock(c, i) ==
    \E a, b \in DOMAIN c :
        /\ a <= i /\ i <= b
        /\ Closes(c, a, b)
        /\ ~\E d \in a .. b - 1 : Closes(c, a, d)

Outside(c) == {i \in DOMAIN c : c[i].is # "blank" /\ (show \/ ~InBlock(c, i))}

\* Nothing of the answer is lost beside its blocks (routes_chat.py: so we never
\* silently lose content), an unclosed one included; and what is shown is of the
\* last message of the model and in its order.
AnswerKept ==
    phase \in {"cite", "done"} =>
        IF SentAs("token") = {} THEN Outside(LastAnswer) = {}
        ELSE \A data \in SentAs("token") :
               \E S \in SUBSET DOMAIN LastAnswer :
                  Outside(LastAnswer) \subseteq S /\ data = Only(LastAnswer, S)

\* The sources shown are what this turn's searches found, each page once however
\* many searches found it.  A page is known by the name of its file: of files of
\* one name in two directories one is shown, and so is a document without a path.
CitesTheSearches ==
    phase = "done" =>
        LET cited == UNION {{SourceOf(data[i]) : i \in DOMAIN data} : data \in SentAs("citation")}
        IN /\ cited = found
           /\ \A data \in SentAs("citation") : Len(data) = Cardinality(found)

-------------------------------------------------------------------------------
(* The handler of ChatServer, which has one choice where this module has a *)
(* turn of the agent.                                                      *)

\* The coroutine returns after its last frame, which ends the connection.
Frames ==
    [i \in DOMAIN sent |->
        [event |-> sent[i].event, size |-> IF sent[i].event = "token" THEN Len(sent[i].data) ELSE 0]]
    \o IF phase = "ended" THEN <<[event |-> "end", size |-> 0]>> ELSE <<>>

HandlerOf ==
    CASE phase \in {"model", "tools", "answer"} -> "agent"
      [] OTHER -> phase

\* Of an answer any part may be left.
Sizes == UNION {0 .. Len(content) : content \in Replies}

Endpoint == INSTANCE ChatServer
                WITH MaxTurns <- 1, MaxItem <- 0, MaxHistory <- 0,
                     ReplySize <- Sizes,
                     sock <- <<"open">>, up <- << <<>> >>, down <- <<Frames>>,
                     handler <- <<HandlerOf>>

\* The frames of a turn come as the handler of ChatServer may send them: at most
\* one token frame, not empty, then at most one of sources, then done; or an error.
ImplementsEndpoint == [][Endpoint!Handle(1)]_<<HandlerOf, Frames>>
===============================================================================

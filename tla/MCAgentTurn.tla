----------------------------- MODULE MCAgentTurn ------------------------------
(* A small instance of AgentTurn. *)
EXTENDS AgentTurn

CONSTANTS MaxLength      \* of the model's messages, in tokens

Tags == [is : {"open", "close"}, of : {"think", "plan"}]
Blank == [is |-> "blank", of |-> ""]
Piece(n) == [is |-> "text", of |-> <<"p1", "p2", "p3", "p4", "p5", "before">>[n]]

TextsOver(tokens, n) ==
    {c \in [1 .. n -> tokens \cup {Piece(i) : i \in 1 .. n}] :
        /\ \A i \in 1 .. n : c[i].is = "text" => c[i] = Piece(i)
        \* The kinds of tags are alike: think comes first.
        /\ \A i \in 1 .. n : c[i].of = "plan" => \E j \in 1 .. i : c[j].of = "think"}

\* Each piece of text is of its own.
Texts == UNION {TextsOver(Tags \cup {Blank}, n) : n \in 0 .. MaxLength - 1} \cup TextsOver(Tags, MaxLength)

\* Halves of tags, about a block that is removed and beside each other.
Half == [is : {"open1", "open2", "close1", "close2"}, of : {"think"}]
Whole(is, of) == [is |-> is, of |-> of]
Parted ==
    {LET block == <<Whole("open", kind), Whole("close", kind)>>
     IN IF first THEN <<a>> \o block \o <<b, d>> ELSE <<d, a>> \o block \o <<b>> :
        kind \in {"think", "plan"}, first \in BOOLEAN,
        a, b \in Half, d \in Half \cup {Whole("open", "think"), Whole("close", "think")}}

Answers == Texts \cup Parted

OneAside == {<<Piece(6)>>}

Page(source, page) == [source |-> source, page |-> page]
SmallFound ==
    {<<Page(<<"x", "a">>, 0), Page(<<"x", "a">>, 1)>>,
     <<Page(<<"y", "a">>, 1), Page(<<>>, NoPage)>>}

SmallHistories == {<<Human(<<>>), Ai(<<Piece(6)>>), Human(<<>>)>>}
===============================================================================

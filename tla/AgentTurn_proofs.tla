-------------------------- MODULE AgentTurn_proofs --------------------------
(***************************************************************************)
(* Proofs about AgentTurn.  The library's theorems on induction and on     *)
(* recursive functions take an operator as a parameter; what is needed of  *)
(* them is proved here for sets of numbers (UpTo) and for steps that are   *)
(* functions (Recursion), from the least element of a set.                 *)
(*                                                                         *)
(* The operators on texts and on sources come first, with what each of     *)
(* them computes for any argument, then the invariant, from which the      *)
(* properties of the turn follow, and the refinement of the handler of     *)
(* ChatServer last.                                                        *)
(***************************************************************************)
EXTENDS AgentTurn, FunctionTheorems, FiniteSetTheorems, SequenceTheorems, WellFoundedInduction, TLAPS

-------------------------------------------------------------------------------
(* Induction, for sets of numbers.                                         *)

\* A set of natural numbers that is not empty has a least element.
LEMMA LeastOfSet ==
    ASSUME NEW S, S \subseteq Nat, S # {}
    PROVE  \E n \in S : \A m \in S : n <= m
<1> DEFINE R == {ss \in Nat \X Nat : ss[1] < ss[2]}
<1>1. IsWellFoundedOn(R, Nat)
  BY NatLessThanWellFounded DEF OpToRel
<1>2. PICK n \in S : \A m \in S : ~ (<<m, n>> \in R)
  <2> HIDE DEF R
  <2> QED BY <1>1, WFMin
<1>3. \A m \in S : ~ (m < n)
  BY <1>2
<1> QED BY <1>3

\* A set with 0 that has the successor of whatever it has, up to n, has all up to n.
LEMMA UpTo ==
    ASSUME NEW n \in Nat, NEW S, 0 \in S,
           \A i \in 1 .. n : i - 1 \in S => i \in S
    PROVE  0 .. n \subseteq S
<1> SUFFICES ASSUME (0 .. n) \ S # {} PROVE FALSE
  OBVIOUS
<1>1. PICK i \in (0 .. n) \ S : \A j \in (0 .. n) \ S : i <= j
  <2>1. (0 .. n) \ S \subseteq Nat
    OBVIOUS
  <2> QED BY <2>1, LeastOfSet
<1>2. i \in 1 .. n /\ i - 1 \in 0 .. n /\ i - 1 < i
  BY <1>1
<1> QED BY <1>1, <1>2

Unfolds(g, n, a, step) == g[0] = a /\ \A i \in 1 .. n : g[i] = step[<<i, g[i - 1]>>]

\* A recursion over 0 .. n whose steps stay in a set has a solution, in that set.
LEMMA Recursion ==
    ASSUME NEW n \in Nat, NEW A, NEW a \in A, NEW step \in [(1 .. n) \X A -> A]
    PROVE  \E g \in [0 .. n -> A] : Unfolds(g, n, a, step)
<1> DEFINE Solves(m, g) == \A i \in 0 .. m : g[i] = IF i = 0 THEN a ELSE step[<<i, g[i - 1]>>]
           S == {m \in 0 .. n : \E g \in [0 .. m -> A] : Solves(m, g)}
<1>1. 0 \in S
  <2> DEFINE g == [i \in 0 .. 0 |-> a]
  <2>1. g \in [0 .. 0 -> A]
    OBVIOUS
  <2>2. Solves(0, g)
    OBVIOUS
  <2>3. 0 \in 0 .. n
    OBVIOUS
  <2> QED BY <2>1, <2>2, <2>3
<1>2. ASSUME NEW m \in 1 .. n, m - 1 \in S PROVE m \in S
  <2>1. PICK g \in [0 .. m - 1 -> A] : Solves(m - 1, g)
    BY <1>2
  <2> DEFINE h == [i \in 0 .. m |-> IF i = m THEN step[<<m, g[m - 1]>>] ELSE g[i]]
  <2>2. g[m - 1] \in A /\ step[<<m, g[m - 1]>>] \in A
    BY <2>1
  <2>3. h \in [0 .. m -> A]
    BY <2>1, <2>2
  <2>4. h[m] = step[<<m, g[m - 1]>>]
    OBVIOUS
  <2>5. \A i \in 0 .. m - 1 : h[i] = g[i]
    OBVIOUS
  <2>6. Solves(m, h)
    <3> HIDE DEF h
    <3> SUFFICES ASSUME NEW i \in 0 .. m
                 PROVE  h[i] = IF i = 0 THEN a ELSE step[<<i, h[i - 1]>>]
      OBVIOUS
    <3>1. i # 0 => h[i - 1] = g[i - 1]
      BY <2>5
    <3>2. CASE i = m
      <4>1. m # 0 /\ h[m - 1] = g[m - 1]
        BY <3>1, <3>2
      <4>2. h[m] = step[<<m, h[m - 1]>>]
        BY <4>1, <2>4
      <4> QED BY <3>2, <4>1, <4>2
    <3>3. CASE i # m
      <4>1. i \in 0 .. m - 1
        BY <3>3
      <4>2. h[i] = g[i] /\ g[i] = IF i = 0 THEN a ELSE step[<<i, g[i - 1]>>]
        BY <4>1, <2>5, <2>1
      <4> QED BY <4>2, <3>1
    <3> QED BY <3>2, <3>3
  <2>7. m \in 0 .. n
    OBVIOUS
  <2> HIDE DEF h, Solves
  <2> QED BY <2>3, <2>6, <2>7
<1>3. n \in S
  <2> HIDE DEF S
  <2> QED BY <1>1, <1>2, UpTo
<1>4. PICK g \in [0 .. n -> A] : Solves(n, g)
  BY <1>3
<1>5. 0 \in 0 .. n /\ \A i \in 1 .. n : i \in 0 .. n /\ i # 0
  OBVIOUS
<1> QED BY <1>4, <1>5 DEF Unfolds

-------------------------------------------------------------------------------
(* The operators on texts.                                                 *)

\* pick[i] is what Only takes of the first i tokens of c.
Picks(pick, c, S) ==
    pick = [i \in 0 .. Len(c) |->
              IF i = 0 THEN <<>>
              ELSE IF i \in S THEN Append(pick[i - 1], c[i]) ELSE pick[i - 1]]

\* The recursion of Only is well founded.
LEMMA OnlyPicks ==
    ASSUME NEW T, NEW c \in Seq(T), NEW S
    PROVE  \E pick :
              /\ pick[0] = <<>>
              /\ \A i \in 1 .. Len(c) :
                    pick[i] = IF i \in S THEN Append(pick[i - 1], c[i]) ELSE pick[i - 1]
              /\ Only(c, S) = pick[Len(c)]
<1>1. PICK n \in Nat : n = Len(c)
  OBVIOUS
<1> DEFINE A == Seq(T)
           none == <<>>
           taken == [p \in (1 .. n) \X A |-> IF p[1] \in S THEN Append(p[2], c[p[1]]) ELSE p[2]]
<1>2. none \in A /\ taken \in [(1 .. n) \X A -> A]
  <2> SUFFICES ASSUME NEW i \in 1 .. n, NEW s \in Seq(T)
               PROVE  (IF i \in S THEN Append(s, c[i]) ELSE s) \in Seq(T)
    OBVIOUS
  <2>1. c[i] \in T
    BY <1>1
  <2> QED BY <2>1
<1>3. PICK g \in [0 .. n -> A] : Unfolds(g, n, none, taken)
  <2> HIDE DEF taken, A, none
  <2> QED BY <1>2, Recursion
<1>4. ASSUME NEW i \in 1 .. n
      PROVE  g[i] = IF i \in S THEN Append(g[i - 1], c[i]) ELSE g[i - 1]
  <2>1. <<i, g[i - 1]>> \in (1 .. n) \X A
    BY <1>3
  <2>2. g[i] = taken[<<i, g[i - 1]>>]
    BY <1>3 DEF Unfolds
  <2> QED BY <2>1, <2>2
<1>5. Picks(g, c, S)
  <2>1. g = [i \in 0 .. n |-> g[i]]
    BY <1>3
  <2>2. \A i \in 0 .. n : i # 0 => i \in 1 .. n
    OBVIOUS
  <2> QED BY <1>1, <1>3, <1>4, <2>1, <2>2 DEF Picks, Unfolds
<1>6. PICK pick : Picks(pick, c, S) /\ Only(c, S) = pick[Len(c)]
  <2>1. Only(c, S) = (CHOOSE pick : Picks(pick, c, S))[Len(c)]
    BY DEF Only, Picks
  <2> QED BY <1>5, <2>1
<1>7. /\ 0 \in 0 .. n
      /\ \A i \in 1 .. n : i \in 0 .. n /\ i # 0
  BY <1>1
<1> QED BY <1>1, <1>6, <1>7 DEF Picks

\* What Only takes: every one of its tokens stands in c at a place of S, in the
\* order of c; it takes something if there is such a place; and it takes all if
\* every place is one.
LEMMA OnlyTakes ==
    ASSUME NEW T, NEW c \in Seq(T), NEW S
    PROVE  /\ Only(c, S) \in Seq(T)
           /\ Len(Only(c, S)) <= Len(c)
           /\ \A p \in DOMAIN Only(c, S) :
                 \E a \in S \cap DOMAIN c : Only(c, S)[p] = c[a]
           /\ \A p, q \in DOMAIN Only(c, S) : p < q =>
                 \E a, b \in S \cap DOMAIN c :
                     a < b /\ Only(c, S)[p] = c[a] /\ Only(c, S)[q] = c[b]
           /\ S \cap DOMAIN c # {} => Only(c, S) # <<>>
           /\ DOMAIN c \subseteq S => Only(c, S) = c
<1>0. PICK n \in Nat : n = Len(c)
  OBVIOUS
<1> DEFINE At(i) == S \cap (1 .. i)
           Good(i, s) ==
              /\ s \in Seq(T)
              /\ Len(s) <= i
              /\ \A p \in 1 .. Len(s) : \E a \in At(i) : s[p] = c[a]
              /\ \A p, q \in 1 .. Len(s) : p < q =>
                    \E a, b \in At(i) : a < b /\ s[p] = c[a] /\ s[q] = c[b]
              /\ At(i) # {} => s # <<>>
              /\ DOMAIN c \subseteq S => Len(s) = i /\ \A j \in 1 .. i : s[j] = c[j]
<1>1. PICK pick :
         /\ pick[0] = <<>>
         /\ \A i \in 1 .. n :
               pick[i] = IF i \in S THEN Append(pick[i - 1], c[i]) ELSE pick[i - 1]
         /\ Only(c, S) = pick[n]
  BY <1>0, OnlyPicks
<1> DEFINE U == {i \in 0 .. n : Good(i, pick[i])}
<1>2. 0 \in U
  <2>1. Good(0, <<>>)
    OBVIOUS
  <2>2. 0 \in 0 .. n
    OBVIOUS
  <2> QED BY <1>1, <2>1, <2>2
<1>3. ASSUME NEW i \in 1 .. n, i - 1 \in U PROVE i \in U
  <2> DEFINE s == pick[i - 1]
  <2>1. Good(i - 1, s)
    BY <1>3
  <2>2. pick[i] = IF i \in S THEN Append(s, c[i]) ELSE s
    BY <1>1
  <2>3. CASE i \notin S
    <3>1. pick[i] = s /\ At(i) = At(i - 1) /\ ~ (DOMAIN c \subseteq S)
      BY <2>2, <2>3, <1>0
    <3> HIDE DEF s, At
    <3>2. Good(i, s)
      BY <2>1, <3>1
    <3> QED BY SMTT(20), <3>1, <3>2
  <2>4. CASE i \in S
    <3> DEFINE t == Append(s, c[i])
    <3>1. pick[i] = t
      BY <2>2, <2>4
    <3>2. At(i) = At(i - 1) \cup {i} /\ c[i] \in T /\ i \in Nat
      BY <2>4, <1>0
    <3> HIDE DEF s
    <3>3. /\ t \in Seq(T) /\ Len(t) = Len(s) + 1
          /\ \A p \in 1 .. Len(s) : t[p] = s[p]
          /\ t[Len(s) + 1] = c[i] /\ t # <<>>
      BY <2>1, <3>2
    <3> HIDE DEF t
    <3>4. \A p \in 1 .. Len(t) : \E a \in At(i) : t[p] = c[a]
      <4> TAKE p \in 1 .. Len(t)
      <4>1. CASE p = Len(t)
        BY <3>2, <3>3, <2>1, <4>1
      <4>2. CASE p # Len(t)
        <5>1. p \in 1 .. Len(s) /\ t[p] = s[p]
          BY <3>3, <4>2, <2>1
        <5>2. PICK a \in At(i - 1) : s[p] = c[a]
          BY <2>1, <5>1
        <5> QED BY <5>1, <5>2, <3>2
      <4> QED BY <4>1, <4>2
    <3>5. \A p, q \in 1 .. Len(t) : p < q =>
             \E a, b \in At(i) : a < b /\ t[p] = c[a] /\ t[q] = c[b]
      <4> SUFFICES ASSUME NEW p \in 1 .. Len(t), NEW q \in 1 .. Len(t), p < q
                   PROVE  \E a, b \in At(i) : a < b /\ t[p] = c[a] /\ t[q] = c[b]
        OBVIOUS
      <4>1. p \in 1 .. Len(s) /\ t[p] = s[p]
        BY <3>3, <2>1
      <4>2. CASE q = Len(t)
        <5>1. PICK a \in At(i - 1) : s[p] = c[a]
          BY <2>1, <4>1
        <5>2. a < i /\ a \in At(i) /\ i \in At(i) /\ t[q] = c[i]
          BY <5>1, <4>2, <3>2, <3>3
        <5> QED BY <5>1, <5>2, <4>1
      <4>3. CASE q # Len(t)
        <5>1. q \in 1 .. Len(s) /\ t[q] = s[q]
          BY <3>3, <4>3, <2>1
        <5>2. PICK a \in At(i - 1), b \in At(i - 1) : a < b /\ s[p] = c[a] /\ s[q] = c[b]
          BY <2>1, <4>1, <5>1
        <5> QED BY <4>1, <5>1, <5>2, <3>2
      <4> QED BY <4>2, <4>3
    <3>6. DOMAIN c \subseteq S => Len(t) = i /\ \A j \in 1 .. i : t[j] = c[j]
      <4> SUFFICES ASSUME DOMAIN c \subseteq S
                   PROVE  Len(t) = i /\ \A j \in 1 .. i : t[j] = c[j]
        OBVIOUS
      <4>1. Len(s) = i - 1 /\ \A j \in 1 .. i - 1 : s[j] = c[j]
        BY <2>1
      <4>2. \A j \in 1 .. i : j = i \/ j \in 1 .. i - 1
        OBVIOUS
      <4> QED BY <4>1, <4>2, <3>3
    <3> HIDE DEF At
    <3>7. Good(i, t)
      BY <3>2, <3>3, <3>4, <3>5, <3>6, <2>1
    <3> QED BY SMTT(20), <3>1, <3>7
  <2> QED BY <2>3, <2>4
<1>4. Good(n, Only(c, S))
  <2>1. n \in U
    <3> HIDE DEF U
    <3>1. 0 .. n \subseteq U
      BY <1>2, <1>3, UpTo
    <3>2. n \in 0 .. n
      OBVIOUS
    <3> QED BY <3>1, <3>2
  <2> HIDE DEF Good
  <2>2. Good(n, pick[n])
    BY <2>1
  <2> QED BY <2>2, <1>1
<1>5. DOMAIN c = 1 .. n /\ At(n) = S \cap DOMAIN c
  BY <1>0
<1>6. Only(c, S) \in Seq(T) /\ DOMAIN Only(c, S) = 1 .. Len(Only(c, S))
  BY <1>4
<1>7. DOMAIN c \subseteq S => Only(c, S) = c
  <2> SUFFICES ASSUME DOMAIN c \subseteq S PROVE Only(c, S) = c
    OBVIOUS
  <2>1. Len(Only(c, S)) = Len(c) /\ \A j \in 1 .. Len(c) : Only(c, S)[j] = c[j]
    BY <1>4, <1>0
  <2> QED BY <2>1, <1>6, SeqEqual
<1> DEFINE s == Only(c, S)
<1>8. /\ Len(s) <= Len(c)
      /\ \A p \in DOMAIN s : \E a \in At(n) : s[p] = c[a]
      /\ \A p, q \in DOMAIN s : p < q =>
            \E a, b \in At(n) : a < b /\ s[p] = c[a] /\ s[q] = c[b]
      /\ At(n) # {} => s # <<>>
  <2>1. Good(n, s) /\ DOMAIN s = 1 .. Len(s)
    BY <1>4, <1>6
  <2> HIDE DEF At, s
  <2>2. Len(s) <= n /\ (At(n) # {} => s # <<>>)
    BY <2>1
  <2>3. \A p \in 1 .. Len(s) : \E a \in At(n) : s[p] = c[a]
    BY <2>1
  <2>4. \A p, q \in 1 .. Len(s) : p < q =>
            \E a, b \in At(n) : a < b /\ s[p] = c[a] /\ s[q] = c[b]
    BY <2>1
  <2> HIDE DEF Good
  <2> QED BY <1>0, <2>1, <2>2, <2>3, <2>4
<1> HIDE DEF At
<1> QED BY <1>5, <1>6, <1>7, <1>8

\* The end of a block is the first tag that closes it.
LEMMA BlockEndIs ==
    ASSUME NEW T, NEW c \in Seq(T), NEW i \in DOMAIN c
    PROVE  /\ BlockEnd(c, i) \in Nat
           /\ BlockEnd(c, i) <= i => ~ \E j \in DOMAIN c : Closes(c, i, j)
           /\ BlockEnd(c, i) > i =>
                /\ BlockEnd(c, i) \in DOMAIN c
                /\ Closes(c, i, BlockEnd(c, i))
                /\ \A j \in DOMAIN c : Closes(c, i, j) => BlockEnd(c, i) <= j
<1> DEFINE ends == {j \in DOMAIN c : Closes(c, i, j)}
<1>1. ends \subseteq Nat /\ ends \subseteq DOMAIN c
  OBVIOUS
<1>2. CASE ends = {}
  <2>1. BlockEnd(c, i) = 0
    BY <1>2 DEF BlockEnd
  <2>2. ~ \E j \in DOMAIN c : Closes(c, i, j)
    BY <1>2
  <2> QED BY <2>1, <2>2
<1>3. CASE ends # {}
  <2>1. BlockEnd(c, i) = FirstOf(ends)
    BY <1>3 DEF BlockEnd
  <2>2. \E k \in ends : \A j \in ends : k <= j
    <3> HIDE DEF ends
    <3> QED BY <1>1, <1>3, LeastOfSet
  <2>3. FirstOf(ends) \in ends /\ \A j \in ends : FirstOf(ends) <= j
    <3> HIDE DEF ends
    <3> QED BY <2>2 DEF FirstOf
  <2>4. Closes(c, i, BlockEnd(c, i)) /\ BlockEnd(c, i) \in DOMAIN c
    BY <2>1, <2>3
  <2>5. i < BlockEnd(c, i) /\ BlockEnd(c, i) \in Nat
    BY <2>4, <1>1 DEF Closes
  <2> QED BY <2>1, <2>3, <2>4, <2>5
<1> QED BY <1>2, <1>3

Swallows(gone, c) ==
    gone = [i \in 0 .. Len(c) |->
              IF i = 0 THEN 0
              ELSE IF gone[i - 1] < i /\ BlockEnd(c, i) > i THEN BlockEnd(c, i) ELSE gone[i - 1]]

\* The recursion of Unblocked is well founded.
LEMMA UnblockedSwallows ==
    ASSUME NEW T, NEW c \in Seq(T)
    PROVE  \E gone :
              /\ gone[0] = 0
              /\ \A i \in 1 .. Len(c) :
                    gone[i] = IF gone[i - 1] < i /\ BlockEnd(c, i) > i
                              THEN BlockEnd(c, i) ELSE gone[i - 1]
              /\ Unblocked(c) = {i \in DOMAIN c : gone[i] < i}
<1>1. PICK n \in Nat : n = Len(c)
  OBVIOUS
<1> DEFINE next == [p \in (1 .. n) \X Nat |->
                      IF p[2] < p[1] /\ BlockEnd(c, p[1]) > p[1] THEN BlockEnd(c, p[1]) ELSE p[2]]
<1>2. next \in [(1 .. n) \X Nat -> Nat]
  <2> SUFFICES ASSUME NEW i \in 1 .. n, NEW m \in Nat
               PROVE  (IF m < i /\ BlockEnd(c, i) > i THEN BlockEnd(c, i) ELSE m) \in Nat
    OBVIOUS
  <2>1. i \in DOMAIN c
    BY <1>1
  <2> QED BY <2>1, BlockEndIs
<1>3. PICK g \in [0 .. n -> Nat] : Unfolds(g, n, 0, next)
  <2> HIDE DEF next
  <2> QED BY <1>2, Recursion
<1>4. ASSUME NEW i \in 1 .. n
      PROVE  g[i] = IF g[i - 1] < i /\ BlockEnd(c, i) > i THEN BlockEnd(c, i) ELSE g[i - 1]
  <2>1. <<i, g[i - 1]>> \in (1 .. n) \X Nat
    BY <1>3
  <2>2. g[i] = next[<<i, g[i - 1]>>]
    BY <1>3 DEF Unfolds
  <2> QED BY <2>1, <2>2
<1>5. Swallows(g, c)
  <2>1. g = [i \in 0 .. n |-> g[i]]
    BY <1>3
  <2>2. \A i \in 0 .. n : i # 0 => i \in 1 .. n
    OBVIOUS
  <2> QED BY <1>1, <1>3, <1>4, <2>1, <2>2 DEF Swallows, Unfolds
<1>6. PICK gone : Swallows(gone, c) /\ Unblocked(c) = {i \in DOMAIN c : gone[i] < i}
  <2> DEFINE chosen == CHOOSE gone : Swallows(gone, c)
  <2>1. Unblocked(c) = {i \in DOMAIN c : chosen[i] < i}
    BY DEF Unblocked, Swallows
  <2>2. Swallows(chosen, c)
    BY <1>5
  <2> QED BY <2>1, <2>2
<1>7. /\ 0 \in 0 .. n
      /\ \A i \in 1 .. n : i \in 0 .. n /\ i # 0
  BY <1>1
<1> HIDE DEF next
<1>8. \A i \in 0 .. n :
         gone[i] = IF i = 0 THEN 0
                   ELSE IF gone[i - 1] < i /\ BlockEnd(c, i) > i THEN BlockEnd(c, i)
                        ELSE gone[i - 1]
  <2>1. gone = [i \in 0 .. n |->
                  IF i = 0 THEN 0
                  ELSE IF gone[i - 1] < i /\ BlockEnd(c, i) > i THEN BlockEnd(c, i)
                       ELSE gone[i - 1]]
    BY <1>1, <1>6 DEF Swallows
  <2> QED BY <2>1
<1>9. gone[0] = 0
  BY <1>7, <1>8
<1>10. \A i \in 1 .. n :
         gone[i] = IF gone[i - 1] < i /\ BlockEnd(c, i) > i THEN BlockEnd(c, i) ELSE gone[i - 1]
  BY <1>7, <1>8
<1> QED BY <1>1, <1>6, <1>9, <1>10

\* What the substitution leaves opens no block that is closed, and what it takes
\* stands in a block from an opening tag to the first that closes it.
LEMMA UnblockedIs ==
    ASSUME NEW T, NEW c \in Seq(T)
    PROVE  /\ Unblocked(c) \subseteq DOMAIN c
           /\ \A i \in Unblocked(c) : ~ \E j \in DOMAIN c : Closes(c, i, j)
           /\ \A i \in DOMAIN c \ Unblocked(c) :
                 \E a, b \in DOMAIN c :
                    /\ a <= i /\ i <= b
                    /\ Closes(c, a, b)
                    /\ \A d \in DOMAIN c : Closes(c, a, d) => b <= d
<1>0. PICK n \in Nat : n = Len(c)
  OBVIOUS
<1>1. PICK gone :
         /\ gone[0] = 0
         /\ \A i \in 1 .. n :
               gone[i] = IF gone[i - 1] < i /\ BlockEnd(c, i) > i
                         THEN BlockEnd(c, i) ELSE gone[i - 1]
         /\ Unblocked(c) = {i \in DOMAIN c : gone[i] < i}
  BY <1>0, UnblockedSwallows
<1> DEFINE Good(i) ==
              /\ gone[i] \in Nat
              /\ gone[i] = 0 \/ \E a \in 1 .. i : gone[i] = BlockEnd(c, a) /\ gone[i] > a
           W == {i \in 0 .. n : Good(i)}
<1>2. 0 \in W
  BY <1>1
<1>3. ASSUME NEW i \in 1 .. n, i - 1 \in W PROVE i \in W
  <2>1. Good(i - 1)
    BY <1>3
  <2>2. i \in DOMAIN c
    BY <1>0
  <2>3. BlockEnd(c, i) \in Nat
    BY <2>2, BlockEndIs
  <2>4. CASE gone[i - 1] < i /\ BlockEnd(c, i) > i
    <3>1. gone[i] = BlockEnd(c, i) /\ i \in 1 .. i
      BY <1>1, <2>4
    <3> QED BY <3>1, <2>3, <2>4
  <2>5. CASE ~ (gone[i - 1] < i /\ BlockEnd(c, i) > i)
    <3>1. gone[i] = gone[i - 1]
      BY <1>1, <2>5
    <3>2. \A a \in 1 .. i - 1 : a \in 1 .. i
      OBVIOUS
    <3> QED BY <2>1, <3>1, <3>2
  <2> QED BY <2>4, <2>5
<1>4. \A i \in 0 .. n : Good(i)
  <2>1. 0 .. n \subseteq W
    <3> HIDE DEF W
    <3> QED BY <1>2, <1>3, UpTo
  <2> HIDE DEF Good
  <2> QED BY <2>1
<1>5. DOMAIN c = 1 .. n
  BY <1>0
<1>6. ASSUME NEW i \in Unblocked(c), NEW j \in DOMAIN c, Closes(c, i, j) PROVE FALSE
  <2>1. i \in DOMAIN c /\ i \in 1 .. n /\ gone[i] < i
    BY <1>1, <1>5
  <2>2. BlockEnd(c, i) > i /\ BlockEnd(c, i) \in Nat
    BY <2>1, <1>6, BlockEndIs
  <2>3. gone[i - 1] \in Nat
    BY <2>1, <1>4
  <2> QED BY <1>1, <2>1, <2>2, <2>3
<1>7. ASSUME NEW i \in DOMAIN c, i \notin Unblocked(c)
      PROVE  \E a, b \in DOMAIN c :
                /\ a <= i /\ i <= b
                /\ Closes(c, a, b)
                /\ \A d \in DOMAIN c : Closes(c, a, d) => b <= d
  <2>1. gone[i] >= i /\ i \in 1 .. n /\ Good(i)
    BY <1>1, <1>4, <1>5, <1>7
  <2>2. PICK a \in 1 .. i : gone[i] = BlockEnd(c, a) /\ gone[i] > a
    BY <2>1
  <2>3. a \in DOMAIN c /\ a <= i
    BY <2>1, <1>5
  <2>4. /\ BlockEnd(c, a) \in DOMAIN c /\ Closes(c, a, BlockEnd(c, a))
        /\ \A d \in DOMAIN c : Closes(c, a, d) => BlockEnd(c, a) <= d
    BY <2>2, <2>3, BlockEndIs
  <2> QED BY <2>1, <2>2, <2>3, <2>4
<1> QED BY <1>1, <1>6, <1>7

\* What is left of an answer: of the answer, without one of its blocks unless
\* reasoning is shown, and with all that stands beside them.
LEMMA StripIs ==
    ASSUME NEW c \in Seq(Token)
    PROVE  /\ StripReasoning(c) \in Seq(Token)
           /\ Len(StripReasoning(c)) <= Len(c)
           /\ StripReasoning(c) = <<>> => Outside(c) = {}
           /\ \E S \in SUBSET DOMAIN c :
                 /\ Outside(c) \subseteq S /\ StripReasoning(c) = Only(c, S)
                 /\ ~show => ~ \E i, j \in S : Closes(c, i, j)
<1>1. CASE show
  <2>1. StripReasoning(c) = c
    BY <1>1 DEF StripReasoning
  <2>2. Only(c, DOMAIN c) = c
    BY OnlyTakes
  <2>3. Outside(c) \subseteq DOMAIN c
    BY DEF Outside
  <2>4. c = <<>> => DOMAIN c = {}
    OBVIOUS
  <2>5. Len(c) \in Nat
    OBVIOUS
  <2> QED BY <1>1, <2>1, <2>2, <2>3, <2>4, <2>5
<1>2. CASE ~ show
  <2> DEFINE S == Trimmed(c, Unblocked(c))
             s == Only(c, S)
  <2>1. StripReasoning(c) = s
    BY <1>2 DEF StripReasoning
  <2>2. S \subseteq Unblocked(c) /\ S \subseteq DOMAIN c
    BY UnblockedIs DEF Trimmed
  <2>3. Outside(c) \subseteq S
    <3> SUFFICES ASSUME NEW i \in Outside(c) PROVE i \in S
      OBVIOUS
    <3>1. i \in DOMAIN c /\ c[i].is # "blank" /\ ~ InBlock(c, i)
      BY <1>2 DEF Outside
    <3>2. i \in Unblocked(c)
      <4> SUFFICES ASSUME i \notin Unblocked(c) PROVE FALSE
        OBVIOUS
      <4>1. PICK a \in DOMAIN c, b \in DOMAIN c :
               /\ a <= i /\ i <= b
               /\ Closes(c, a, b)
               /\ \A d \in DOMAIN c : Closes(c, a, d) => b <= d
        BY <3>1, UnblockedIs
      <4>2. \A d \in a .. b - 1 : d \in DOMAIN c /\ ~ (b <= d)
        OBVIOUS
      <4>3. ~ \E d \in a .. b - 1 : Closes(c, a, d)
        BY <4>1, <4>2
      <4> QED BY <3>1, <4>1, <4>3 DEF InBlock
    <3>3. i <= i
      BY <3>1
    <3> QED BY <3>1, <3>2, <3>3 DEF Trimmed
  <2> HIDE DEF S
  <2>4. /\ s \in Seq(Token)
        /\ Len(s) <= Len(c)
        /\ S \cap DOMAIN c # {} => s # <<>>
    BY OnlyTakes
  <2>5. ~ \E i, j \in S : Closes(c, i, j)
    BY <2>2, UnblockedIs
  <2>6. s = <<>> => Outside(c) = {}
    BY <2>2, <2>3, <2>4
  <2> HIDE DEF s
  <2>7. \E R \in SUBSET DOMAIN c :
           Outside(c) \subseteq R /\ s = Only(c, R) /\ ~ \E i, j \in R : Closes(c, i, j)
    BY <2>2, <2>3, <2>5 DEF s
  <2> QED BY <1>2, <2>1, <2>4, <2>6, <2>7
<1> QED BY <1>1, <1>2

-------------------------------------------------------------------------------
(* The operators on sources.                                               *)

Citation == [index : Nat, filename : STRING, page : Nat]

SourcesOf(list) == {SourceOf(list[i]) : i \in DOMAIN list}
NamesOf(docs) == {<<FileName(docs[i]), PageOf(docs[i])>> : i \in DOMAIN docs}
Distinct(list) == \A i, j \in DOMAIN list : SourceOf(list[i]) = SourceOf(list[j]) => i = j

\* A citation adds its source, and never one that is in the list already.
LEMMA AddCitationIs ==
    ASSUME NEW list \in Seq(Citation), Distinct(list), NEW cite \in Citation
    PROVE  /\ AddCitation(list, cite) \in Seq(Citation)
           /\ Distinct(AddCitation(list, cite))
           /\ SourcesOf(AddCitation(list, cite)) = SourcesOf(list) \cup {SourceOf(cite)}
<1>1. CASE \E i \in DOMAIN list : SourceOf(list[i]) = SourceOf(cite)
  <2>1. AddCitation(list, cite) = list
    BY <1>1 DEF AddCitation
  <2>2. SourceOf(cite) \in SourcesOf(list)
    BY <1>1 DEF SourcesOf
  <2> QED BY <2>1, <2>2
<1>2. CASE ~ \E i \in DOMAIN list : SourceOf(list[i]) = SourceOf(cite)
  <2> DEFINE more == Append(list, cite)
  <2>1. AddCitation(list, cite) = more
    BY <1>2 DEF AddCitation
  <2>2. PICK n \in Nat : n = Len(list)
    OBVIOUS
  <2>3. /\ more \in Seq(Citation)
        /\ DOMAIN more = 1 .. n + 1 /\ DOMAIN list = 1 .. n
        /\ more[n + 1] = cite
        /\ \A i \in 1 .. n : more[i] = list[i]
    BY <2>2
  <2> HIDE DEF more
  <2>4. \A i \in 1 .. n + 1 : i = n + 1 \/ i \in 1 .. n
    OBVIOUS
  <2>5. Distinct(more)
    <3> SUFFICES ASSUME NEW i \in 1 .. n + 1, NEW j \in 1 .. n + 1,
                        SourceOf(more[i]) = SourceOf(more[j])
                 PROVE  i = j
      BY <2>3 DEF Distinct
    <3>1. CASE i \in 1 .. n /\ j \in 1 .. n
      <4>1. SourceOf(list[i]) = SourceOf(list[j])
        BY <2>3, <3>1
      <4> QED BY <4>1, <3>1, <2>3 DEF Distinct
    <3>2. CASE i \in 1 .. n /\ j = n + 1
      <4>1. SourceOf(list[i]) = SourceOf(cite)
        BY <2>3, <3>2
      <4> QED BY <4>1, <3>2, <2>3, <1>2
    <3>3. CASE i = n + 1 /\ j \in 1 .. n
      <4>1. SourceOf(list[j]) = SourceOf(cite)
        BY <2>3, <3>3
      <4> QED BY <4>1, <3>3, <2>3, <1>2
    <3> QED BY <2>4, <3>1, <3>2, <3>3
  <2>6. SourcesOf(more) = SourcesOf(list) \cup {SourceOf(cite)}
    <3>1. ASSUME NEW x \in SourcesOf(more) PROVE x \in SourcesOf(list) \cup {SourceOf(cite)}
      <4>1. PICK i \in 1 .. n + 1 : x = SourceOf(more[i])
        BY <2>3 DEF SourcesOf
      <4> QED BY <4>1, <2>3, <2>4 DEF SourcesOf
    <3>2. ASSUME NEW x \in SourcesOf(list) PROVE x \in SourcesOf(more)
      <4>1. PICK i \in 1 .. n : x = SourceOf(list[i])
        BY <2>3 DEF SourcesOf
      <4>2. i \in 1 .. n + 1 /\ x = SourceOf(more[i])
        BY <4>1, <2>3
      <4> QED BY <4>2, <2>3 DEF SourcesOf
    <3>3. SourceOf(cite) \in SourcesOf(more)
      <4>1. n + 1 \in 1 .. n + 1
        OBVIOUS
      <4> QED BY <4>1, <2>3 DEF SourcesOf
    <3> QED BY <3>1, <3>2, <3>3
  <2> QED BY <2>1, <2>3, <2>5, <2>6
<1> QED BY <1>1, <1>2

Adds(add, list, cites) ==
    add = [n \in 0 .. Len(cites) |->
              IF n = 0 THEN list ELSE AddCitation(add[n - 1], cites[n])]

\* The recursion of AddAll is well founded.
LEMMA AddAllAdds ==
    ASSUME NEW list \in Seq(Citation), NEW cites \in Seq(Citation)
    PROVE  \E add :
              /\ add[0] = list
              /\ \A i \in 1 .. Len(cites) : add[i] = AddCitation(add[i - 1], cites[i])
              /\ AddAll(list, cites) = add[Len(cites)]
<1>1. PICK n \in Nat : n = Len(cites)
  OBVIOUS
<1> DEFINE A == Seq(Citation)
           next == [p \in (1 .. n) \X A |-> AddCitation(p[2], cites[p[1]])]
<1>2. next \in [(1 .. n) \X A -> A]
  <2> SUFFICES ASSUME NEW i \in 1 .. n, NEW s \in A PROVE AddCitation(s, cites[i]) \in A
    OBVIOUS
  <2>1. cites[i] \in Citation
    BY <1>1
  <2> QED BY <2>1 DEF AddCitation
<1>3. PICK g \in [0 .. n -> A] : Unfolds(g, n, list, next)
  <2> HIDE DEF next
  <2>1. list \in A
    OBVIOUS
  <2> HIDE DEF A
  <2> QED BY <1>2, <2>1, Recursion
<1>4. ASSUME NEW i \in 1 .. n PROVE g[i] = AddCitation(g[i - 1], cites[i])
  <2>1. <<i, g[i - 1]>> \in (1 .. n) \X A
    BY <1>3
  <2>2. g[i] = next[<<i, g[i - 1]>>]
    BY <1>3 DEF Unfolds
  <2> QED BY <2>1, <2>2
<1>5. Adds(g, list, cites)
  <2>1. g = [i \in 0 .. n |-> g[i]]
    BY <1>3
  <2>2. \A i \in 0 .. n : i # 0 => i \in 1 .. n
    OBVIOUS
  <2> QED BY <1>1, <1>3, <1>4, <2>1, <2>2 DEF Adds, Unfolds
<1>6. PICK add : Adds(add, list, cites) /\ AddAll(list, cites) = add[n]
  <2>1. AddAll(list, cites) = (CHOOSE add : Adds(add, list, cites))[n]
    BY <1>1 DEF AddAll, Adds
  <2> QED BY <1>5, <2>1
<1>7. 0 \in 0 .. n /\ \A i \in 1 .. n : i \in 0 .. n /\ i # 0
  OBVIOUS
<1> QED BY <1>1, <1>6, <1>7 DEF Adds

\* The citations of a message add their sources.
LEMMA AddAllIs ==
    ASSUME NEW list \in Seq(Citation), Distinct(list), NEW cites \in Seq(Citation)
    PROVE  /\ AddAll(list, cites) \in Seq(Citation)
           /\ Distinct(AddAll(list, cites))
           /\ SourcesOf(AddAll(list, cites)) = SourcesOf(list) \cup SourcesOf(cites)
<1>0. PICK n \in Nat : n = Len(cites)
  OBVIOUS
<1>1. PICK add :
         /\ add[0] = list
         /\ \A i \in 1 .. n : add[i] = AddCitation(add[i - 1], cites[i])
         /\ AddAll(list, cites) = add[n]
  BY SMTT(20), <1>0, AddAllAdds
<1> DEFINE Good(i) ==
              /\ add[i] \in Seq(Citation)
              /\ Distinct(add[i])
              /\ SourcesOf(add[i]) = SourcesOf(list) \cup {SourceOf(cites[j]) : j \in 1 .. i}
           W == {i \in 0 .. n : Good(i)}
<1>2. 0 \in W
  BY <1>1
<1>3. ASSUME NEW i \in 1 .. n, i - 1 \in W PROVE i \in W
  <2>1. Good(i - 1)
    BY <1>3
  <2>2. cites[i] \in Citation
    BY <1>0
  <2>3. add[i] = AddCitation(add[i - 1], cites[i])
    BY <1>1
  <2>4. /\ add[i] \in Seq(Citation)
        /\ Distinct(add[i])
        /\ SourcesOf(add[i]) = SourcesOf(add[i - 1]) \cup {SourceOf(cites[i])}
    BY <2>1, <2>2, <2>3, AddCitationIs
  <2>5. 1 .. i = 1 .. (i - 1) \cup {i}
    OBVIOUS
  <2> QED BY <2>1, <2>4, <2>5
<1>4. Good(n)
  <2>1. 0 .. n \subseteq W
    <3> HIDE DEF W
    <3> QED BY <1>2, <1>3, UpTo
  <2>2. n \in 0 .. n
    OBVIOUS
  <2> HIDE DEF Good
  <2> QED BY <2>1, <2>2
<1>5. DOMAIN cites = 1 .. n
  BY <1>0
<1> QED BY <1>1, <1>4, <1>5 DEF SourcesOf

\* to_citations numbers the documents of a search, and names them.
LEMMA CitationsTyped ==
    ASSUME NEW m \in Message
    PROVE  /\ ToCitations(m.docs) \in Seq(Citation)
           /\ SourcesOf(ToCitations(m.docs)) = NamesOf(m.docs)
<1>1. PICK docs \in Seq(Document) : docs = m.docs
  BY DEF Message
<1>2. PICK n \in Nat : n = Len(docs)
  OBVIOUS
<1>3. DOMAIN docs = 1 .. n
  BY <1>2
<1>4. ASSUME NEW i \in 1 .. n PROVE FileName(docs[i]) \in STRING /\ PageOf(docs[i]) \in Nat
  <2>1. docs[i] \in Document
    BY <1>2
  <2>2. PICK source \in Seq(STRING) : source = docs[i].source
    BY <2>1 DEF Document
  <2>3. FileName(docs[i]) \in STRING
    <3>1. CASE source = <<>>
      <4>1. FileName(docs[i]) = UnknownFile
        BY <2>2, <3>1, Zenon DEF FileName
      <4> QED BY <4>1, PageAssumption
    <3>2. CASE source # <<>>
      <4>1. Len(source) \in Nat \ {0}
        BY <2>2, <3>2, EmptySeq
      <4>2. source[Len(source)] \in STRING
        BY <2>2, <4>1, ElementOfSeq
      <4> QED BY <2>2, <3>2, <4>2 DEF FileName
    <3> QED BY <3>1, <3>2
  <2>4. PageOf(docs[i]) \in Nat
    BY <2>1 DEF PageOf, Document
  <2> QED BY <2>3, <2>4
<1> DEFINE cites == [i \in 1 .. n |->
                        [index |-> i, filename |-> FileName(docs[i]), page |-> PageOf(docs[i])]]
<1>5. ToCitations(m.docs) = cites
  BY <1>1, <1>3 DEF ToCitations
<1>6. cites \in [1 .. n -> Citation]
  BY <1>4 DEF Citation
<1>7. cites \in Seq(Citation)
  <2> HIDE DEF cites
  <2> QED BY <1>6, IsASeq
<1>8. /\ DOMAIN cites = DOMAIN docs
      /\ \A i \in DOMAIN docs : SourceOf(cites[i]) = <<FileName(docs[i]), PageOf(docs[i])>>
  BY <1>3 DEF SourceOf
<1> HIDE DEF cites
<1> QED BY <1>1, <1>5, <1>7, <1>8 DEF SourcesOf, NamesOf

Gathers(cited, turn) ==
    cited = [n \in 0 .. Len(turn) |->
                IF n = 0 THEN <<>> ELSE AddAll(cited[n - 1], ToCitations(turn[n].docs))]

\* The recursion of Citations is well founded.
LEMMA CitationsGather ==
    ASSUME NEW turn \in Seq(Message), turn = SubSeq(messages, TurnStart + 1, Len(messages))
    PROVE  \E cited :
              /\ cited[0] = <<>>
              /\ \A i \in 1 .. Len(turn) : cited[i] = AddAll(cited[i - 1], ToCitations(turn[i].docs))
              /\ Citations = cited[Len(turn)]
<1>1. PICK n \in Nat : n = Len(turn)
  OBVIOUS
<1> DEFINE next == [p \in (1 .. n) \X {s \in Seq(Citation) : Distinct(s)} |->
                        AddAll(p[2], ToCitations(turn[p[1]].docs))]
           A == {s \in Seq(Citation) : Distinct(s)}
           none == <<>>
<1>2. next \in [(1 .. n) \X A -> A]
  <2> SUFFICES ASSUME NEW i \in 1 .. n, NEW s \in A
               PROVE  AddAll(s, ToCitations(turn[i].docs)) \in A
    OBVIOUS
  <2>1. turn[i] \in Message
    BY <1>1, ElementOfSeq
  <2>2. ToCitations(turn[i].docs) \in Seq(Citation)
    BY <2>1, CitationsTyped
  <2> QED BY <2>2, AddAllIs
<1>3. PICK g \in [0 .. n -> A] : Unfolds(g, n, none, next)
  <2>1. none \in A
    BY DEF Distinct
  <2> HIDE DEF next, A, none
  <2> QED BY <1>2, <2>1, Recursion
<1>4. ASSUME NEW i \in 1 .. n PROVE g[i] = AddAll(g[i - 1], ToCitations(turn[i].docs))
  <2>1. <<i, g[i - 1]>> \in (1 .. n) \X A
    BY <1>3
  <2>2. g[i] = next[<<i, g[i - 1]>>]
    BY <1>3 DEF Unfolds
  <2> QED BY <2>1, <2>2
<1>5. Gathers(g, turn)
  <2>1. g = [i \in 0 .. n |-> g[i]]
    BY <1>3
  <2>2. \A i \in 0 .. n : i # 0 => i \in 1 .. n
    OBVIOUS
  <2> QED BY <1>1, <1>3, <1>4, <2>1, <2>2 DEF Gathers, Unfolds
<1>6. PICK cited : Gathers(cited, turn) /\ Citations = cited[n]
  <2>1. Citations = (CHOOSE cited : Gathers(cited, turn))[n]
    BY <1>1 DEF Citations, Gathers
  <2> QED BY <1>5, <2>1
<1>7. 0 \in 0 .. n /\ \A i \in 1 .. n : i \in 0 .. n /\ i # 0
  OBVIOUS
<1> QED BY <1>1, <1>6, <1>7 DEF Gathers

\* The citations of a turn are the sources of its messages, each of them once.
LEMMA CitationsIs ==
    ASSUME messages \in Seq(Message), TurnStart \in 0 .. Len(messages)
    PROVE  /\ Citations \in Seq(Citation)
           /\ Distinct(Citations)
           /\ SourcesOf(Citations) =
                UNION {NamesOf(messages[i].docs) : i \in TurnStart + 1 .. Len(messages)}
<1>1. PICK start \in Nat : start = TurnStart
  OBVIOUS
<1>2. PICK m \in Nat : m = Len(messages)
  OBVIOUS
<1>3. PICK n \in Nat : n = m - start
  <2>1. m - start \in Nat
    BY <1>1, <1>2
  <2> QED BY <2>1
<1> DEFINE turn == SubSeq(messages, TurnStart + 1, Len(messages))
<1>4. /\ turn \in Seq(Message) /\ Len(turn) = n
      /\ \A i \in 1 .. n : turn[i] = messages[start + i]
  <2>1. start + 1 \in Int /\ m \in Int
    OBVIOUS
  <2>2. \A i \in start + 1 .. m : messages[i] \in Message
    BY <1>2
  <2>3. m - (start + 1) + 1 = n /\ \A i \in 1 .. n : (start + 1) + i - 1 = start + i
    BY <1>3
  <2>4. start + 1 <= m \/ (n = 0 /\ ~ (start + 1 <= m))
    BY <1>3
  <2>5. turn = SubSeq(messages, start + 1, m)
    BY <1>1, <1>2
  <2> HIDE DEF turn
  <2> QED BY <2>1, <2>2, <2>3, <2>4, <2>5, SubSeqProperties
<1>5. PICK cited :
         /\ cited[0] = <<>>
         /\ \A i \in 1 .. n : cited[i] = AddAll(cited[i - 1], ToCitations(turn[i].docs))
         /\ Citations = cited[n]
  BY <1>4, CitationsGather
<1> DEFINE Good(i) ==
              /\ cited[i] \in Seq(Citation)
              /\ Distinct(cited[i])
              /\ SourcesOf(cited[i]) = UNION {NamesOf(turn[j].docs) : j \in 1 .. i}
           W == {i \in 0 .. n : Good(i)}
<1>6. 0 \in W
  <2>1. Distinct(<<>>) /\ SourcesOf(<<>>) = {}
    BY DEF Distinct, SourcesOf
  <2>2. 1 .. 0 = {} /\ 0 \in 0 .. n
    OBVIOUS
  <2> HIDE DEF turn
  <2>3. UNION {NamesOf(turn[j].docs) : j \in 1 .. 0} = {}
    BY <2>2
  <2>4. cited[0] = <<>> /\ <<>> \in Seq(Citation)
    BY <1>5
  <2> QED BY <2>1, <2>2, <2>3, <2>4
<1>7. ASSUME NEW i \in 1 .. n, i - 1 \in W PROVE i \in W
  <2>1. Good(i - 1)
    BY <1>7
  <2> DEFINE new == ToCitations(turn[i].docs)
  <2>2. new \in Seq(Citation) /\ SourcesOf(new) = NamesOf(turn[i].docs)
    <3>1. turn[i] \in Message
      BY <1>4
    <3> QED BY <3>1, CitationsTyped
  <2>3. cited[i] = AddAll(cited[i - 1], new)
    BY <1>5
  <2> HIDE DEF new
  <2>4. /\ cited[i] \in Seq(Citation)
        /\ Distinct(cited[i])
        /\ SourcesOf(cited[i]) = SourcesOf(cited[i - 1]) \cup SourcesOf(new)
    BY <2>1, <2>2, <2>3, AddAllIs
  <2>5. 1 .. i = 1 .. (i - 1) \cup {i}
    OBVIOUS
  <2> HIDE DEF turn
  <2>6. PICK g : \A j \in 1 .. n : g[j] = NamesOf(turn[j].docs)
    <3> DEFINE h == [j \in 1 .. n |-> NamesOf(turn[j].docs)]
    <3>1. \A j \in 1 .. n : h[j] = NamesOf(turn[j].docs)
      OBVIOUS
    <3> HIDE DEF h
    <3> QED BY <3>1
  <2>7. \A k \in 0 .. n :
           UNION {NamesOf(turn[j].docs) : j \in 1 .. k} = UNION {g[j] : j \in 1 .. k}
    <3> TAKE k \in 0 .. n
    <3>1. \A j \in 1 .. k : NamesOf(turn[j].docs) = g[j]
      BY <2>6
    <3> QED BY <3>1
  <2>8. SourcesOf(cited[i - 1]) = UNION {g[j] : j \in 1 .. (i - 1)}
    <3>1. i - 1 \in 0 .. n
      OBVIOUS
    <3> QED BY <2>1, <2>7, <3>1
  <2>9. SourcesOf(cited[i]) = UNION {g[j] : j \in 1 .. i}
    <3>1. SourcesOf(new) = g[i]
      BY <2>2, <2>6
    <3>2. UNION {g[j] : j \in 1 .. i} = (UNION {g[j] : j \in 1 .. (i - 1)}) \cup g[i]
      BY <2>5
    <3> QED BY <2>4, <2>8, <3>1, <3>2
  <2>10. i \in 0 .. n
    OBVIOUS
  <2> QED BY <2>4, <2>7, <2>9, <2>10
<1>8. Good(n)
  <2>1. 0 .. n \subseteq W
    <3> HIDE DEF W
    <3> QED BY <1>6, <1>7, UpTo
  <2>2. n \in 0 .. n
    OBVIOUS
  <2> HIDE DEF Good
  <2> QED BY <2>1, <2>2
<1>9. UNION {NamesOf(turn[j].docs) : j \in 1 .. n} =
      UNION {NamesOf(messages[i].docs) : i \in start + 1 .. m}
  <2> HIDE DEF turn
  <2>1. \A j \in 1 .. n : start + j \in start + 1 .. m
    BY <1>3
  <2>2. \A i \in start + 1 .. m : i - start \in 1 .. n /\ start + (i - start) = i
    BY <1>3
  <2>3. \A j \in 1 .. n : NamesOf(turn[j].docs) = NamesOf(messages[start + j].docs)
    BY <1>4
  <2>4. \A i \in start + 1 .. m : NamesOf(messages[i].docs) = NamesOf(turn[i - start].docs)
    BY <2>2, <2>3
  <2>5. ASSUME NEW j \in 1 .. n, NEW x \in NamesOf(turn[j].docs)
        PROVE  x \in UNION {NamesOf(messages[i].docs) : i \in start + 1 .. m}
    BY <2>1, <2>3
  <2>6. ASSUME NEW i \in start + 1 .. m, NEW x \in NamesOf(messages[i].docs)
        PROVE  x \in UNION {NamesOf(turn[j].docs) : j \in 1 .. n}
    BY <2>2, <2>4
  <2> QED BY <2>5, <2>6
<1> HIDE DEF turn
<1> QED BY <1>1, <1>2, <1>5, <1>8, <1>9

-------------------------------------------------------------------------------
(* The invariant.                                                          *)

\* The messages are typed, and the question is one of them.
MessagesTyped ==
    /\ messages \in Seq(Message)
    /\ TurnStart \in 1 .. Len(messages)

\* found is what the messages after the question hold.
FoundInTurn ==
    found = UNION {NamesOf(messages[i].docs) : i \in TurnStart + 1 .. Len(messages)}

\* Once the loop is left, the last message is the model's answer.
AnswerLast ==
    phase \in {"answer", "cite", "done"} =>
        /\ messages[Len(messages)].kind = "ai"
        /\ messages[Len(messages)].content \in Replies

TokenFrames ==
    IF StripReasoning(LastAnswer) # <<>>
    THEN <<[event |-> "token", data |-> StripReasoning(LastAnswer)]>> ELSE <<>>

CitationFrames ==
    IF Citations # <<>> THEN <<[event |-> "citation", data |-> Citations]>> ELSE <<>>

\* What has been sent when the handler is where it is.
SentSoFar ==
    /\ phase \in {"model", "tools", "answer"} => sent = <<>>
    /\ phase = "cite" => sent = TokenFrames
    /\ phase = "done" => sent = TokenFrames \o CitationFrames
    /\ phase = "ended" =>
          \/ /\ sent = Append(TokenFrames \o CitationFrames, [event |-> "done", data |-> <<>>])
             /\ messages[Len(messages)].kind = "ai"
             /\ messages[Len(messages)].content \in Replies
          \/ sent = <<[event |-> "error", data |-> <<>>]>>
          \/ /\ sent = Append(TokenFrames, [event |-> "error", data |-> <<>>])
             /\ messages[Len(messages)].kind = "ai"
             /\ messages[Len(messages)].content \in Replies

TurnInv ==
    /\ TypeOK
    /\ MessagesTyped
    /\ FoundInTurn
    /\ AnswerLast
    /\ SentSoFar

\* A message of the model has no sources.
LEMMA AiTyped ==
    ASSUME NEW content \in Seq(Token)
    PROVE  Ai(content) \in Message /\ Ai(content).kind = "ai" /\ Ai(content).content = content
           /\ NamesOf(Ai(content).docs) = {}
BY DEF Ai, Message, NamesOf

\* A message of the tool has those of its search.
LEMMA ToolTyped ==
    ASSUME NEW docs \in Found
    PROVE  Tool(docs) \in Message /\ Tool(docs).kind = "tool" /\ Tool(docs).docs = docs
<1>1. docs \in Seq(Document)
  BY SearchAssumption
<1> QED BY <1>1 DEF Tool, Message

\* A message that is no question leaves the turn where it began and adds its sources.
LEMMA MessageAdded ==
    ASSUME MessagesTyped, FoundInTurn,
           NEW m \in Message, m.kind # "human", messages' = Append(messages, m),
           found' = found \cup NamesOf(m.docs)
    PROVE  MessagesTyped' /\ FoundInTurn' /\ messages'[Len(messages')] = m
<1>1. PICK n \in Nat : n = Len(messages)
  BY DEF MessagesTyped
<1>2. /\ messages' \in Seq(Message) /\ Len(messages') = n + 1
      /\ DOMAIN messages = 1 .. n /\ DOMAIN messages' = 1 .. n + 1
      /\ messages'[n + 1] = m
      /\ \A i \in 1 .. n : messages'[i] = messages[i]
  BY <1>1 DEF MessagesTyped
<1>3. \A i \in 1 .. n + 1 : i = n + 1 \/ i \in 1 .. n
  OBVIOUS
<1> DEFINE Humans == {i \in DOMAIN messages : messages[i].kind = "human"}
           HumansNext == {i \in DOMAIN messages' : messages'[i].kind = "human"}
<1>4. HumansNext = Humans
  BY <1>2, <1>3
<1>5. TurnStart = LastOf(Humans) /\ TurnStart' = LastOf(HumansNext)
  BY DEF TurnStart
<1>6. TurnStart' = TurnStart
  <2> HIDE DEF Humans, HumansNext
  <2> QED BY <1>4, <1>5
<1>7. MessagesTyped'
  BY <1>1, <1>2, <1>6 DEF MessagesTyped
<1>8. FoundInTurn'
  <2>1. PICK start \in 1 .. n : start = TurnStart
    BY <1>1 DEF MessagesTyped
  <2>2. found = UNION {NamesOf(messages[i].docs) : i \in start + 1 .. n}
    BY <1>1, <2>1 DEF FoundInTurn
  <2>3. start + 1 .. n + 1 = (start + 1 .. n) \cup {n + 1}
    BY <2>1
  <2>4. \A i \in start + 1 .. n : messages'[i] = messages[i]
    BY <1>2, <2>1
  <2>5. UNION {NamesOf(messages'[i].docs) : i \in start + 1 .. n + 1} = found \cup NamesOf(m.docs)
    BY <2>2, <2>3, <2>4, <1>2
  <2>6. UNION {NamesOf(messages'[i].docs) : i \in TurnStart' + 1 .. Len(messages')} = found'
    BY <2>5, <2>1, <1>6, <1>2
  <2> QED BY <2>6 DEF FoundInTurn, NamesOf, FileName, PageOf
<1> QED BY <1>2, <1>7, <1>8

\* What is computed of the messages stays with them.
LEMMA SameMessages ==
    ASSUME UNCHANGED <<messages, show>>
    PROVE  UNCHANGED <<TurnStart, Citations, CitationFrames, TokenFrames>>
<1>1. TurnStart' = TurnStart
  BY DEF TurnStart, LastOf
<1>2. Citations' = Citations
  BY <1>1 DEF Citations
<1>3. LastAnswer' = LastAnswer
  BY DEF LastAnswer, LastOf
<1>4. StripReasoning(LastAnswer)' = StripReasoning(LastAnswer)
  BY <1>3 DEF StripReasoning
<1> QED BY <1>1, <1>2, <1>4 DEF CitationFrames, TokenFrames

\* A turn begins with the question as its last message, and nothing sent.
LEMMA TurnInit == Init => TurnInv
<1> SUFFICES ASSUME Init PROVE TurnInv
  OBVIOUS
<1>1. /\ messages \in Seq(Message) /\ messages # <<>>
      /\ messages[Len(messages)].kind = "human"
  BY HistoriesAssumption DEF Init
<1>2. PICK n \in Nat : n = Len(messages)
  BY <1>1
<1>3. n \in DOMAIN messages /\ DOMAIN messages = 1 .. n
  BY <1>1, <1>2
<1>4. TurnStart = n
  <2> DEFINE Humans == {i \in DOMAIN messages : messages[i].kind = "human"}
  <2>1. n \in Humans /\ Humans \subseteq 1 .. n
    BY <1>1, <1>2, <1>3
  <2>2. TurnStart = LastOf(Humans)
    BY DEF TurnStart
  <2> HIDE DEF Humans
  <2>3. \A j \in Humans : j <= n
    BY <2>1
  <2>4. \A i \in Humans \cup {0} : (\A j \in Humans : j <= i) => i = n
    BY <2>1
  <2> QED BY <2>1, <2>2, <2>3, <2>4 DEF LastOf
<1>5. MessagesTyped
  BY <1>1, <1>2, <1>3, <1>4 DEF MessagesTyped
<1>6. FoundInTurn
  <2>1. n + 1 .. n = {}
    OBVIOUS
  <2>2. UNION {NamesOf(messages[i].docs) : i \in n + 1 .. n} = {}
    BY <2>1
  <2> QED BY <1>2, <1>4, <2>2 DEF FoundInTurn, Init
<1>7. TypeOK
  <2>1. \A i \in DOMAIN messages : messages[i].kind \in {"human", "ai", "tool"}
    <3>1. \A i \in 1 .. n : messages[i] \in Message
      BY <1>1, <1>2
    <3> QED BY <3>1, <1>3 DEF Message
  <2> QED BY <2>1, ModelAssumption DEF TypeOK, Init
<1>8. AnswerLast /\ SentSoFar
  BY DEF AnswerLast, SentSoFar, Init
<1> QED BY <1>5, <1>6, <1>7, <1>8 DEF TurnInv

\* The answer is taken of the message that ended the loop.
LEMMA LastAnswerIs ==
    ASSUME MessagesTyped, messages[Len(messages)].kind = "ai"
    PROVE  LastAnswer = messages[Len(messages)].content
<1>1. PICK n \in Nat : n = Len(messages)
  BY DEF MessagesTyped
<1> DEFINE Ais == {i \in DOMAIN messages : messages[i].kind = "ai"}
<1>2. n \in Ais /\ Ais \subseteq 1 .. n
  BY <1>1 DEF MessagesTyped
<1>3. LastAnswer = messages[LastOf(Ais)].content
  BY DEF LastAnswer
<1> HIDE DEF Ais
<1>4. \A j \in Ais : j <= n
  BY <1>2
<1>5. \A i \in Ais \cup {0} : (\A j \in Ais : j <= i) => i = n
  BY <1>2
<1>6. LastOf(Ais) = n
  BY <1>2, <1>4, <1>5 DEF LastOf
<1> QED BY <1>1, <1>3, <1>6

\* Two facts on short sequences.
LEMMA AppendIs ==
    ASSUME NEW T, NEW s \in Seq(T), NEW f
    PROVE  Append(s, f) = s \o <<f>>
<1>1. s \in Seq(T \cup {f})
  OBVIOUS
<1> QED BY <1>1, AppendIsConcat

LEMMA PairIs == ASSUME NEW a, NEW b PROVE <<a>> \o <<b>> = <<a, b>>
<1> DEFINE s == <<a>> \o <<b>>
           t == <<a, b>>
<1>1. s \in Seq({a, b}) /\ Len(s) = 2 /\ s[1] = a /\ s[2] = b
  OBVIOUS
<1>2. t \in Seq({a, b}) /\ Len(t) = 2 /\ t[1] = a /\ t[2] = b
  OBVIOUS
<1> HIDE DEF s, t
<1>3. s = t
  <2>1. \A i \in 1 .. Len(s) : s[i] = t[i]
    BY <1>1, <1>2
  <2> QED BY <1>1, <1>2, <2>1, SeqEqual
<1> QED BY <1>3 DEF s, t

\* The frames of an answer are at most one of each kind.
LEMMA FramesTyped ==
    /\ \/ TokenFrames = <<>>
       \/ TokenFrames = <<[event |-> "token", data |-> StripReasoning(LastAnswer)]>>
    /\ \/ CitationFrames = <<>>
       \/ CitationFrames = <<[event |-> "citation", data |-> Citations]>>
BY DEF TokenFrames, CitationFrames

\* No message has another kind.
LEMMA KindsStay ==
    ASSUME \A i \in DOMAIN messages : messages[i].kind \in {"human", "ai", "tool"},
           MessagesTyped, NEW m \in Message, messages' = Append(messages, m)
    PROVE  \A i \in DOMAIN messages' : messages'[i].kind \in {"human", "ai", "tool"}
<1>1. \A i \in DOMAIN messages' : messages'[i] \in Message
  BY DEF MessagesTyped
<1> QED BY <1>1 DEF Message

\* Every step of the loop and of the handler keeps the invariant.
LEMMA TurnStep == TurnInv /\ [Next]_vars => TurnInv'
<1> SUFFICES ASSUME TurnInv, [Next]_vars PROVE TurnInv'
  OBVIOUS
<1> USE DEF TurnInv
<1>1. CASE CallTool
  <2>1. PICK content \in Asides, n \in 1 .. MaxCalls :
           messages' = Append(messages, Ai(content)) /\ pending' = n
    BY <1>1 DEF CallTool
  <2>2. /\ Ai(content) \in Message /\ Ai(content).kind = "ai"
        /\ NamesOf(Ai(content).docs) = {}
    BY ModelAssumption, AiTyped
  <2>3. /\ phase = "model" /\ phase' = "tools" /\ steps < MaxSteps /\ steps' = steps + 1
        /\ UNCHANGED <<show, sent, found>>
    BY <1>1 DEF CallTool
  <2>4. MessagesTyped' /\ FoundInTurn'
    <3>1. found' = found \cup NamesOf(Ai(content).docs)
      BY <2>2, <2>3
    <3> QED BY <2>1, <2>2, <3>1, MessageAdded
  <2>5. \A i \in DOMAIN messages' : messages'[i].kind \in {"human", "ai", "tool"}
    BY <2>1, <2>2, KindsStay DEF TypeOK
  <2>6. TypeOK'
    BY <2>1, <2>3, <2>5, ModelAssumption DEF TypeOK
  <2>7. AnswerLast' /\ SentSoFar'
    BY <2>3 DEF AnswerLast, SentSoFar
  <2> QED BY <2>4, <2>6, <2>7
<1>2. CASE Search
  <2>1. PICK docs \in Found :
           /\ messages' = Append(messages, Tool(docs))
           /\ found' = found \cup {<<FileName(docs[i]), PageOf(docs[i])>> : i \in DOMAIN docs}
    BY <1>2 DEF Search
  <2>2. Tool(docs) \in Message /\ Tool(docs).kind = "tool" /\ Tool(docs).docs = docs
    BY ToolTyped
  <2>3. /\ phase = "tools" /\ pending' = pending - 1
        /\ phase' = IF pending = 1 THEN "model" ELSE "tools"
        /\ UNCHANGED <<steps, show, sent>>
    BY <1>2 DEF Search
  <2>4. MessagesTyped' /\ FoundInTurn'
    <3>1. found' = found \cup NamesOf(Tool(docs).docs)
      BY <2>1, <2>2 DEF NamesOf
    <3> QED BY <2>1, <2>2, <3>1, MessageAdded
  <2>5. \A i \in DOMAIN messages' : messages'[i].kind \in {"human", "ai", "tool"}
    BY <2>1, <2>2, KindsStay DEF TypeOK
  <2>6. TypeOK'
    BY <2>3, <2>5, ModelAssumption DEF TypeOK
  <2>7. AnswerLast' /\ SentSoFar'
    BY <2>3 DEF AnswerLast, SentSoFar
  <2> QED BY <2>4, <2>6, <2>7
<1>3. CASE Answer
  <2>1. PICK content \in Replies : messages' = Append(messages, Ai(content))
    BY <1>3 DEF Answer
  <2>2. /\ Ai(content) \in Message /\ Ai(content).kind = "ai"
        /\ Ai(content).content = content /\ NamesOf(Ai(content).docs) = {}
    BY ModelAssumption, AiTyped
  <2>3. phase = "model" /\ phase' = "answer" /\ UNCHANGED <<pending, steps, show, sent, found>>
    BY <1>3 DEF Answer
  <2>4. MessagesTyped' /\ FoundInTurn' /\ messages'[Len(messages')] = Ai(content)
    <3>1. found' = found \cup NamesOf(Ai(content).docs)
      BY <2>2, <2>3
    <3> QED BY <2>1, <2>2, <3>1, MessageAdded
  <2>5. \A i \in DOMAIN messages' : messages'[i].kind \in {"human", "ai", "tool"}
    BY <2>1, <2>2, KindsStay DEF TypeOK
  <2>6. TypeOK'
    BY <2>3, <2>5 DEF TypeOK
  <2>7. AnswerLast' /\ SentSoFar'
    BY <2>2, <2>3, <2>4 DEF AnswerLast, SentSoFar
  <2> QED BY <2>4, <2>6, <2>7
<1>4. ASSUME UNCHANGED <<messages, found>> PROVE MessagesTyped' /\ FoundInTurn'
  <2>1. TurnStart' = TurnStart
    BY <1>4 DEF TurnStart, LastOf
  <2> QED BY <1>4, <2>1 DEF MessagesTyped, FoundInTurn, NamesOf, FileName, PageOf
<1>5. CASE TurnRaises
  <2> DEFINE error == [event |-> "error", data |-> <<>>]
  <2>1. /\ phase \in {"model", "tools", "answer", "cite"} /\ phase' = "ended" /\ pending' = 0
        /\ sent' = Append(sent, error)
        /\ UNCHANGED <<messages, steps, show, found>>
    BY <1>5 DEF TurnRaises, Transmit
  <2>2. UNCHANGED TokenFrames
    BY <2>1, SameMessages
  <2>3. CASE phase = "cite"
    <3>1. sent = TokenFrames /\ sent' = Append(TokenFrames, error)
      BY <2>1, <2>3 DEF SentSoFar
    <3>2. TypeOK'
      BY <2>1, <3>1, FramesTyped, ModelAssumption DEF TypeOK
    <3>3. AnswerLast' /\ SentSoFar'
      BY <2>1, <2>2, <2>3, <3>1 DEF AnswerLast, SentSoFar
    <3> QED BY <1>4, <2>1, <3>2, <3>3
  <2>4. CASE phase # "cite"
    <3>1. sent' = <<error>>
      <4>1. sent = <<>>
        BY <2>1, <2>4 DEF SentSoFar
      <4> HIDE DEF error
      <4> QED BY <2>1, <4>1
    <3>2. TypeOK'
      BY <2>1, <3>1, ModelAssumption DEF TypeOK
    <3>3. AnswerLast' /\ SentSoFar'
      BY <2>1, <3>1 DEF AnswerLast, SentSoFar
    <3> QED BY <1>4, <2>1, <3>2, <3>3
  <2> QED BY <2>3, <2>4
<1>6. CASE SendAnswer
  <2>1. /\ phase = "answer" /\ phase' = "cite" /\ sent = <<>>
        /\ UNCHANGED <<messages, pending, steps, show, found>>
    BY <1>6 DEF SendAnswer, SentSoFar
  <2>2. sent' = TokenFrames
    BY <1>6, <2>1 DEF SendAnswer, Transmit, TokenFrames
  <2>3. UNCHANGED TokenFrames
    BY <2>1, SameMessages
  <2>4. TypeOK'
    BY <2>1, <2>2, FramesTyped DEF TypeOK
  <2>5. AnswerLast' /\ SentSoFar'
    BY <2>1, <2>2, <2>3 DEF AnswerLast, SentSoFar
  <2> QED BY <1>4, <2>1, <2>4, <2>5
<1>7. CASE SendCitations
  <2>1. /\ phase = "cite" /\ phase' = "done" /\ sent = TokenFrames
        /\ UNCHANGED <<messages, pending, steps, show, found>>
    BY <1>7 DEF SendCitations, SentSoFar
  <2>2. sent' = TokenFrames \o CitationFrames
    <3>1. PICK T : TokenFrames \in Seq(T)
      <4> DEFINE f == [event |-> "token", data |-> StripReasoning(LastAnswer)]
      <4>1. TokenFrames = <<>> \/ TokenFrames = <<f>>
        BY FramesTyped
      <4> HIDE DEF f
      <4>2. <<>> \in Seq({f}) /\ <<f>> \in Seq({f})
        OBVIOUS
      <4> QED BY <4>1, <4>2
    <3>2. CASE Citations = <<>>
      <4>1. sent' = sent /\ CitationFrames = <<>>
        BY <1>7, <3>2 DEF SendCitations, CitationFrames
      <4> QED BY <4>1, <3>1, <2>1, ConcatEmptySeq
    <3>3. CASE Citations # <<>>
      <4> DEFINE f == [event |-> "citation", data |-> Citations]
      <4>1. sent' = Append(TokenFrames, f) /\ CitationFrames = <<f>>
        BY <1>7, <2>1, <3>3 DEF SendCitations, CitationFrames, Transmit
      <4> HIDE DEF f
      <4>2. TokenFrames \o <<f>> = Append(TokenFrames, f)
        BY <3>1, AppendIs
      <4> QED BY <4>1, <4>2
    <3> QED BY <3>2, <3>3
  <2>3. UNCHANGED <<TokenFrames, CitationFrames>>
    BY <2>1, SameMessages
  <2>4. TypeOK'
    BY <2>1, <2>2, FramesTyped DEF TypeOK
  <2>5. AnswerLast' /\ SentSoFar'
    BY <2>1, <2>2, <2>3 DEF AnswerLast, SentSoFar
  <2> QED BY <1>4, <2>1, <2>4, <2>5
<1>8. CASE SendDone
  <2>1. /\ phase = "done" /\ phase' = "ended" /\ sent = TokenFrames \o CitationFrames
        /\ sent' = Append(sent, [event |-> "done", data |-> <<>>])
        /\ UNCHANGED <<messages, pending, steps, show, found>>
    BY <1>8 DEF SendDone, SentSoFar, Transmit
  <2>2. UNCHANGED <<TokenFrames, CitationFrames>>
    BY <2>1, SameMessages
  <2>3. TypeOK'
    BY SMTT(20), <2>1, FramesTyped DEF TypeOK
  <2>4. AnswerLast' /\ SentSoFar'
    BY <2>1, <2>2 DEF AnswerLast, SentSoFar
  <2> QED BY <1>4, <2>1, <2>3, <2>4
<1>9. CASE UNCHANGED vars
  <2>1. UNCHANGED <<messages, phase, pending, steps, show, sent, found>>
    BY <1>9 DEF vars
  <2>2. UNCHANGED <<TokenFrames, CitationFrames>>
    BY <2>1, SameMessages
  <2>3. TypeOK'
    BY <2>1 DEF TypeOK
  <2>4. AnswerLast' /\ SentSoFar'
    BY <2>1, <2>2 DEF AnswerLast, SentSoFar
  <2> QED BY <1>4, <2>1, <2>3, <2>4
<1> QED BY <1>1, <1>2, <1>3, <1>5, <1>6, <1>7, <1>8, <1>9 DEF Next

TokenFrame == [event |-> "token", data |-> StripReasoning(LastAnswer)]
CitationFrame == [event |-> "citation", data |-> Citations]

\* What has been sent are these frames, and after its step each that is due.
LEMMA SentFrames ==
    ASSUME TurnInv
    PROVE  /\ \A i \in DOMAIN sent :
                 \/ /\ sent[i] = TokenFrame /\ TokenFrame.data # <<>>
                    /\ phase \in {"cite", "done", "ended"}
                    /\ messages[Len(messages)].kind = "ai"
                    /\ messages[Len(messages)].content \in Replies
                 \/ sent[i] = CitationFrame /\ CitationFrame.data # <<>>
                 \/ sent[i].event \in {"done", "error"}
           /\ phase \in {"cite", "done"} /\ TokenFrame.data # <<>> =>
                 \E i \in DOMAIN sent : sent[i] = TokenFrame
           /\ phase = "done" /\ CitationFrame.data # <<>> =>
                 \E i \in DOMAIN sent : sent[i] = CitationFrame
<1> USE DEF TurnInv
<1> DEFINE done == [event |-> "done", data |-> <<>>]
           error == [event |-> "error", data |-> <<>>]
<1>1. /\ \/ TokenFrame.data = <<>> /\ TokenFrames = <<>>
         \/ TokenFrame.data # <<>> /\ TokenFrames = <<TokenFrame>>
      /\ \/ CitationFrame.data = <<>> /\ CitationFrames = <<>>
         \/ CitationFrame.data # <<>> /\ CitationFrames = <<CitationFrame>>
  BY DEF TokenFrames, CitationFrames, TokenFrame, CitationFrame
<1>2. CASE phase \in {"model", "tools", "answer"}
  BY <1>2 DEF SentSoFar
<1>3. CASE phase = "cite"
  BY <1>1, <1>3 DEF SentSoFar, AnswerLast
<1>4. CASE phase = "done"
  <2>1. /\ sent = TokenFrames \o CitationFrames
        /\ messages[Len(messages)].kind = "ai" /\ messages[Len(messages)].content \in Replies
    BY <1>4 DEF SentSoFar, AnswerLast
  <2> DEFINE P(s) ==
         /\ \A i \in DOMAIN s :
              \/ s[i] = TokenFrame /\ TokenFrame.data # <<>>
              \/ s[i] = CitationFrame /\ CitationFrame.data # <<>>
         /\ TokenFrame.data # <<>> => \E i \in DOMAIN s : s[i] = TokenFrame
         /\ CitationFrame.data # <<>> => \E i \in DOMAIN s : s[i] = CitationFrame
  <2>2. P(TokenFrames \o CitationFrames)
    <3>1. CASE TokenFrames = <<>> /\ CitationFrames = <<>>
      <4>1. TokenFrames \o CitationFrames = <<>>
        BY <3>1
      <4> QED BY <1>1, <3>1, <4>1
    <3>2. CASE TokenFrames = <<>> /\ CitationFrames = <<CitationFrame>>
      <4>1. TokenFrames \o CitationFrames = <<CitationFrame>>
        BY <3>2
      <4> QED BY <1>1, <3>2, <4>1
    <3>3. CASE TokenFrames = <<TokenFrame>> /\ CitationFrames = <<>>
      <4>1. TokenFrames \o CitationFrames = <<TokenFrame>>
        BY <3>3
      <4> QED BY <1>1, <3>3, <4>1
    <3>4. CASE TokenFrames = <<TokenFrame>> /\ CitationFrames = <<CitationFrame>>
      <4> DEFINE s == <<TokenFrame, CitationFrame>>
      <4>1. TokenFrames \o CitationFrames = s
        BY <3>4, PairIs
      <4>2. DOMAIN s = {1, 2} /\ s[1] = TokenFrame /\ s[2] = CitationFrame
        OBVIOUS
      <4>3. TokenFrame.data # <<>> /\ CitationFrame.data # <<>>
        BY <1>1, <3>4
      <4> HIDE DEF s
      <4> QED BY <4>1, <4>2, <4>3
    <3> QED BY <1>1, <3>1, <3>2, <3>3, <3>4
  <2> QED BY <1>4, <2>1, <2>2
<1>5. CASE phase = "ended"
  <2>1. CASE sent = <<[event |-> "error", data |-> <<>>]>>
    BY <1>5, <2>1
  <2>2. CASE /\ sent = Append(TokenFrames \o CitationFrames, done)
             /\ messages[Len(messages)].kind = "ai" /\ messages[Len(messages)].content \in Replies
    <3>1. done.event = "done"
      OBVIOUS
    <3> HIDE DEF done
    <3> QED BY <1>1, <1>5, <2>2, <3>1
  <2>3. CASE /\ sent = Append(TokenFrames, error)
             /\ messages[Len(messages)].kind = "ai" /\ messages[Len(messages)].content \in Replies
    <3>1. error.event = "error"
      OBVIOUS
    <3> HIDE DEF error
    <3> QED BY <1>1, <1>5, <2>3, <3>1
  <2> QED BY <1>5, <2>1, <2>2, <2>3 DEF SentSoFar
<1> QED BY <1>2, <1>3, <1>4, <1>5 DEF TypeOK

\* What the invariant says of each property: the types;
LEMMA InvTypeOK == TurnInv => TypeOK
BY DEF TurnInv

\* that the one token frame is the stripped answer, which has none of its blocks;
LEMMA InvReasoningHidden == TurnInv => ReasoningHidden
<1> SUFFICES ASSUME TurnInv, ~ show, NEW data \in SentAs("token")
             PROVE  \E S \in SUBSET DOMAIN LastAnswer :
                       data = Only(LastAnswer, S) /\ ~ \E i, j \in S : Closes(LastAnswer, i, j)
  BY DEF ReasoningHidden
<1>1. PICK k \in DOMAIN sent : sent[k].event = "token" /\ sent[k].data = data
  BY DEF SentAs
<1>2. /\ data = StripReasoning(LastAnswer)
      /\ messages[Len(messages)].kind = "ai" /\ messages[Len(messages)].content \in Replies
  BY <1>1, SentFrames DEF TokenFrame, CitationFrame
<1>3. LastAnswer \in Seq(Token)
  BY <1>2, LastAnswerIs, ModelAssumption DEF TurnInv
<1> QED BY <1>2, <1>3, StripIs

\* that it has all of the answer that stands beside its blocks;
LEMMA InvAnswerKept == TurnInv => AnswerKept
<1> SUFFICES ASSUME TurnInv, phase \in {"cite", "done"}
             PROVE  IF SentAs("token") = {} THEN Outside(LastAnswer) = {}
                    ELSE \A data \in SentAs("token") :
                           \E S \in SUBSET DOMAIN LastAnswer :
                              Outside(LastAnswer) \subseteq S /\ data = Only(LastAnswer, S)
  BY DEF AnswerKept
<1>1. messages[Len(messages)].kind = "ai" /\ messages[Len(messages)].content \in Replies
  BY DEF TurnInv, AnswerLast
<1>2. LastAnswer \in Seq(Token)
  BY <1>1, LastAnswerIs, ModelAssumption DEF TurnInv
<1>3. /\ StripReasoning(LastAnswer) = <<>> => Outside(LastAnswer) = {}
      /\ \E S \in SUBSET DOMAIN LastAnswer :
            Outside(LastAnswer) \subseteq S /\ StripReasoning(LastAnswer) = Only(LastAnswer, S)
  BY <1>2, StripIs
<1>4. \A data \in SentAs("token") : data = StripReasoning(LastAnswer)
  BY SentFrames DEF SentAs, TokenFrame, CitationFrame
<1>5. SentAs("token") = {} => StripReasoning(LastAnswer) = <<>>
  <2> SUFFICES ASSUME StripReasoning(LastAnswer) # <<>> PROVE SentAs("token") # {}
    OBVIOUS
  <2>1. PICK i \in DOMAIN sent : sent[i] = TokenFrame
    BY SentFrames DEF TokenFrame
  <2>2. sent[i].event = "token"
    BY <2>1 DEF TokenFrame
  <2> QED BY <2>2 DEF SentAs
<1> QED BY <1>3, <1>4, <1>5

\* and that the sources, each once, are those of the messages after the question.
LEMMA InvCitesTheSearches == TurnInv => CitesTheSearches
<1> SUFFICES ASSUME TurnInv, phase = "done"
             PROVE  /\ UNION {{SourceOf(data[i]) : i \in DOMAIN data} : data \in SentAs("citation")} = found
                    /\ \A data \in SentAs("citation") : Len(data) = Cardinality(found)
  BY DEF CitesTheSearches
<1>1. /\ Citations \in Seq(Citation)
      /\ Distinct(Citations)
      /\ SourcesOf(Citations) = found
  <2>1. messages \in Seq(Message) /\ TurnStart \in 1 .. Len(messages)
    BY DEF TurnInv, MessagesTyped
  <2>2. TurnStart \in 0 .. Len(messages)
    BY <2>1
  <2> QED BY <2>1, <2>2, CitationsIs DEF TurnInv, FoundInTurn
<1>2. \A data \in SentAs("citation") : data = Citations
  BY SentFrames DEF SentAs, TokenFrame, CitationFrame
<1>3. Citations # <<>> => Citations \in SentAs("citation")
  <2> SUFFICES ASSUME Citations # <<>> PROVE Citations \in SentAs("citation")
    OBVIOUS
  <2>1. PICK i \in DOMAIN sent : sent[i] = CitationFrame
    BY SentFrames DEF CitationFrame
  <2>2. sent[i].event = "citation" /\ sent[i].data = Citations
    BY <2>1 DEF CitationFrame
  <2> QED BY <2>2 DEF SentAs
<1>4. UNION {SourcesOf(data) : data \in SentAs("citation")} = found
  <2>1. CASE Citations = <<>>
    <3>1. found = {}
      BY <1>1, <2>1 DEF SourcesOf
    <3> QED BY <1>1, <1>2, <3>1
  <2>2. CASE Citations # <<>>
    <3>1. SentAs("citation") = {Citations}
      BY <1>2, <1>3, <2>2
    <3> QED BY <1>1, <3>1
  <2> QED BY <2>1, <2>2
<1>5. Len(Citations) = Cardinality(found)
  <2>1. PICK n \in Nat : n = Len(Citations)
    BY <1>1
  <2>2. DOMAIN Citations = 1 .. n
    BY <1>1, <2>1
  <2> DEFINE F == [i \in 1 .. n |-> SourceOf(Citations[i])]
  <2>3. F \in [1 .. n -> found]
    BY <1>1, <2>2 DEF SourcesOf
  <2>4. \A i, j \in 1 .. n : F[i] = F[j] => i = j
    BY <1>1, <2>2 DEF Distinct
  <2>5. \A x \in found : \E i \in 1 .. n : F[i] = x
    BY <1>1, <2>2 DEF SourcesOf
  <2> HIDE DEF F
  <2>6. F \in Bijection(1 .. n, found)
    BY <2>3, <2>4, <2>5, Fun_IsBij
  <2>7. ExistsBijection(1 .. n, found)
    BY <2>6 DEF ExistsBijection
  <2> QED BY <2>1, <2>7, FS_CountingElements
<1> QED BY <1>2, <1>4, <1>5 DEF SourcesOf

-------------------------------------------------------------------------------
(* The theorems.                                                           *)

\* The invariant holds throughout a turn.
LEMMA TurnInvariant == Spec => []TurnInv
BY TurnInit, TurnStep, PTL DEF Spec

\* Every variable keeps its type, and the loop its limits, for whatever bounds.
THEOREM TurnTypeCorrect == Spec => []TypeOK
BY TurnInvariant, InvTypeOK, PTL

\* For answers of any length with tags of any kinds, whole or in halves, no block
\* of the answer is shown unless reasoning is asked for (_strip_reasoning of
\* routes_chat.py); what the one pass brings together is not part of it.
THEOREM AlwaysReasoningHidden == Spec => []ReasoningHidden
BY TurnInvariant, InvReasoningHidden, PTL

\* For answers of any length, what stands beside their blocks is sent, and only
\* an answer of which that is nothing is not (chat of routes_chat.py).
THEOREM AlwaysAnswerKept == Spec => []AnswerKept
BY TurnInvariant, InvAnswerKept, PTL

\* For any number of searches and whatever they find, files of one name and
\* documents without a path included, the sources shown are the names and pages
\* of what was found, each once (_extract_current_turn_citations, to_citations).
THEOREM AlwaysCitesTheSearches == Spec => []CitesTheSearches
BY TurnInvariant, InvCitesTheSearches, PTL

-------------------------------------------------------------------------------
(* The refinement.                                                         *)

FrameOf(f) == [event |-> f.event, size |-> IF f.event = "token" THEN Len(f.data) ELSE 0]

FramesOf(s) == [i \in DOMAIN s |-> FrameOf(s[i])]

\* A frame more is a frame more for the page.
LEMMA FrameAdded ==
    ASSUME NEW T, NEW s \in Seq(T), NEW f
    PROVE  /\ FramesOf(Append(s, f)) = FramesOf(s) \o <<FrameOf(f)>>
           /\ FramesOf(s) \in Seq({FrameOf(s[i]) : i \in DOMAIN s})
<1>1. PICK n \in Nat : n = Len(s)
  OBVIOUS
<1> DEFINE R == {FrameOf(s[i]) : i \in DOMAIN s} \cup {FrameOf(f)}
           more == Append(s, f)
           left == FramesOf(more)
           right == FramesOf(s) \o <<FrameOf(f)>>
<1>2. /\ DOMAIN s = 1 .. n /\ DOMAIN more = 1 .. n + 1
      /\ more[n + 1] = f /\ \A i \in 1 .. n : more[i] = s[i]
  BY <1>1
<1> HIDE DEF more
<1>3. FramesOf(s) \in Seq({FrameOf(s[i]) : i \in DOMAIN s})
  <2>1. FramesOf(s) \in [1 .. n -> {FrameOf(s[i]) : i \in DOMAIN s}]
    BY <1>2 DEF FramesOf
  <2> QED BY <2>1, IsASeq
<1>4. /\ FramesOf(s) \in Seq(R) /\ Len(FramesOf(s)) = n
      /\ \A i \in 1 .. n : FramesOf(s)[i] = FrameOf(s[i])
  <2>1. FramesOf(s) \in [1 .. n -> R]
    BY <1>2 DEF FramesOf
  <2>2. FramesOf(s) \in Seq(R) /\ Len(FramesOf(s)) = n
    <3> HIDE DEF R
    <3> QED BY <2>1, IsASeq, LenProperties
  <2> QED BY <2>2, <1>2 DEF FramesOf
<1>5. /\ left \in Seq(R) /\ Len(left) = n + 1
      /\ left[n + 1] = FrameOf(f)
      /\ \A i \in 1 .. n : left[i] = FrameOf(s[i])
  <2>1. \A i \in 1 .. n + 1 : i = n + 1 \/ i \in 1 .. n
    OBVIOUS
  <2>2. left \in [1 .. n + 1 -> R]
    BY <1>2, <2>1 DEF FramesOf
  <2>3. left \in Seq(R) /\ Len(left) = n + 1
    <3> HIDE DEF R, left
    <3> QED BY <2>2, IsASeq, LenProperties
  <2> QED BY <2>3, <1>2 DEF FramesOf
<1>6. /\ right \in Seq(R) /\ Len(right) = n + 1
      /\ right[n + 1] = FrameOf(f)
      /\ \A i \in 1 .. n : right[i] = FrameOf(s[i])
  <2>1. <<FrameOf(f)>> \in Seq(R) /\ Len(<<FrameOf(f)>>) = 1
    OBVIOUS
  <2> HIDE DEF R
  <2> QED BY <1>4, <2>1, ConcatProperties
<1>7. left = right
  <2> HIDE DEF left, right, R
  <2>1. \A i \in 1 .. n + 1 : i = n + 1 \/ i \in 1 .. n
    OBVIOUS
  <2>2. \A i \in 1 .. n + 1 : left[i] = right[i]
    BY <1>5, <1>6, <2>1
  <2> QED BY <1>5, <1>6, <2>2, SeqEqual
<1> QED BY <1>3, <1>7 DEF more

\* What has been sent is a sequence, which the lemmas on sequences ask for.
LEMMA SentIsSequence ==
    ASSUME TurnInv
    PROVE  \E T : sent \in Seq(T)
<1> DEFINE done == [event |-> "done", data |-> <<>>]
           error == [event |-> "error", data |-> <<>>]
           T == {TokenFrame, CitationFrame, done, error}
<1>1. TokenFrames \in Seq(T) /\ CitationFrames \in Seq(T) /\ done \in T /\ error \in T
  <2>1. TokenFrames = <<>> \/ TokenFrames = <<TokenFrame>>
    BY DEF TokenFrames, TokenFrame
  <2>2. CitationFrames = <<>> \/ CitationFrames = <<CitationFrame>>
    BY DEF CitationFrames, CitationFrame
  <2>3. <<>> \in Seq(T) /\ <<TokenFrame>> \in Seq(T) /\ <<CitationFrame>> \in Seq(T) /\ done \in T
        /\ error \in T
    <3> HIDE DEF done, error
    <3> QED OBVIOUS
  <2> HIDE DEF T
  <2> QED BY <2>1, <2>2, <2>3
<1>2. <<error>> \in Seq(T) /\ <<>> \in Seq(T)
  OBVIOUS
<1>3. \/ sent = <<>> \/ sent = TokenFrames \/ sent = TokenFrames \o CitationFrames
      \/ sent = Append(TokenFrames \o CitationFrames, done) \/ sent = <<error>>
      \/ sent = Append(TokenFrames, error)
  BY DEF TurnInv, SentSoFar, TypeOK
<1> HIDE DEF T, done, error
<1>4. TokenFrames \o CitationFrames \in Seq(T)
  BY <1>1, ConcatProperties
<1>5. Append(TokenFrames \o CitationFrames, done) \in Seq(T)
  BY <1>1, <1>4, AppendProperties
<1>6. Append(TokenFrames, error) \in Seq(T)
  BY <1>1, AppendProperties
<1>7. sent \in Seq(T)
  BY <1>1, <1>2, <1>3, <1>4, <1>5, <1>6
<1> QED BY <1>7

\* A frame that is sent while the turn goes on comes last.
LEMMA FrameSent ==
    ASSUME TurnInv, phase # "ended", phase' # "ended", NEW f, sent' = Append(sent, f)
    PROVE  Frames' = Frames \o <<FrameOf(f)>>
<1>1. PICK T : sent \in Seq(T)
  BY SentIsSequence
<1>2. Frames = FramesOf(sent) \o <<>> /\ Frames' = FramesOf(sent)' \o <<>>
  BY DEF Frames, FramesOf, FrameOf
<1>3. FramesOf(sent)' = FramesOf(sent) \o <<FrameOf(f)>>
  <2>1. FramesOf(sent)' = FramesOf(Append(sent, f))
    BY DEF FramesOf, FrameOf
  <2> QED BY <2>1, <1>1, FrameAdded
<1>4. PICK R : FramesOf(sent) \in Seq(R)
  BY <1>1, FrameAdded
<1>5. Frames = FramesOf(sent)
  BY <1>2, <1>4, ConcatEmptySeq
<1>6. FramesOf(sent) \o <<FrameOf(f)>> \in Seq(R \cup {FrameOf(f)})
  BY <1>4
<1> QED BY <1>2, <1>3, <1>5, <1>6, ConcatEmptySeq

\* The last frame of a turn is followed by the end of the connection.
LEMMA LastFrameSent ==
    ASSUME TurnInv, phase # "ended", phase' = "ended", NEW f, sent' = Append(sent, f)
    PROVE  Frames' = Frames \o <<FrameOf(f), [event |-> "end", size |-> 0]>>
<1> DEFINE end == [event |-> "end", size |-> 0]
<1>1. PICK T : sent \in Seq(T)
  BY SentIsSequence
<1>2. Frames = FramesOf(sent) \o <<>> /\ Frames' = FramesOf(sent)' \o <<end>>
  BY DEF Frames, FramesOf, FrameOf
<1>3. FramesOf(sent)' = FramesOf(sent) \o <<FrameOf(f)>>
  <2>1. FramesOf(sent)' = FramesOf(Append(sent, f))
    BY DEF FramesOf, FrameOf
  <2> QED BY <2>1, <1>1, FrameAdded
<1>4. PICK R : FramesOf(sent) \in Seq(R)
  BY <1>1, FrameAdded
<1>5. Frames = FramesOf(sent)
  BY <1>2, <1>4, ConcatEmptySeq
<1> HIDE DEF end
<1> DEFINE U == R \cup {FrameOf(f), end}
<1>6. FramesOf(sent) \in Seq(U) /\ <<FrameOf(f)>> \in Seq(U) /\ <<end>> \in Seq(U)
  BY <1>4
<1>7. (FramesOf(sent) \o <<FrameOf(f)>>) \o <<end>> = FramesOf(sent) \o (<<FrameOf(f)>> \o <<end>>)
  <2> HIDE DEF U
  <2> QED BY <1>6, ConcatAssociative
<1>8. <<FrameOf(f)>> \o <<end>> = <<FrameOf(f), end>>
  BY PairIs
<1> QED BY <1>2, <1>3, <1>5, <1>7, <1>8 DEF end

\* What a step of the handler of ChatServer does with one connection.
LEMMA EndpointMoves ==
    ASSUME NEW state, NEW more, HandlerOf' = state, Frames' = Frames \o more
    PROVE  Endpoint!Goto(1, state) /\ Endpoint!Transmit(1, more) /\ Endpoint!Connected(1)
<1>1. \A x, y : [<<x>> EXCEPT ![1] = y] = <<y>>
  OBVIOUS
<1>2. <<HandlerOf>>' = [<<HandlerOf>> EXCEPT ![1] = state]
  BY <1>1
<1>3. <<Frames>>' = [<<Frames>> EXCEPT ![1] = Frames \o more]
  BY <1>1
<1>4. <<Frames>>[1] = Frames
  OBVIOUS
<1> QED BY <1>2, <1>3, <1>4 DEF Endpoint!Goto, Endpoint!Transmit, Endpoint!Connected

\* Every step is one of the handler of ChatServer, or is hidden in its agent.
LEMMA EndpointStep ==
    ASSUME TurnInv, [Next]_vars
    PROVE  Endpoint!Handle(1) \/ UNCHANGED <<HandlerOf, Frames>>
<1>1. ASSUME UNCHANGED <<sent, HandlerOf>>, phase # "ended", phase' # "ended"
      PROVE  UNCHANGED <<HandlerOf, Frames>>
  BY <1>1 DEF Frames
<1>2. CASE CallTool \/ Search \/ Answer
  <2>1. UNCHANGED sent /\ phase \in {"model", "tools"} /\ phase' \in {"model", "tools", "answer"}
    BY <1>2 DEF CallTool, Search, Answer
  <2>2. UNCHANGED HandlerOf
    BY <2>1 DEF HandlerOf
  <2> QED BY <1>1, <2>1, <2>2
<1>3. CASE TurnRaises
  <2> DEFINE f == [event |-> "error", data |-> <<>>]
  <2>1. /\ phase \in {"model", "tools", "answer", "cite"} /\ phase' = "ended"
        /\ sent' = Append(sent, f)
    BY <1>3 DEF TurnRaises, Transmit
  <2>2. HandlerOf \in {"agent", "cite"} /\ HandlerOf' = "ended"
    BY <2>1 DEF HandlerOf
  <2>3. FrameOf(f) = Endpoint!Frame("error", 0)
    BY DEF FrameOf, Endpoint!Frame
  <2>4. Frames' = Frames \o <<Endpoint!Frame("error", 0), Endpoint!Frame("end", 0)>>
    <3> HIDE DEF f
    <3> QED BY <2>1, <2>3, LastFrameSent DEF Endpoint!Frame
  <2>5. Endpoint!AgentError(1)
    BY <2>2, <2>4, EndpointMoves DEF Endpoint!AgentError
  <2> QED BY <2>5 DEF Endpoint!Handle
<1>4. CASE SendAnswer
  <2> DEFINE answer == StripReasoning(LastAnswer)
             f == [event |-> "token", data |-> answer]
  <2>1. phase = "answer" /\ phase' = "cite"
    BY <1>4 DEF SendAnswer
  <2>2. HandlerOf = "agent" /\ HandlerOf' = "cite"
    BY <2>1 DEF HandlerOf
  <2>3. LastAnswer \in Replies /\ LastAnswer \in Seq(Token)
    BY <2>1, LastAnswerIs, ModelAssumption DEF TurnInv, AnswerLast
  <2>4. answer \in Seq(Token) /\ Len(answer) <= Len(LastAnswer)
    BY <2>3, StripIs
  <2> HIDE DEF answer
  <2>5. Len(answer) \in Sizes /\ 0 \in Sizes
    BY <2>3, <2>4 DEF Sizes
  <2>6. \E size \in Sizes :
           Frames' = Frames \o (IF size > 0 THEN <<Endpoint!Frame("token", size)>> ELSE <<>>)
    <3>1. CASE answer = <<>>
      <4>1. sent' = sent
        BY <1>4, <3>1 DEF SendAnswer, answer
      <4>2. Frames' = Frames
        BY <2>1, <4>1 DEF Frames
      <4>3. PICK T : sent \in Seq(T)
        BY SentIsSequence
      <4>4. PICK R : FramesOf(sent) \in Seq(R)
        BY <4>3, FrameAdded
      <4>5. Frames = FramesOf(sent) \o <<>>
        BY <2>1 DEF Frames, FramesOf, FrameOf
      <4>6. Frames \o <<>> = Frames
        BY <4>4, <4>5, ConcatEmptySeq
      <4>7. (IF 0 > 0 THEN <<Endpoint!Frame("token", 0)>> ELSE <<>>) = <<>>
        OBVIOUS
      <4> QED BY <2>5, <4>2, <4>6, <4>7
    <3>2. CASE answer # <<>>
      <4>1. sent' = Append(sent, f)
        BY <1>4, <3>2 DEF SendAnswer, Transmit, answer
      <4>2. FrameOf(f) = Endpoint!Frame("token", Len(answer))
        BY DEF FrameOf, Endpoint!Frame
      <4>3. Len(answer) > 0
        BY <2>4, <3>2
      <4>4. Frames' = Frames \o <<Endpoint!Frame("token", Len(answer))>>
        <5> HIDE DEF f
        <5> QED BY <2>1, <4>1, <4>2, FrameSent
      <4> QED BY <2>5, <4>3, <4>4
    <3> QED BY <3>1, <3>2
  <2>7. Endpoint!Answer(1)
    BY <2>2, <2>6, EndpointMoves DEF Endpoint!Answer
  <2> QED BY <2>7 DEF Endpoint!Handle
<1>5. CASE SendCitations
  <2> DEFINE f == [event |-> "citation", data |-> Citations]
  <2>1. phase = "cite" /\ phase' = "done"
    BY <1>5 DEF SendCitations
  <2>2. HandlerOf = "cite" /\ HandlerOf' = "done"
    BY <2>1 DEF HandlerOf
  <2>3. \E more \in {<<>>, <<Endpoint!Frame("citation", 0)>>} : Frames' = Frames \o more
    <3>1. CASE Citations = <<>>
      <4>1. sent' = sent
        BY <1>5, <3>1 DEF SendCitations
      <4>2. Frames' = Frames
        BY <2>1, <4>1 DEF Frames
      <4>3. PICK T : sent \in Seq(T)
        BY SentIsSequence
      <4>4. PICK R : FramesOf(sent) \in Seq(R)
        BY <4>3, FrameAdded
      <4>5. Frames = FramesOf(sent) \o <<>>
        BY <2>1 DEF Frames, FramesOf, FrameOf
      <4>6. Frames \o <<>> = Frames
        BY <4>4, <4>5, ConcatEmptySeq
      <4> QED BY <4>2, <4>6
    <3>2. CASE Citations # <<>>
      <4>1. sent' = Append(sent, f)
        BY <1>5, <3>2 DEF SendCitations, Transmit
      <4>2. FrameOf(f) = Endpoint!Frame("citation", 0)
        BY DEF FrameOf, Endpoint!Frame
      <4>3. Frames' = Frames \o <<Endpoint!Frame("citation", 0)>>
        <5> HIDE DEF f
        <5> QED BY <2>1, <4>1, <4>2, FrameSent
      <4> QED BY <4>3
    <3> QED BY <3>1, <3>2
  <2>4. Endpoint!Cite(1)
    BY <2>2, <2>3, EndpointMoves DEF Endpoint!Cite
  <2> QED BY <2>4 DEF Endpoint!Handle
<1>6. CASE SendDone
  <2> DEFINE f == [event |-> "done", data |-> <<>>]
  <2>1. phase = "done" /\ phase' = "ended" /\ sent' = Append(sent, f)
    BY <1>6 DEF SendDone, Transmit
  <2>2. HandlerOf = "done" /\ HandlerOf' = "ended"
    BY <2>1 DEF HandlerOf
  <2>3. FrameOf(f) = Endpoint!Frame("done", 0)
    BY DEF FrameOf, Endpoint!Frame
  <2>4. Frames' = Frames \o <<Endpoint!Frame("done", 0), Endpoint!Frame("end", 0)>>
    <3> HIDE DEF f
    <3> QED BY <2>1, <2>3, LastFrameSent DEF Endpoint!Frame
  <2>5. Endpoint!Finish(1)
    BY <2>2, <2>4, EndpointMoves DEF Endpoint!Finish
  <2> QED BY <2>5 DEF Endpoint!Handle
<1>7. CASE UNCHANGED vars
  BY <1>7 DEF vars, HandlerOf, Frames
<1> QED BY <1>2, <1>3, <1>4, <1>5, <1>6, <1>7 DEF Next

\* A turn of the agent is a turn as the handler of ChatServer chooses one, for
\* answers of any size: what is shown of ChatServer holds of the real turns.
THEOREM TurnImplementsEndpoint == Spec => ImplementsEndpoint
<1>1. TurnInv /\ [Next]_vars => [Endpoint!Handle(1)]_<<HandlerOf, Frames>>
  BY EndpointStep
<1> QED BY <1>1, TurnInvariant, PTL DEF Spec, ImplementsEndpoint
===============================================================================

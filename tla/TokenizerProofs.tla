-------------------------- MODULE TokenizerProofs --------------------------
(* Theorems about Tokenizer, for texts of any length and of any characters:  *)
(* the slices are in range, nothing of a text is lost or read twice, and a   *)
(* plain text is cut into the tokens a lexer of GraphQL cuts it into.        *)
EXTENDS Tokenizer, FiniteSetTheorems, TLAPS

(* NothingSkipped, a token and the gap after the last one at a time, over    *)
(* any sequence of tokens.                                                   *)
EndOf(ts, i) == IF i = 0 THEN 0 ELSE ts[i].to

BlankIn(t, from, to) == \A p \in from .. to : t[p] \in Insignificant

Placed(t, ts, i) ==
    /\ EndOf(ts, i - 1) < ts[i].from
    /\ ts[i].from <= ts[i].to
    /\ BlankIn(t, EndOf(ts, i - 1) + 1, ts[i].from - 1)

Waiting(t, ts, s) ==
    /\ EndOf(ts, Len(ts)) < s
    /\ BlankIn(t, EndOf(ts, Len(ts)) + 1, s - 1)

InOrder(t, ts, s) == (\A i \in DOMAIN ts : Placed(t, ts, i)) /\ Waiting(t, ts, s)

LEMMA SkippedIsInOrder == NothingSkipped <=> InOrder(text, tokens, start)
BY DEF NothingSkipped, InOrder, Placed, Waiting, End, EndOf, Blank, BlankIn

LEMMA EndTyped ==
    ASSUME NEW ts \in Seq(Token), NEW i \in 0 .. Len(ts)
    PROVE  EndOf(ts, i) \in Nat
<1>1. CASE i = 0
      BY <1>1 DEF EndOf
<1>2. CASE i # 0
  <2>1. ts[i] \in Token
        BY <1>2
  <2> QED BY <1>2, <2>1 DEF EndOf, Token
<1> QED BY <1>1, <1>2

(* A token that begins where the last gap ends keeps the order, and the next *)
(* gap is empty.                                                             *)
LEMMA YieldInOrder ==
    ASSUME NEW t, NEW ts \in Seq(Token), NEW s \in Nat, NEW e \in Nat,
           InOrder(t, ts, s), s <= e
    PROVE  /\ Append(ts, [from |-> s, to |-> e]) \in Seq(Token)
           /\ InOrder(t, Append(ts, [from |-> s, to |-> e]), e + 1)
<1> DEFINE k == [from |-> s, to |-> e]
           us == Append(ts, k)
<1>1. k \in Token /\ k.from = s /\ k.to = e
      BY DEF Token
<1> HIDE DEF k
<1>2. us \in Seq(Token)
      BY <1>1
<1>3. Len(us) = Len(ts) + 1 /\ us[Len(us)] = k
      BY <1>1
<1>4. \A i \in 1 .. Len(ts) : us[i] = ts[i]
      BY <1>1
<1> HIDE DEF us
<1>5. DOMAIN us = 1 .. Len(ts) + 1 /\ DOMAIN ts = 1 .. Len(ts) /\ Len(ts) \in Nat
      BY <1>2, <1>3
<1>6. \A i \in 0 .. Len(ts) : EndOf(us, i) = EndOf(ts, i)
      BY <1>4, <1>5 DEF EndOf
<1>7. ASSUME NEW i \in DOMAIN us
      PROVE  Placed(t, us, i)
  <2>1. CASE i \in 1 .. Len(ts)
    <3>1. us[i] = ts[i] /\ EndOf(us, i - 1) = EndOf(ts, i - 1)
          BY <1>4, <1>5, <1>6, <2>1
    <3>2. Placed(t, ts, i)
          BY <1>5, <2>1 DEF InOrder
    <3> QED BY <3>1, <3>2 DEF Placed
  <2>2. CASE i = Len(ts) + 1
    <3>1. us[i] = k /\ EndOf(us, i - 1) = EndOf(ts, Len(ts))
          BY <1>3, <1>5, <1>6, <2>2
    <3>2. Waiting(t, ts, s)
          BY DEF InOrder
    <3> QED BY <1>1, <3>1, <3>2 DEF Placed, Waiting
  <2> QED BY <1>5, <2>1, <2>2
<1>8. Waiting(t, us, e + 1)
  <2>1. EndOf(us, Len(us)) = e
        BY <1>1, <1>3, <1>5 DEF EndOf
  <2> QED BY <2>1 DEF Waiting, BlankIn
<1>9. InOrder(t, us, e + 1)
      BY <1>7, <1>8 DEF InOrder
<1> QED BY <1>2, <1>9 DEF us, k

(* Whitespace after the last token widens the gap.                           *)
LEMMA SkipInOrder ==
    ASSUME NEW t, NEW ts \in Seq(Token), NEW s \in Nat,
           InOrder(t, ts, s), t[s] \in Insignificant
    PROVE  InOrder(t, ts, s + 1)
<1>1. EndOf(ts, Len(ts)) \in Nat
      BY EndTyped
<1>2. EndOf(ts, Len(ts)) < s + 1
      BY <1>1 DEF InOrder, Waiting
<1>3. BlankIn(t, EndOf(ts, Len(ts)) + 1, s)
      BY <1>1 DEF InOrder, Waiting, BlankIn
<1> QED BY <1>2, <1>3 DEF InOrder, Waiting

-----------------------------------------------------------------------------
LEMMA TextTyped == ASSUME TypeOK PROVE Len(text) \in Nat /\ at \in Nat /\ start \in Nat
BY DEF TypeOK

LEMMA InitTyped == Init => TypeOK
<1> SUFFICES ASSUME NEW t \in Texts, New(t) PROVE TypeOK
    BY DEF Init
<1>1. text \in Seq(STRING)
      BY TextsAreText DEF New
<1>2. at \in 1 .. Len(text) + 1 /\ start = at
      BY DEF New, IsFirst
<1>3. tokens \in Seq(Token)
      BY DEF New
<1>4. split \in BOOLEAN /\ escaping \in BOOLEAN /\ in_quotes \in BOOLEAN /\ status = "reading"
      BY DEF New
<1>5. at \in Nat /\ start \in 1 .. at
      BY <1>1, <1>2
<1> QED BY <1>1, <1>2, <1>3, <1>4, <1>5 DEF TypeOK

LEMMA InitInOrder == Init => InOrder(text, tokens, start)
<1> SUFFICES ASSUME NEW t \in Texts, New(t) PROVE InOrder(text, tokens, start)
    BY DEF Init
<1>1. tokens = <<>> /\ text = t
      BY DEF New
<1>2. IsFirst(text, start)
      BY <1>1 DEF New
<1>3. Len(tokens) = 0 /\ DOMAIN tokens = {} /\ EndOf(tokens, Len(tokens)) = 0
      BY <1>1 DEF EndOf
<1>4. text \in Seq(STRING)
      BY TextsAreText, <1>1
<1>5. start \in Nat /\ 0 < start /\ BlankIn(text, 1, start - 1)
      BY <1>2, <1>4 DEF IsFirst, BlankIn
<1> QED BY <1>3, <1>5 DEF InOrder, Waiting

-----------------------------------------------------------------------------
(* A token may be returned up to any character from its first on.            *)
LEMMA YieldStep ==
    ASSUME TypeOK, InOrder(text, tokens, start), NEW e \in start .. Len(text), Yield(e)
    PROVE  TypeOK' /\ InOrder(text, tokens, start)'
<1>1. tokens \in Seq(Token) /\ start \in Nat /\ e \in Nat /\ start <= e
      BY TextTyped DEF TypeOK
<1>2. tokens' = Append(tokens, [from |-> start, to |-> e]) /\ start' = e + 1 /\ at' = e + 1
      BY DEF Yield, After
<1>3. tokens' \in Seq(Token) /\ InOrder(text, tokens', e + 1)
      BY <1>1, <1>2, YieldInOrder
<1>4. UNCHANGED text /\ UNCHANGED <<escaping, in_quotes, status>> /\ split' = FALSE
      BY DEF Yield
<1>5. at' \in 1 .. Len(text) + 1 /\ start' \in 1 .. at'
      BY <1>1, <1>2, TextTyped DEF TypeOK
<1>6. TypeOK'
      BY <1>3, <1>4, <1>5 DEF TypeOK
<1> QED BY <1>2, <1>3, <1>4, <1>6

LEMMA WordStep ==
    ASSUME TypeOK, InOrder(text, tokens, start), Word
    PROVE  TypeOK' /\ InOrder(text, tokens, start)'
<1>1. at - 1 \in start .. Len(text)
      BY TextTyped DEF Word, Breaking, More, Begun, TypeOK
<1>2. Yield(at - 1)
      BY DEF Word
<1> QED BY <1>1, <1>2, YieldStep

LEMMA PunctuatorStep ==
    ASSUME TypeOK, InOrder(text, tokens, start), Punctuator
    PROVE  TypeOK' /\ InOrder(text, tokens, start)'
<1>1. at <= Len(text) /\ at = start
      BY TextTyped DEF Punctuator, Breaking, More, Begun, TypeOK
<1>2. Dots \in at .. Len(text)
      BY <1>1, TextTyped DEF Dots, DotAt
<1>3. PICK e \in start .. Len(text) : Yield(e)
  <2>1. CASE text[at] = "."
        BY <1>1, <1>2, <2>1 DEF Punctuator
  <2>2. CASE text[at] # "."
        BY <1>1, <2>2, TextTyped DEF Punctuator
  <2> QED BY <2>1, <2>2
<1> QED BY <1>3, YieldStep

LEMMA SkipStep ==
    ASSUME TypeOK, InOrder(text, tokens, start), Skip
    PROVE  TypeOK' /\ InOrder(text, tokens, start)'
<1>1. at <= Len(text) /\ at = start
      BY TextTyped DEF Skip, Breaking, More, Begun, TypeOK
<1>2. at' = at + 1 /\ start' = start + 1 /\ text[start] \in Insignificant
      BY <1>1 DEF Skip
<1>3. UNCHANGED <<text, escaping, in_quotes, status, tokens>> /\ split' \in BOOLEAN
      BY DEF Skip
<1>4. at' \in 1 .. Len(text) + 1 /\ start' \in 1 .. at'
      BY <1>1, <1>2, TextTyped DEF TypeOK
<1>5. TypeOK'
      BY <1>3, <1>4 DEF TypeOK
<1>6. InOrder(text, tokens, start + 1)
      BY <1>2, SkipInOrder, TextTyped DEF TypeOK
<1> QED BY <1>2, <1>3, <1>5, <1>6

LEMMA CharacterStep ==
    ASSUME TypeOK, InOrder(text, tokens, start), Character
    PROVE  TypeOK' /\ InOrder(text, tokens, start)'
<1>1. at <= Len(text) /\ at' = at + 1
      BY TextTyped DEF Character, More
<1>2. UNCHANGED <<text, start, split, status, tokens>>
      BY DEF Character
<1>3. escaping' \in BOOLEAN
      BY DEF Character
<1>4. in_quotes' \in BOOLEAN
      BY DEF Character, TypeOK
<1>5. at' \in 1 .. Len(text) + 1 /\ start \in 1 .. at'
      BY <1>1, TextTyped DEF TypeOK
<1>6. TypeOK'
      BY <1>2, <1>3, <1>4, <1>5 DEF TypeOK
<1> QED BY <1>2, <1>6

LEMMA StepInOrder ==
    TypeOK /\ InOrder(text, tokens, start) /\ [Read]_tokenizerVars
        => TypeOK' /\ InOrder(text, tokens, start)'
<1> SUFFICES ASSUME TypeOK, InOrder(text, tokens, start), [Read]_tokenizerVars
             PROVE  TypeOK' /\ InOrder(text, tokens, start)'
    OBVIOUS
<1>1. CASE Word
      BY <1>1, WordStep
<1>2. CASE Panic
      BY <1>2 DEF Panic, TypeOK
<1>3. CASE Punctuator
      BY <1>3, PunctuatorStep
<1>4. CASE Skip
      BY <1>4, SkipStep
<1>5. CASE Character
      BY <1>5, CharacterStep
<1>6. CASE Finish
      BY <1>6 DEF Finish, TypeOK
<1>7. CASE UNCHANGED tokenizerVars
      BY <1>7 DEF tokenizerVars, TypeOK
<1> QED BY <1>1, <1>2, <1>3, <1>4, <1>5, <1>6, <1>7 DEF Read

LEMMA SpecInOrder == Spec => [](TypeOK /\ InOrder(text, tokens, start))
<1>1. Init => TypeOK /\ InOrder(text, tokens, start)
      BY InitTyped, InitInOrder
<1> QED BY <1>1, StepInOrder, PTL DEF Spec

(* The iterator stays in the text and never before the token it is in, for   *)
(* every text: no slice of tokenizer.rs:37-66 is out of range.               *)
THEOREM TokenizerTyped == Spec => []TypeOK
BY SpecInOrder, PTL

(* The tokens of every text are in its order, do not overlap, and leave out  *)
(* whitespace and commas only, whatever the flags of the loop do (37-70).    *)
THEOREM NothingIsSkipped == Spec => []NothingSkipped
<1>1. InOrder(text, tokens, start) => NothingSkipped
      BY SkippedIsInOrder
<1> QED BY <1>1, SpecInOrder, PTL

-----------------------------------------------------------------------------
(* Backslashes of a plain text stand alone.                                  *)
LEMMA LeastExists ==
    ASSUME NEW T, T \subseteq Nat, T # {}
    PROVE  \E x \in T : \A y \in T : x <= y
<1> DEFINE R == OpToRel(<, Nat)
<1>1. IsWellFoundedOn(R, Nat)
      BY NatLessThanWellFounded
<1>2. \A x, y \in Nat : x < y => <<x, y>> \in R
      BY Zenon DEF OpToRel
<1> HIDE DEF R
<1>3. PICK x \in T : \A y \in T : ~ (<<y, x>> \in R)
      BY <1>1, WFMin
<1>4. \A y \in T : ~ (y < x)
      BY <1>2, <1>3
<1> QED BY <1>4

LEMMA PlainBackslash ==
    ASSUME NEW t \in Seq(STRING), Plain(t), NEW p \in DOMAIN t
    PROVE  /\ t[p] \in Wide \cup {Backslash} => p \in Strings(t)
           /\ t[p] = Backslash => ~Escaped(t, p)
<1>1. CASE p \in Strings(t)
      BY <1>1 DEF Plain
<1>2. CASE p \notin Strings(t)
      BY <1>2 DEF Plain
<1> QED BY <1>1, <1>2

LEMMA BackslashesStandAlone ==
    ASSUME NEW t \in Seq(STRING), Plain(t), NEW p \in DOMAIN t, p > 1, t[p] = Backslash
    PROVE  t[p - 1] # Backslash
<1> SUFFICES ASSUME t[p - 1] = Backslash PROVE FALSE
    OBVIOUS
<1>1. Len(t) \in Nat /\ DOMAIN t = 1 .. Len(t) /\ p \in Nat
      OBVIOUS
<1> DEFINE T == {n \in 1 .. p - 1 : p - n = 1 \/ t[p - n - 1] # Backslash}
<1>2. p - 1 \in T /\ T \subseteq Nat
      BY <1>1
<1>3. PICK n \in T : \A m \in T : n <= m
      BY <1>2, LeastExists
<1>4. n \in 1 .. p - 1 /\ (p - n = 1 \/ t[p - n - 1] # Backslash)
      OBVIOUS
<1>5. \A q \in p - n .. p - 1 : t[q] = Backslash
  <2> SUFFICES ASSUME NEW q \in p - n .. p - 1, t[q] # Backslash PROVE FALSE
      OBVIOUS
  <2> DEFINE m == p - q - 1
  <2>1. q # p - 1
        OBVIOUS
  <2>2. m \in 1 .. p - 1 /\ m < n /\ p - m - 1 = q
        BY <1>1, <1>4, <2>1
  <2>3. m \in T
        BY <2>2
  <2> HIDE DEF m
  <2> QED BY <1>1, <1>3, <1>4, <2>2, <2>3
<1> HIDE DEF T
<1>6. CASE n % 2 = 1
  <2>1. n \in 0 .. p - 1
        BY <1>1, <1>4
  <2>2. Escaped(t, p)
        BY <1>4, <1>5, <1>6, <2>1 DEF Escaped
  <2> QED BY <2>2, PlainBackslash
<1>7. CASE n % 2 # 1
  <2> DEFINE m == n - 1
  <2>1. m % 2 = 1 /\ m \in 0 .. p - 2
        BY <1>1, <1>4, <1>7
  <2>2. p - 1 - m = p - n
        BY <1>1, <1>4
  <2>3. \A q \in p - 1 - m .. p - 1 - 1 : t[q] = Backslash
        BY <1>1, <1>4, <1>5
  <2>4. p - 1 - m = 1 \/ t[p - 1 - m - 1] # Backslash
        BY <1>1, <1>4, <2>2
  <2> HIDE DEF m
  <2>5. Escaped(t, p - 1)
    <3>1. m \in 0 .. p - 1 - 1
          BY <1>1, <2>1
    <3> QED BY <2>1, <2>3, <2>4, <3>1 DEF Escaped
  <2>6. p - 1 \in DOMAIN t
        BY <1>1
  <2> QED BY <1>1, <2>5, <2>6, PlainBackslash
<1> QED BY <1>6, <1>7

LEMMA EscapedInPlain ==
    ASSUME NEW t \in Seq(STRING), Plain(t), NEW p \in DOMAIN t
    PROVE  Escaped(t, p) <=> p > 1 /\ t[p - 1] = Backslash
<1>1. Len(t) \in Nat /\ DOMAIN t = 1 .. Len(t) /\ p \in Nat /\ p >= 1
      OBVIOUS
<1>2. ASSUME Escaped(t, p)
      PROVE  p > 1 /\ t[p - 1] = Backslash
  <2>1. PICK n \in 0 .. p - 1 :
            (\A q \in p - n .. p - 1 : t[q] = Backslash) /\ n % 2 = 1
        BY <1>2 DEF Escaped
  <2>2. n # 0
        BY <2>1
  <2> QED BY <1>1, <2>1, <2>2
<1>3. ASSUME p > 1, t[p - 1] = Backslash
      PROVE  Escaped(t, p)
  <2>1. 1 \in 0 .. p - 1 /\ 1 % 2 = 1
        BY <1>1, <1>3
  <2>2. \A q \in p - 1 .. p - 1 : t[q] = Backslash
        BY <1>1, <1>3
  <2>3. p - 1 = 1 \/ t[p - 1 - 1] # Backslash
    <3>1. p - 1 \in DOMAIN t
          BY <1>1, <1>3
    <3>2. p - 1 > 1 => t[p - 1 - 1] # Backslash
          BY <1>1, <1>3, <3>1, BackslashesStandAlone
    <3> QED BY <1>1, <1>3, <3>2
  <2> QED BY <2>1, <2>2, <2>3 DEF Escaped
<1> QED BY <1>2, <1>3

-----------------------------------------------------------------------------
(* Whether a character is in a string, from one to the next.                 *)
Odd(t, p) == Cardinality({q \in Quotes(t) : q < p}) % 2 = 1

LEMMA QuotesFinite ==
    ASSUME NEW t \in Seq(STRING), NEW p
    PROVE  /\ IsFiniteSet({q \in Quotes(t) : q < p})
           /\ Cardinality({q \in Quotes(t) : q < p}) \in Nat
<1>1. IsFiniteSet(1 .. Len(t))
      BY FS_Interval
<1>2. {q \in Quotes(t) : q < p} \in SUBSET (1 .. Len(t))
      BY DEF Quotes
<1> HIDE DEF Quotes
<1> QED BY <1>1, <1>2, FS_Subset, FS_CardinalityType

LEMMA OddStep ==
    ASSUME NEW t \in Seq(STRING), NEW p \in DOMAIN t
    PROVE  Odd(t, p + 1) <=> (IF p \in Quotes(t) THEN ~Odd(t, p) ELSE Odd(t, p))
<1> DEFINE S == {q \in Quotes(t) : q < p}
           T == {q \in Quotes(t) : q < p + 1}
<1>1. IsFiniteSet(S) /\ Cardinality(S) \in Nat
      BY QuotesFinite
<1>2. Quotes(t) \subseteq Nat /\ p \in Nat
      BY DEF Quotes
<1>3. CASE p \in Quotes(t)
  <2>1. T = S \cup {p} /\ p \notin S
        BY <1>2, <1>3
  <2>2. Cardinality(T) = Cardinality(S) + 1
        BY <1>1, <2>1, FS_AddElement
  <2> HIDE DEF S, T
  <2>3. Cardinality(T) % 2 = 1 <=> ~(Cardinality(S) % 2 = 1)
        BY <1>1, <2>2
  <2> QED BY <1>3, <2>3 DEF Odd, S, T
<1>4. CASE p \notin Quotes(t)
  <2>1. T = S
        BY <1>2, <1>4
  <2> QED BY <1>4, <2>1 DEF Odd
<1> QED BY <1>3, <1>4

LEMMA OddFirst ==
    ASSUME NEW t, NEW p, \A q \in Quotes(t) : ~(q < p)
    PROVE  ~Odd(t, p)
<1>1. {q \in Quotes(t) : q < p} = {}
      OBVIOUS
<1> QED BY <1>1, FS_EmptySet DEF Odd

-----------------------------------------------------------------------------
(* What next() cuts a text into, at the characters outside of strings that   *)
(* end a token; and that, one kind at a time.                                *)
Cuts(t) == {p \in DOMAIN t \ Strings(t) : Ends(t[p])}

Words(t, cuts) ==
    {[from |-> w[1], to |-> w[2] - 1] :
        w \in {v \in (DOMAIN t \ cuts) \X cuts :
                  /\ v[1] < v[2]
                  /\ v[1] = 1 \/ v[1] - 1 \in cuts
                  /\ \A p \in v[1] .. v[2] - 1 : p \notin cuts}}

Punctuators(t, cuts) ==
    LET dots == {p \in cuts : t[p] = "."} IN
    {[from |-> p, to |-> p] : p \in {q \in cuts \ dots : t[q] \in TOKEN_BREAKER}}
    \cup {[from |-> p, to |-> IF p + 1 \notin dots THEN p
                             ELSE IF p + 2 \notin dots THEN p + 1 ELSE p + 2] :
             p \in {q \in dots : \E i \in dots : DotsFrom(dots, i, q) /\ (q - i) % 3 = 0}}

Pieces(t) == LET cuts == Cuts(t) IN Words(t, cuts) \cup Punctuators(t, cuts)

DotsOf(t) == {p \in Cuts(t) : t[p] = "."}

Leads(t, p) ==
    p \in DotsOf(t) /\ \E i \in DotsOf(t) : DotsFrom(DotsOf(t), i, p) /\ (p - i) % 3 = 0

DotsEnd(t, p) ==
    IF p + 1 \notin DotsOf(t) THEN p ELSE IF p + 2 \notin DotsOf(t) THEN p + 1 ELSE p + 2

IsWord(t, from, next) ==
    /\ from \in DOMAIN t \ Cuts(t) /\ next \in Cuts(t) /\ from < next
    /\ from = 1 \/ from - 1 \in Cuts(t)
    /\ \A p \in from .. next - 1 : p \notin Cuts(t)

IsSingle(t, p) == p \in Cuts(t) /\ t[p] # "." /\ t[p] \in TOKEN_BREAKER

LEMMA WordPiece ==
    ASSUME NEW t, NEW l
    PROVE  l \in Words(t, Cuts(t)) <=>
               \E from, next : IsWord(t, from, next) /\ l = [from |-> from, to |-> next - 1]
<1> DEFINE cuts == Cuts(t)
           V == {v \in (DOMAIN t \ cuts) \X cuts :
                    /\ v[1] < v[2]
                    /\ v[1] = 1 \/ v[1] - 1 \in cuts
                    /\ \A p \in v[1] .. v[2] - 1 : p \notin cuts}
<1>1. l \in Words(t, cuts) <=> \E v \in V : l = [from |-> v[1], to |-> v[2] - 1]
      BY DEF Words
<1>2. ASSUME NEW v \in V
      PROVE  IsWord(t, v[1], v[2])
      BY DEF IsWord
<1>3. ASSUME NEW from, NEW next, IsWord(t, from, next)
      PROVE  <<from, next>> \in V
      BY <1>3 DEF IsWord
<1> HIDE DEF V, cuts
<1>4. ASSUME NEW from, NEW next, IsWord(t, from, next), l = [from |-> from, to |-> next - 1]
      PROVE  l \in Words(t, cuts)
  <2>1. <<from, next>> \in V
        BY <1>3, <1>4
  <2>2. <<from, next>>[1] = from /\ <<from, next>>[2] = next
        OBVIOUS
  <2> QED BY <1>1, <1>4, <2>1, <2>2
<1>5. ASSUME l \in Words(t, cuts)
      PROVE  \E from, next : IsWord(t, from, next) /\ l = [from |-> from, to |-> next - 1]
  <2>1. PICK v \in V : l = [from |-> v[1], to |-> v[2] - 1]
        BY <1>1, <1>5
  <2> QED BY <1>2, <2>1
<1> QED BY <1>4, <1>5 DEF cuts

LEMMA PunctuatorPiece ==
    ASSUME NEW t, NEW l
    PROVE  l \in Punctuators(t, Cuts(t)) <=>
               \/ \E p : IsSingle(t, p) /\ l = [from |-> p, to |-> p]
               \/ \E p : Leads(t, p) /\ l = [from |-> p, to |-> DotsEnd(t, p)]
<1> DEFINE dots == DotsOf(t)
           singles == {q \in Cuts(t) \ dots : t[q] \in TOKEN_BREAKER}
           leads == {q \in dots : \E i \in dots : DotsFrom(dots, i, q) /\ (q - i) % 3 = 0}
<1>1. l \in Punctuators(t, Cuts(t)) <=>
          \/ \E p \in singles : l = [from |-> p, to |-> p]
          \/ \E p \in leads : l = [from |-> p, to |-> DotsEnd(t, p)]
      BY DEF Punctuators, DotsEnd, DotsOf
<1>2. \A p : p \in singles <=> IsSingle(t, p)
      BY DEF IsSingle, DotsOf
<1>3. \A p : p \in leads <=> Leads(t, p)
      BY DEF Leads
<1> HIDE DEF singles, leads
<1> QED BY <1>1, <1>2, <1>3

LEMMA PieceKinds ==
    ASSUME NEW t, NEW l
    PROVE  l \in Pieces(t) <=>
               \/ \E from, next : IsWord(t, from, next) /\ l = [from |-> from, to |-> next - 1]
               \/ \E p : IsSingle(t, p) /\ l = [from |-> p, to |-> p]
               \/ \E p : Leads(t, p) /\ l = [from |-> p, to |-> DotsEnd(t, p)]
BY WordPiece, PunctuatorPiece DEF Pieces

(* Where a piece ends: a word before a cut, a punctuator at one.            *)
LEMMA DotsEndAtDots ==
    ASSUME NEW t \in Seq(STRING), NEW p \in DotsOf(t)
    PROVE  /\ DotsEnd(t, p) \in p .. p + 2
           /\ \A q \in p .. DotsEnd(t, p) : q \in DotsOf(t)
<1>1. p \in Nat
      BY DEF DotsOf, Cuts
<1> QED BY <1>1 DEF DotsEnd

LEMMA CutsAreInText ==
    ASSUME NEW t \in Seq(STRING), NEW p \in Cuts(t)
    PROVE  p \in 1 .. Len(t) /\ p \in Nat /\ Len(t) \in Nat /\ ~Odd(t, p) /\ Ends(t[p])
BY DEF Cuts, Strings, Odd

LEMMA LeadsApart ==
    ASSUME NEW t \in Seq(STRING), NEW p, NEW q, Leads(t, p), Leads(t, q), p <= q,
           \A r \in p .. q : r \in DotsOf(t)
    PROVE  (q - p) % 3 = 0
<1> DEFINE dots == DotsOf(t)
<1>1. dots \subseteq Nat
      BY DEF DotsOf, Cuts
<1>2. PICK i \in dots : DotsFrom(dots, i, p) /\ (p - i) % 3 = 0
      BY DEF Leads
<1>3. PICK j \in dots : DotsFrom(dots, j, q) /\ (q - j) % 3 = 0
      BY DEF Leads
<1>4. p \in Nat /\ q \in Nat /\ i \in Nat /\ j \in Nat
      BY <1>1 DEF Leads
<1> HIDE DEF dots
<1>5. \A r \in i .. q : r \in dots
      BY <1>2, <1>4 DEF DotsFrom, dots
<1>6. i - 1 \notin dots /\ j - 1 \notin dots /\ i <= p /\ j <= q
      BY <1>2, <1>3 DEF DotsFrom
<1>7. ~(j > i)
  <2>1. j > i => j - 1 \in i .. q
        BY <1>4, <1>6
  <2> QED BY <1>5, <1>6, <2>1
<1>8. ~(j < i)
  <2>1. j < i => i - 1 \in j .. q
        BY <1>4, <1>6
  <2> QED BY <1>3, <1>6, <2>1 DEF DotsFrom
<1>9. i = j
      BY <1>4, <1>7, <1>8
<1> QED BY <1>2, <1>3, <1>4, <1>9

-----------------------------------------------------------------------------
(* The pieces that end before a character,  as the tokenizer goes on.        *)
UpTo(t, s) == {l \in Pieces(t) : l.to < s}

LEMMA PieceTo ==
    ASSUME NEW t \in Seq(STRING), NEW l \in Pieces(t)
    PROVE  l.to \in Nat
<1>1. ASSUME NEW from, NEW next, IsWord(t, from, next), l = [from |-> from, to |-> next - 1]
      PROVE  l.to \in Nat
  <2>1. next \in Nat /\ next >= 1
        BY <1>1, CutsAreInText DEF IsWord
  <2> QED BY <1>1, <2>1
<1>2. ASSUME NEW p, IsSingle(t, p), l = [from |-> p, to |-> p]
      PROVE  l.to \in Nat
      BY <1>2, CutsAreInText DEF IsSingle
<1>3. ASSUME NEW p, Leads(t, p), l = [from |-> p, to |-> DotsEnd(t, p)]
      PROVE  l.to \in Nat
  <2>1. p \in DotsOf(t) /\ p \in Nat
        BY <1>3, CutsAreInText DEF Leads, DotsOf
  <2> QED BY <1>3, <2>1, DotsEndAtDots
<1> QED BY <1>1, <1>2, <1>3, PieceKinds

OnlyOne(t, s, e, k) ==
    k \in Pieces(t) /\ k.to = e /\ \A l \in Pieces(t) : l.to \in s .. e => l = k

LEMMA OneIsAdded ==
    ASSUME NEW t \in Seq(STRING), NEW s \in Nat, NEW e \in Nat, s <= e,
           NEW k, OnlyOne(t, s, e, k)
    PROVE  UpTo(t, e + 1) = UpTo(t, s) \cup {k}
<1>1. ASSUME NEW l \in Pieces(t)
      PROVE  l.to < e + 1 <=> l.to < s \/ l = k
  <2>1. l.to \in Nat
        BY PieceTo
  <2> QED BY <2>1 DEF OnlyOne
<1> QED BY <1>1 DEF UpTo, OnlyOne

(* Up to where no piece is but a word,  none ends between two cuts.          *)
LEMMA PieceAtCut ==
    ASSUME NEW t \in Seq(STRING), NEW l \in Pieces(t)
    PROVE  \/ l.to \in Cuts(t)
           \/ \E from, next : IsWord(t, from, next) /\ l = [from |-> from, to |-> next - 1]
<1>1. ASSUME NEW p, Leads(t, p), l = [from |-> p, to |-> DotsEnd(t, p)]
      PROVE  l.to \in Cuts(t)
  <2>1. p \in DotsOf(t) /\ p \in Nat
        BY <1>1, CutsAreInText DEF Leads, DotsOf
  <2>2. DotsEnd(t, p) \in DotsOf(t)
        BY <2>1, DotsEndAtDots
  <2> QED BY <1>1, <2>2 DEF DotsOf
<1> QED BY <1>1, PieceKinds DEF IsSingle

LEMMA WordIsAdded ==
    ASSUME NEW t \in Seq(STRING), NEW s, NEW a, IsWord(t, s, a)
    PROVE  UpTo(t, a) = UpTo(t, s) \cup {[from |-> s, to |-> a - 1]}
<1>1. s \in Nat /\ a \in Nat /\ s >= 1 /\ s <= a - 1 /\ a - 1 \in Nat
      BY CutsAreInText DEF IsWord
<1> DEFINE k == [from |-> s, to |-> a - 1]
<1>2. k \in Pieces(t) /\ k.to = a - 1
      BY PieceKinds
<1>3. ASSUME NEW l \in Pieces(t), l.to \in s .. a - 1
      PROVE  l = k
  <2>1. l.to \notin Cuts(t)
        BY <1>3 DEF IsWord
  <2>2. PICK from, next : IsWord(t, from, next) /\ l = [from |-> from, to |-> next - 1]
        BY <2>1, PieceAtCut
  <2>3. from \in Nat /\ next \in Nat /\ from >= 1 /\ from < next
        BY <2>2, CutsAreInText DEF IsWord
  <2>4. next - 1 \in s .. a - 1
        BY <1>3, <2>2
  <2>5. next = a
    <3>1. next # a => next \in s .. a - 1
          BY <1>1, <2>3, <2>4
    <3> QED BY <2>2, <3>1 DEF IsWord
  <2>6. ~(from < s)
    <3>1. from < s => s - 1 \in from .. next - 1 /\ s # 1
          BY <1>1, <2>3, <2>5
    <3> QED BY <2>2, <3>1 DEF IsWord
  <2>7. ~(from > s)
    <3>1. from > s => from - 1 \in s .. a - 1 /\ from # 1
          BY <1>1, <2>3, <2>5
    <3> QED BY <2>2, <3>1 DEF IsWord
  <2>8. from = s
        BY <1>1, <2>3, <2>6, <2>7
  <2> QED BY <2>2, <2>5, <2>8
<1> HIDE DEF k
<1>4. OnlyOne(t, s, a - 1, k)
      BY <1>2, <1>3 DEF OnlyOne
<1>5. UpTo(t, a - 1 + 1) = UpTo(t, s) \cup {k}
      BY <1>1, <1>4, OneIsAdded
<1> QED BY <1>1, <1>5 DEF k

(* A word does not end at a cut.                                             *)
LEMMA NoWordAtCut ==
    ASSUME NEW t \in Seq(STRING), NEW from, NEW next, IsWord(t, from, next)
    PROVE  next - 1 \notin Cuts(t)
<1>1. from \in Nat /\ next \in Nat /\ from < next
      BY CutsAreInText DEF IsWord
<1>2. next - 1 \in from .. next - 1
      BY <1>1
<1> QED BY <1>2 DEF IsWord

LEMMA SingleIsAdded ==
    ASSUME NEW t \in Seq(STRING), NEW s, IsSingle(t, s)
    PROVE  UpTo(t, s + 1) = UpTo(t, s) \cup {[from |-> s, to |-> s]}
<1>1. s \in Nat /\ s \in Cuts(t)
      BY CutsAreInText DEF IsSingle
<1> DEFINE k == [from |-> s, to |-> s]
<1>2. k \in Pieces(t) /\ k.to = s
      BY PieceKinds
<1>3. ASSUME NEW l \in Pieces(t), l.to \in s .. s
      PROVE  l = k
  <2>1. l.to = s
        BY <1>1, <1>3
  <2>2. ASSUME NEW p, Leads(t, p), l = [from |-> p, to |-> DotsEnd(t, p)]
        PROVE  FALSE
    <3>1. p \in DotsOf(t) /\ p \in Nat
          BY <2>2, CutsAreInText DEF Leads, DotsOf
    <3>2. s \in DotsOf(t)
          BY <2>1, <2>2, <3>1, DotsEndAtDots
    <3> QED BY <3>2 DEF DotsOf, IsSingle
  <2> QED BY <1>1, <2>1, <2>2, PieceKinds, NoWordAtCut
<1> HIDE DEF k
<1>4. OnlyOne(t, s, s, k)
      BY <1>2, <1>3 DEF OnlyOne
<1>5. UpTo(t, s + 1) = UpTo(t, s) \cup {k}
      BY <1>1, <1>4, OneIsAdded
<1> QED BY <1>5 DEF k

LEMMA DotsAreAdded ==
    ASSUME NEW t \in Seq(STRING), NEW s, Leads(t, s)
    PROVE  UpTo(t, DotsEnd(t, s) + 1) = UpTo(t, s) \cup {[from |-> s, to |-> DotsEnd(t, s)]}
<1> DEFINE e == DotsEnd(t, s)
           k == [from |-> s, to |-> e]
<1>1. s \in DotsOf(t) /\ s \in Nat
      BY CutsAreInText DEF Leads, DotsOf
<1>2. e \in s .. s + 2 /\ \A q \in s .. e : q \in DotsOf(t)
      BY <1>1, DotsEndAtDots
<1>3. k \in Pieces(t) /\ k.to = e
      BY PieceKinds
<1> HIDE DEF e
<1>4. ASSUME NEW l \in Pieces(t), l.to \in s .. e
      PROVE  l = k
  <2>1. l.to \in DotsOf(t) /\ l.to \in Cuts(t)
        BY <1>2, <1>4 DEF DotsOf
  <2>2. PICK p : Leads(t, p) /\ l = [from |-> p, to |-> DotsEnd(t, p)]
    <3>1. ASSUME NEW p, IsSingle(t, p), l = [from |-> p, to |-> p]
          PROVE  FALSE
          BY <2>1, <3>1 DEF IsSingle, DotsOf
    <3> QED BY <2>1, <3>1, PieceKinds, NoWordAtCut
  <2>3. p \in DotsOf(t) /\ p \in Nat
        BY <2>2, CutsAreInText DEF Leads, DotsOf
  <2>4. /\ DotsEnd(t, p) \in p .. p + 2 /\ DotsEnd(t, p) \in s .. e
        /\ \A q \in p .. DotsEnd(t, p) : q \in DotsOf(t)
        BY <1>4, <2>2, <2>3, DotsEndAtDots
  <2>5. ~(p < s)
    <3> SUFFICES ASSUME p < s PROVE FALSE
        OBVIOUS
    <3>1. p <= s /\ \A r \in p .. s : r \in DotsOf(t)
          BY <1>1, <2>3, <2>4
    <3>2. (s - p) % 3 = 0
          BY <2>2, <3>1, LeadsApart
    <3>3. s - p \in 1 .. 2
          BY <1>1, <2>3, <2>4
    <3> QED BY <3>2, <3>3
  <2>6. ~(p > s)
    <3> SUFFICES ASSUME p > s PROVE FALSE
        OBVIOUS
    <3>1. s <= p /\ \A r \in s .. p : r \in DotsOf(t)
          BY <1>1, <1>2, <2>3, <2>4
    <3>2. (p - s) % 3 = 0
          BY <2>2, <3>1, LeadsApart
    <3>3. p - s \in 1 .. 2
          BY <1>1, <1>2, <2>3, <2>4
    <3> QED BY <3>2, <3>3
  <2>7. p = s
        BY <1>1, <2>3, <2>5, <2>6
  <2> QED BY <2>2, <2>7 DEF e
<1> HIDE DEF k
<1>5. e \in Nat /\ s <= e
      BY <1>1, <1>2
<1>6. OnlyOne(t, s, e, k)
      BY <1>3, <1>4 DEF OnlyOne
<1>7. UpTo(t, e + 1) = UpTo(t, s) \cup {k}
      BY <1>1, <1>5, <1>6, OneIsAdded
<1> QED BY <1>7 DEF k, e

LEMMA GapAddsNone ==
    ASSUME NEW t \in Seq(STRING), NEW s \in Cuts(t), t[s] \notin TOKEN_BREAKER
    PROVE  UpTo(t, s + 1) = UpTo(t, s)
<1>1. s \in Nat
      BY CutsAreInText
<1>2. ASSUME NEW l \in Pieces(t)
      PROVE  l.to # s
  <2>1. ASSUME NEW p, Leads(t, p), s = DotsEnd(t, p)
        PROVE  FALSE
    <3>1. p \in DotsOf(t) /\ p \in Nat
          BY <2>1, CutsAreInText DEF Leads, DotsOf
    <3>2. s \in DotsOf(t)
          BY <2>1, <3>1, DotsEndAtDots
    <3> QED BY <3>2 DEF DotsOf, TOKEN_BREAKER
  <2> QED BY <2>1, PieceKinds, NoWordAtCut DEF IsSingle
<1>3. ASSUME NEW l \in Pieces(t)
      PROVE  l.to < s + 1 <=> l.to < s
      BY <1>1, <1>2, PieceTo
<1> QED BY <1>3 DEF UpTo

LEMMA NoneAfterLastCut ==
    ASSUME NEW t \in Seq(STRING), NEW s \in Nat, \A p \in s .. Len(t) : p \notin Cuts(t)
    PROVE  UpTo(t, s) = Pieces(t)
<1>1. ASSUME NEW l \in Pieces(t)
      PROVE  l.to < s
  <2>1. l.to \in Nat
        BY PieceTo
  <2>2. CASE l.to \in Cuts(t)
        BY <2>1, <2>2, CutsAreInText
  <2>3. ASSUME NEW from, NEW next, IsWord(t, from, next), l = [from |-> from, to |-> next - 1]
        PROVE  l.to < s
    <3>1. next \in Cuts(t) /\ next \in 1 .. Len(t)
          BY <2>3, CutsAreInText DEF IsWord
    <3>2. next < s
          BY <3>1
    <3> QED BY <2>3, <3>1, <3>2
  <2> QED BY <2>2, <2>3, PieceAtCut
<1> QED BY <1>1 DEF UpTo

-----------------------------------------------------------------------------
(* Around a cut.                                                             *)
LEMMA CutIsNoQuote ==
    ASSUME NEW t \in Seq(STRING), NEW p \in Cuts(t)
    PROVE  t[p] # Quote /\ t[p] # Backslash /\ ~Odd(t, p + 1)
<1>1. p \in DOMAIN t /\ ~Odd(t, p) /\ Ends(t[p])
      BY CutsAreInText DEF Cuts
<1>2. t[p] # Quote /\ t[p] # Backslash
      BY <1>1 DEF Ends, TOKEN_BREAKER, Insignificant, Wide, Quote, Backslash
<1>3. p \notin Quotes(t)
      BY <1>2 DEF Quotes
<1> QED BY <1>1, <1>2, <1>3, OddStep

LEMMA NoBackslashBefore ==
    ASSUME NEW t \in Seq(STRING), Plain(t), NEW p \in Cuts(t), p > 1
    PROVE  t[p - 1] # Backslash
<1> SUFFICES ASSUME t[p - 1] = Backslash PROVE FALSE
    OBVIOUS
<1>1. p \in Nat /\ ~Odd(t, p) /\ p - 1 \in DOMAIN t
      BY CutsAreInText
<1>2. p - 1 \in Strings(t)
      BY <1>1, PlainBackslash
<1>3. Odd(t, p - 1)
      BY <1>2 DEF Strings, Odd
<1>4. p - 1 \notin Quotes(t)
      BY DEF Quotes, Quote, Backslash
<1>5. Odd(t, p - 1 + 1)
      BY <1>1, <1>3, <1>4, OddStep
<1> QED BY <1>1, <1>5

LEMMA NextDot ==
    ASSUME NEW t \in Seq(STRING), NEW p \in DotsOf(t)
    PROVE  p + 1 \in DotsOf(t) <=> p + 1 <= Len(t) /\ t[p + 1] = "."
<1>1. p \in Cuts(t)
      BY DEF DotsOf
<1>2. p \in Nat /\ Len(t) \in Nat /\ ~Odd(t, p + 1)
      BY <1>1, CutsAreInText, CutIsNoQuote
<1>3. ASSUME p + 1 <= Len(t), t[p + 1] = "."
      PROVE  p + 1 \in Cuts(t)
  <2>1. p + 1 \in DOMAIN t /\ p + 1 \notin Strings(t)
        BY <1>2, <1>3 DEF Strings, Odd
  <2>2. Ends(t[p + 1])
        BY <1>3 DEF Ends, TOKEN_BREAKER
  <2> QED BY <2>1, <2>2 DEF Cuts
<1> QED BY <1>2, <1>3, CutsAreInText DEF DotsOf

LEMMA FirstDotLeads ==
    ASSUME NEW t \in Seq(STRING), NEW p \in DotsOf(t), p - 1 \notin DotsOf(t)
    PROVE  Leads(t, p)
<1>1. p \in Nat
      BY CutsAreInText DEF DotsOf
<1>2. DotsFrom(DotsOf(t), p, p) /\ (p - p) % 3 = 0
      BY <1>1 DEF DotsFrom
<1> QED BY <1>2 DEF Leads

LEMMA NextDotsLead ==
    ASSUME NEW t \in Seq(STRING), NEW s, Leads(t, s), DotsEnd(t, s) + 1 \in DotsOf(t)
    PROVE  Leads(t, DotsEnd(t, s) + 1)
<1>1. s \in DotsOf(t) /\ s \in Nat
      BY CutsAreInText DEF Leads, DotsOf
<1>2. DotsEnd(t, s) = s + 2 /\ s + 1 \in DotsOf(t) /\ s + 2 \in DotsOf(t) /\ s + 3 \in DotsOf(t)
      BY <1>1 DEF DotsEnd
<1>3. PICK i \in DotsOf(t) : DotsFrom(DotsOf(t), i, s) /\ (s - i) % 3 = 0
      BY DEF Leads
<1>4. i \in Nat /\ i <= s
      BY <1>3, CutsAreInText DEF DotsOf, DotsFrom
<1>5. DotsFrom(DotsOf(t), i, s + 3)
  <2>1. \A q \in i .. s + 3 : q \in i .. s \/ q \in {s + 1, s + 2, s + 3}
        BY <1>1, <1>4
  <2> QED BY <1>1, <1>2, <1>3, <1>4, <2>1 DEF DotsFrom
<1>6. (s + 3 - i) % 3 = 0
      BY <1>1, <1>3, <1>4
<1>7. PICK q : q = s + 3
      OBVIOUS
<1>8. q \in DotsOf(t) /\ DotsFrom(DotsOf(t), i, q) /\ (q - i) % 3 = 0
  <2>1. q \in DotsOf(t) /\ DotsFrom(DotsOf(t), i, q)
        BY <1>2, <1>5, <1>7, Zenon
  <2>2. (q - i) % 3 = 0
        BY <1>1, <1>4, <1>6, <1>7
  <2> QED BY <2>1, <2>2
<1>9. Leads(t, q)
      BY <1>8 DEF Leads
<1>10. DotsEnd(t, s) + 1 = q
      BY <1>1, <1>2, <1>7
<1> QED BY <1>9, <1>10

-----------------------------------------------------------------------------
(* The invariant, while a plain text is read.                                *)
FlagsRight ==
    /\ in_quotes <=> Odd(text, at)
    /\ escaping <=> at > 1 /\ text[at - 1] = Backslash
    /\ ~split

(* From the start of the slice on nothing ends a token, and before it        *)
(* something does, or else the token that has just been returned.            *)
InToken == \A p \in start .. at - 1 : p \notin Cuts(text)
AfterCut == start = 1 \/ start - 1 \in Cuts(text) \/ (at = start /\ start \in Cuts(text))
DotsLead == start \in DotsOf(text) => Leads(text, start)

Returned == {tokens[i] : i \in DOMAIN tokens}

ReadRight ==
    FlagsRight /\ InToken /\ AfterCut /\ DotsLead /\ Returned = UpTo(text, start)

LexInv ==
    Plain(text) =>
        \/ status = "reading" /\ ReadRight
        \/ status = "completed" /\ Returned = Pieces(text)

LEMMA InitLexed == Init => LexInv
<1> SUFFICES ASSUME NEW t \in Texts, New(t), Plain(t) PROVE status = "reading" /\ ReadRight
    BY DEF Init, LexInv, New
<1>1. /\ text = t /\ t \in Seq(STRING) /\ Len(t) \in Nat
      /\ IsFirst(t, start) /\ at = start /\ status = "reading" /\ tokens = <<>>
      /\ split = FALSE /\ escaping = FALSE /\ in_quotes = FALSE
      BY TextsAreText DEF New
<1>2. start \in 1 .. Len(t) + 1 /\ \A p \in 1 .. start - 1 : t[p] \in Insignificant
      BY <1>1 DEF IsFirst
<1>3. \A p \in 1 .. start - 1 : t[p] # Quote /\ t[p] # Backslash /\ t[p] # "."
      BY <1>2 DEF Insignificant, Wide, Quote, Backslash
<1>4. \A p \in 1 .. start : ~Odd(t, p)
  <2> SUFFICES ASSUME NEW p \in 1 .. start PROVE ~Odd(t, p)
      OBVIOUS
  <2>1. \A q \in Quotes(t) : ~(q < p)
    <3> SUFFICES ASSUME NEW q \in Quotes(t), q < p PROVE FALSE
        OBVIOUS
    <3>1. q \in 1 .. start - 1 /\ t[q] = Quote
          BY <1>1, <1>2 DEF Quotes
    <3> QED BY <1>3, <3>1
  <2> QED BY <2>1, OddFirst
<1>5. \A p \in 1 .. start - 1 : p \in Cuts(t)
      BY <1>1, <1>2, <1>4 DEF Cuts, Strings, Odd, Ends
<1>6. FlagsRight
      BY <1>1, <1>2, <1>3, <1>4 DEF FlagsRight
<1>7. InToken
      BY <1>1, <1>2 DEF InToken
<1>8. AfterCut
      BY <1>1, <1>2, <1>5 DEF AfterCut
<1>9. DotsLead
  <2>1. start - 1 \notin DotsOf(t)
        BY <1>1, <1>2, <1>3, CutsAreInText DEF DotsOf
  <2> QED BY <1>1, <2>1, FirstDotLeads DEF DotsLead
<1>10. Returned = UpTo(text, start)
  <2>1. ASSUME NEW l \in Pieces(t)
        PROVE  ~(l.to < start)
    <3>1. ASSUME NEW from, NEW next, IsWord(t, from, next), next - 1 < start
          PROVE  FALSE
      <4>1. next \in Nat /\ from \in Nat /\ from >= 1 /\ from < next
            BY <1>1, <3>1, CutsAreInText DEF IsWord
      <4>2. from \in 1 .. start - 1
            BY <1>2, <3>1, <4>1
      <4> QED BY <1>5, <3>1, <4>2 DEF IsWord
    <3>2. ASSUME NEW p, IsSingle(t, p), p < start
          PROVE  FALSE
      <4>1. p \in 1 .. start - 1
            BY <1>1, <1>2, <3>2, CutsAreInText DEF IsSingle
      <4> QED BY <1>2, <3>2, <4>1 DEF IsSingle, TOKEN_BREAKER, Insignificant, Wide
    <3>3. ASSUME NEW p, Leads(t, p), DotsEnd(t, p) < start
          PROVE  FALSE
      <4>1. p \in DotsOf(t) /\ p \in 1 .. Len(t) /\ t[p] = "."
            BY <1>1, <3>3, CutsAreInText DEF Leads, DotsOf
      <4>2. p \in 1 .. start - 1
            BY <1>1, <1>2, <3>3, <4>1, DotsEndAtDots
      <4> QED BY <1>3, <4>1, <4>2
    <3> QED BY <3>1, <3>2, <3>3, PieceKinds
  <2>2. UpTo(t, start) = {}
        BY <2>1 DEF UpTo
  <2>3. Returned = {}
        BY <1>1 DEF Returned
  <2> QED BY <1>1, <2>2, <2>3
<1> QED BY <1>1, <1>6, <1>7, <1>8, <1>9, <1>10 DEF ReadRight

-----------------------------------------------------------------------------
(* A step.                                                                   *)
LEMMA Here ==
    ASSUME TypeOK
    PROVE  /\ text \in Seq(STRING) /\ Len(text) \in Nat /\ at \in Nat /\ start \in Nat
           /\ start >= 1 /\ start <= at /\ tokens \in Seq(Token)
           /\ at <= Len(text) => at \in DOMAIN text
BY TextTyped DEF TypeOK

LEMMA BreakingIsCut ==
    ASSUME TypeOK, FlagsRight, Breaking
    PROVE  at \in Cuts(text)
<1>1. at \in DOMAIN text /\ Ends(text[at]) /\ ~Odd(text, at)
      BY Here DEF Breaking, More, FlagsRight
<1> QED BY <1>1 DEF Cuts, Strings, Odd

LEMMA OneIsReturned ==
    ASSUME TypeOK, NEW k, tokens' = Append(tokens, k)
    PROVE  Returned' = Returned \cup {k}
<1>1. /\ tokens \in Seq(Token) /\ Len(tokens) \in Nat
      /\ DOMAIN tokens = 1 .. Len(tokens) /\ DOMAIN tokens' = 1 .. Len(tokens) + 1
      /\ \A i \in 1 .. Len(tokens) : tokens'[i] = tokens[i]
      /\ tokens'[Len(tokens) + 1] = k
      BY Here
<1>2. ASSUME NEW x
      PROVE  x \in Returned' <=> x \in Returned \cup {k}
  <2>1. x \in Returned' <=> \E i \in 1 .. Len(tokens) + 1 : x = tokens'[i]
        BY <1>1 DEF Returned
  <2>2. x \in Returned <=> \E i \in 1 .. Len(tokens) : x = tokens[i]
        BY <1>1 DEF Returned
  <2>3. \A i : i \in 1 .. Len(tokens) + 1 <=> i \in 1 .. Len(tokens) \/ i = Len(tokens) + 1
        BY <1>1
  <2> QED BY <1>1, <2>1, <2>2, <2>3
<1> QED BY <1>2

(* After a cut that the slice ends with, or leaves out.                      *)
LEMMA PastCut ==
    ASSUME TypeOK, Plain(text), ReadRight, at \in Cuts(text), NEW e \in Cuts(text),
           text' = text, at' = e + 1, start' = e + 1,
           escaping' = escaping, in_quotes' = in_quotes, ~split'
    PROVE  FlagsRight' /\ InToken' /\ AfterCut'
<1>1. e \in Nat /\ e >= 1 /\ at \in Nat /\ at >= 1 /\ text \in Seq(STRING)
      BY Here, CutsAreInText
<1>2. ~in_quotes /\ ~escaping
      BY <1>1, CutsAreInText, NoBackslashBefore DEF ReadRight, FlagsRight
<1>3. ~Odd(text, e + 1) /\ text[e] # Backslash
      BY <1>1, CutIsNoQuote
<1>4. FlagsRight'
  <2>1. at' - 1 = e
        BY <1>1
  <2>2. ~Odd(text', at')
        BY <1>3
  <2>3. text'[at' - 1] # Backslash
        BY <1>3, <2>1
  <2>4. ~in_quotes' /\ ~escaping' /\ ~split'
        BY <1>2
  <2> QED BY <2>2, <2>3, <2>4 DEF FlagsRight, Odd
<1>5. InToken'
      BY <1>1 DEF InToken
<1>6. AfterCut'
  <2>1. start' - 1 = e
        BY <1>1
  <2> QED BY <2>1 DEF AfterCut
<1> QED BY <1>4, <1>5, <1>6

LEMMA WordLexed ==
    ASSUME TypeOK, Plain(text), ReadRight, Word
    PROVE  ReadRight'
<1>1. at \in Cuts(text)
      BY BreakingIsCut DEF Word, ReadRight
<1>2. /\ text' = text /\ at' = at /\ start' = at /\ ~split'
      /\ escaping' = escaping /\ in_quotes' = in_quotes
      /\ tokens' = Append(tokens, [from |-> start, to |-> at - 1])
      BY Here DEF Word, Yield, After
<1>3. start < at
      BY Here DEF Word, Begun
<1>4. at - 1 \in start .. at - 1 /\ at - 1 \notin Cuts(text)
      BY <1>3, Here DEF ReadRight, InToken
<1>5. IsWord(text, start, at)
  <2>1. start \in DOMAIN text /\ start \in start .. at - 1
        BY <1>1, <1>3, Here, CutsAreInText
  <2>2. start \notin Cuts(text)
        BY <2>1 DEF ReadRight, InToken
  <2> QED BY <1>1, <1>3, <2>1, <2>2 DEF IsWord, ReadRight, InToken, AfterCut
<1>6. Returned' = UpTo(text, at)
  <2>1. Returned' = UpTo(text, start) \cup {[from |-> start, to |-> at - 1]}
        BY <1>2, OneIsReturned DEF ReadRight
  <2> QED BY <1>5, <2>1, Here, WordIsAdded
<1>7. FlagsRight'
      BY <1>2 DEF ReadRight, FlagsRight, Odd
<1>8. InToken' /\ AfterCut'
      BY <1>1, <1>2, Here DEF InToken, AfterCut
<1>9. DotsLead'
  <2>1. at - 1 \notin DotsOf(text)
        BY <1>4 DEF DotsOf
  <2>2. at \in DotsOf(text) => Leads(text, at)
        BY <2>1, Here, FirstDotLeads
  <2> QED BY <1>2, <2>2 DEF DotsLead
<1> QED BY <1>2, <1>6, <1>7, <1>8, <1>9 DEF ReadRight

LEMMA SkipLexed ==
    ASSUME TypeOK, Plain(text), ReadRight, Skip
    PROVE  ReadRight'
<1>1. at \in Cuts(text) /\ at = start
      BY BreakingIsCut, Here DEF Skip, ReadRight, Begun
<1>2. /\ text' = text /\ at' = at + 1 /\ start' = at + 1 /\ tokens' = tokens
      /\ escaping' = escaping /\ in_quotes' = in_quotes /\ (split' <=> text[at] \in Wide)
      BY DEF Skip
<1>3. ~split'
  <2>1. at \notin Strings(text) /\ at \in DOMAIN text
        BY <1>1 DEF Cuts
  <2>2. text[at] \notin Wide
        BY <2>1, Here, PlainBackslash
  <2> QED BY <1>2, <2>2
<1>4. FlagsRight' /\ InToken' /\ AfterCut'
      BY <1>1, <1>2, <1>3, PastCut
<1>5. text[at] \notin TOKEN_BREAKER
      BY DEF Skip, Insignificant, Wide, TOKEN_BREAKER
<1>6. UpTo(text, at + 1) = UpTo(text, at)
      BY <1>1, <1>5, Here, GapAddsNone
<1>7. Returned' = UpTo(text, at + 1)
      BY <1>1, <1>2, <1>6 DEF ReadRight, Returned
<1>8. DotsLead'
  <2>1. at \notin DotsOf(text)
        BY <1>5 DEF DotsOf, TOKEN_BREAKER
  <2>2. at + 1 - 1 = at
        BY Here
  <2>3. at + 1 \in DotsOf(text) => Leads(text, at + 1)
        BY <2>1, <2>2, Here, FirstDotLeads
  <2> QED BY <1>2, <2>3 DEF DotsLead
<1> QED BY <1>2, <1>4, <1>7, <1>8 DEF ReadRight

LEMMA DotsAreTaken ==
    ASSUME NEW p, p = at, TypeOK, p \in DotsOf(text)
    PROVE  Dots = DotsEnd(text, p)
<1>1. text \in Seq(STRING) /\ p \in Nat
      BY Here
<1>2. DotAt(p + 1) <=> p + 1 \in DotsOf(text)
      BY <1>1, NextDot DEF DotAt
<1>3. p + 1 \in DotsOf(text) => (DotAt(p + 2) <=> p + 2 \in DotsOf(text))
  <2>1. p + 1 + 1 = p + 2
        BY <1>1
  <2> QED BY <1>1, <2>1, NextDot DEF DotAt
<1> QED BY <1>2, <1>3 DEF Dots, DotsEnd

LEMMA PunctuatorLexed ==
    ASSUME TypeOK, Plain(text), ReadRight, Punctuator
    PROVE  ReadRight'
<1>1. at \in Cuts(text) /\ at = start /\ text \in Seq(STRING) /\ at \in Nat
      BY BreakingIsCut, Here DEF Punctuator, ReadRight, Begun
<1>2. PICK e : /\ Yield(e) /\ e \in Cuts(text)
               /\ UpTo(text, e + 1) = UpTo(text, at) \cup {[from |-> at, to |-> e]}
               /\ e + 1 \in DotsOf(text) => Leads(text, e + 1)
  <2>1. CASE text[at] = "."
    <3>1. at \in DotsOf(text)
          BY <1>1, <2>1 DEF DotsOf
    <3>2. Leads(text, at)
          BY <1>1, <3>1 DEF ReadRight, DotsLead
    <3>3. Dots = DotsEnd(text, at)
          BY <3>1, DotsAreTaken
    <3>4. Yield(DotsEnd(text, at))
          BY <2>1, <3>3 DEF Punctuator
    <3>5. DotsEnd(text, at) \in Cuts(text)
      <4>1. DotsEnd(text, at) \in DotsOf(text)
            BY <1>1, <3>1, DotsEndAtDots
      <4> QED BY <4>1 DEF DotsOf
    <3>6. UpTo(text, DotsEnd(text, at) + 1)
              = UpTo(text, at) \cup {[from |-> at, to |-> DotsEnd(text, at)]}
          BY <1>1, <3>2, DotsAreAdded
    <3>7. DotsEnd(text, at) + 1 \in DotsOf(text) => Leads(text, DotsEnd(text, at) + 1)
          BY <1>1, <3>2, NextDotsLead
    <3> QED BY <3>4, <3>5, <3>6, <3>7
  <2>2. CASE text[at] # "."
    <3>1. IsSingle(text, at)
          BY <1>1, <2>2 DEF Punctuator, IsSingle
    <3>2. UpTo(text, at + 1) = UpTo(text, at) \cup {[from |-> at, to |-> at]}
          BY <1>1, <3>1, SingleIsAdded
    <3>3. at + 1 - 1 = at /\ at \notin DotsOf(text)
          BY <1>1, <2>2 DEF DotsOf
    <3>4. at + 1 \in DotsOf(text) => Leads(text, at + 1)
          BY <1>1, <3>3, FirstDotLeads
    <3>5. Yield(at)
          BY <2>2 DEF Punctuator
    <3> QED BY <1>1, <3>2, <3>4, <3>5
  <2> QED BY <2>1, <2>2
<1>3. /\ text' = text /\ at' = e + 1 /\ start' = e + 1 /\ ~split'
      /\ escaping' = escaping /\ in_quotes' = in_quotes
      /\ tokens' = Append(tokens, [from |-> at, to |-> e])
      BY <1>1, <1>2 DEF Yield, After
<1>4. FlagsRight' /\ InToken' /\ AfterCut'
      BY <1>1, <1>2, <1>3, PastCut
<1>5. Returned' = UpTo(text, e + 1)
  <2>1. Returned' = UpTo(text, at) \cup {[from |-> at, to |-> e]}
        BY <1>1, <1>3, OneIsReturned DEF ReadRight
  <2> QED BY <1>2, <2>1
<1>6. DotsLead'
      BY <1>2, <1>3 DEF DotsLead
<1> QED BY <1>3, <1>4, <1>5, <1>6 DEF ReadRight

LEMMA CharacterLexed ==
    ASSUME TypeOK, Plain(text), ReadRight, Character
    PROVE  ReadRight'
<1>1. at \in DOMAIN text /\ at \in Nat /\ at >= 1 /\ text \in Seq(STRING)
      BY Here DEF Character, More
<1>2. /\ text' = text /\ start' = start /\ tokens' = tokens /\ split' = split
      /\ at' = at + 1 /\ (escaping' <=> text[at] = Backslash)
      BY DEF Character
<1>3. at \notin Cuts(text)
  <2>1. in_quotes \/ ~Ends(text[at])
        BY DEF Character, Breaking
  <2> QED BY <2>1, CutsAreInText, <1>1 DEF ReadRight, FlagsRight
<1>4. at \in Quotes(text) <=> Toggles
      BY <1>1, EscapedInPlain DEF Quotes, Toggles, ReadRight, FlagsRight
<1>5. in_quotes' <=> Odd(text, at + 1)
  <2>1. in_quotes' <=> IF Toggles THEN ~in_quotes ELSE in_quotes
        BY DEF Character
  <2> QED BY <1>1, <1>4, <2>1, OddStep DEF ReadRight, FlagsRight
<1>6. FlagsRight'
  <2>1. at' > 1 /\ at' - 1 = at
        BY <1>1, <1>2
  <2>2. ~split'
        BY <1>2 DEF ReadRight, FlagsRight
  <2> QED BY <1>2, <1>5, <2>1, <2>2 DEF FlagsRight, Odd
<1>7. InToken'
  <2>1. \A p \in start .. at : p \in start .. at - 1 \/ p = at
        BY Here
  <2>2. at' - 1 = at
        BY <1>1, <1>2
  <2> QED BY <1>2, <1>3, <2>1, <2>2 DEF ReadRight, InToken
<1>8. AfterCut' /\ DotsLead'
      BY <1>2, <1>3 DEF ReadRight, AfterCut, DotsLead
<1>9. Returned' = UpTo(text, start)
      BY <1>2 DEF ReadRight, Returned
<1> QED BY <1>2, <1>6, <1>7, <1>8, <1>9 DEF ReadRight

LEMMA FinishLexed ==
    ASSUME TypeOK, Plain(text), ReadRight, Finish
    PROVE  Returned' = Pieces(text)
<1>1. at = Len(text) + 1 /\ Len(text) \in Nat
      BY Here DEF Finish, TypeOK
<1>2. \A p \in start .. Len(text) : p \notin Cuts(text)
      BY <1>1 DEF ReadRight, InToken
<1>3. UpTo(text, start) = Pieces(text)
      BY <1>2, Here, NoneAfterLastCut
<1>4. Returned' = Returned
      BY DEF Finish, Returned
<1> QED BY <1>3, <1>4 DEF ReadRight

LEMMA StepLexed == TypeOK /\ LexInv /\ [Read]_tokenizerVars => LexInv'
<1> SUFFICES ASSUME TypeOK, LexInv, [Read]_tokenizerVars, Plain(text)
             PROVE  \/ status' = "reading" /\ ReadRight'
                    \/ status' = "completed" /\ Returned' = Pieces(text)
  <2>1. [Read]_tokenizerVars => text' = text
        BY DEF Read, Word, Panic, Punctuator, Skip, Character, Finish, Yield, tokenizerVars
  <2> QED BY <2>1 DEF LexInv
<1>1. CASE Read
  <2>1. status = "reading" /\ ReadRight
    <3>1. status = "reading"
          BY <1>1 DEF Read, Word, Panic, Punctuator, Skip, Character, Finish, Breaking, More
    <3> QED BY <3>1 DEF LexInv
  <2>2. CASE Word
        BY <2>1, <2>2, WordLexed DEF Word, Yield
  <2>3. CASE Panic
        BY <2>1, <2>3 DEF Panic, ReadRight, FlagsRight
  <2>4. CASE Punctuator
        BY <2>1, <2>4, PunctuatorLexed DEF Punctuator, Yield
  <2>5. CASE Skip
        BY <2>1, <2>5, SkipLexed DEF Skip
  <2>6. CASE Character
        BY <2>1, <2>6, CharacterLexed DEF Character
  <2>7. CASE Finish
        BY <2>1, <2>7, FinishLexed DEF Finish
  <2> QED BY <1>1, <2>2, <2>3, <2>4, <2>5, <2>6, <2>7 DEF Read
<1>2. CASE UNCHANGED tokenizerVars
      BY <1>2 DEF tokenizerVars, LexInv, ReadRight, FlagsRight, InToken, AfterCut,
                  DotsLead, Returned, Odd
<1> QED BY <1>1, <1>2

-----------------------------------------------------------------------------
(* The pieces of a plain text are the tokens of GraphQL's lexical grammar.   *)
LEMMA OddIsInString ==
    ASSUME NEW t, NEW p \in DOMAIN t
    PROVE  p \in Strings(t) <=> Odd(t, p)
BY DEF Strings, Odd

(* Between quotes nothing opens or closes a string.                          *)
LEMMA OddUnchanged ==
    ASSUME NEW t \in Seq(STRING), NEW p \in Nat, NEW q \in Nat, p <= q,
           \A r \in p .. q - 1 : r \notin Quotes(t)
    PROVE  Odd(t, p) <=> Odd(t, q)
<1>1. Quotes(t) \subseteq Nat
      BY DEF Quotes
<1>2. \A r \in Quotes(t) : r < q => r < p
      BY <1>1
<1>3. {r \in Quotes(t) : r < p} = {r \in Quotes(t) : r < q}
      BY <1>1, <1>2
<1> QED BY <1>3 DEF Odd

LEMMA FirstQuote ==
    ASSUME NEW t \in Seq(STRING), NEW p \in Nat, NEW q \in Nat,
           \E r \in p .. q - 1 : r \in Quotes(t)
    PROVE  \E r \in p .. q - 1 :
               r \in Quotes(t) /\ \A x \in p .. r - 1 : x \notin Quotes(t)
<1> DEFINE S == {r \in p .. q - 1 : r \in Quotes(t)}
<1>1. S \subseteq Nat /\ S # {}
      OBVIOUS
<1>2. PICK r \in S : \A y \in S : r <= y
      BY <1>1, LeastExists
<1>3. ASSUME NEW x \in p .. r - 1 PROVE x \notin Quotes(t)
  <2>1. x \in p .. q - 1 /\ ~(r <= x)
        BY <1>2
  <2> QED BY <1>2, <2>1
<1> QED BY <1>2, <1>3

LEMMA SeparatorsAreNone ==
    Quote \notin Separators /\ Backslash \notin Separators
BY DEF Separators, PUNCTUATORS, Ignored, Quote, Backslash

(* The characters that break a token are those that separate tokens.         *)
LEMMA BreakersSeparate ==
    ASSUME NEW c, c \notin Wide \cup NotCut
    PROVE  Ends(c) <=> c \in Separators
BY DEF Ends, TOKEN_BREAKER, Insignificant, Wide, NotCut, Separators, PUNCTUATORS, Ignored

LEMMA PlainOutside ==
    ASSUME NEW t \in Seq(STRING), Plain(t), NEW p \in DOMAIN t, ~Odd(t, p)
    PROVE  /\ p \notin Strings(t)
           /\ p \in Cuts(t) <=> t[p] \in Separators
           /\ t[p] = Quote => p \in Quotes(t) /\ (p = 1 \/ t[p - 1] \in Separators)
<1>1. p \notin Strings(t)
      BY OddIsInString
<1>2. /\ t[p] \notin Wide \cup NotCut
      /\ t[p] = Quote => p = 1 \/ t[p - 1] \in Separators
      BY <1>1 DEF Plain
<1>3. p \in Cuts(t) <=> t[p] \in Separators
      BY <1>1, <1>2, BreakersSeparate DEF Cuts
<1>4. ASSUME t[p] = Quote PROVE p \in Quotes(t)
  <2>1. ~Escaped(t, p)
        BY <1>2, <1>4, EscapedInPlain, SeparatorsAreNone
  <2> QED BY <1>4, <2>1 DEF Quotes
<1> QED BY <1>1, <1>2, <1>3, <1>4

(* A string that something follows ends before a cut.                        *)
LEMMA CutAfterString ==
    ASSUME NEW t \in Seq(STRING), Plain(t), NEW p \in Quotes(t), Odd(t, p), p < Len(t)
    PROVE  p + 1 \in Cuts(t)
<1>1. p \in DOMAIN t /\ p \in Nat /\ Len(t) \in Nat
      BY DEF Quotes
<1>2. p \in Strings(t)
      BY <1>1, OddIsInString
<1>3. t[p + 1] \in Separators
      BY <1>1, <1>2 DEF Plain
<1>4. p + 1 \in DOMAIN t /\ ~Odd(t, p + 1)
      BY <1>1, OddStep
<1> QED BY <1>3, <1>4, PlainOutside

LEMMA WordIsOutside ==
    ASSUME NEW t \in Seq(STRING), NEW from, NEW next, IsWord(t, from, next)
    PROVE  /\ from \in Nat /\ next \in Nat /\ from >= 1 /\ from < next /\ next <= Len(t)
           /\ ~Odd(t, from) /\ ~Odd(t, next) /\ Len(t) \in Nat
<1>1. from \in Nat /\ next \in Nat /\ from >= 1 /\ from < next /\ next <= Len(t)
      BY CutsAreInText DEF IsWord
<1>2. ~Odd(t, next)
      BY CutsAreInText DEF IsWord
<1>3. ASSUME from = 1 PROVE ~Odd(t, from)
  <2>1. \A q \in Quotes(t) : ~(q < from)
        BY <1>3 DEF Quotes
  <2> QED BY <2>1, OddFirst
<1>4. ASSUME from - 1 \in Cuts(t) PROVE ~Odd(t, from)
  <2>1. ~Odd(t, from - 1 + 1)
        BY <1>4, CutIsNoQuote
  <2>2. from - 1 + 1 = from
        BY <1>1
  <2> QED BY <2>1, <2>2
<1> QED BY <1>1, <1>2, <1>3, <1>4 DEF IsWord

(* A piece that begins with a quote is a string.                             *)
LEMMA QuotedIsString ==
    ASSUME NEW t \in Seq(STRING), Plain(t), NEW from, NEW next, IsWord(t, from, next),
           t[from] = Quote
    PROVE  [from |-> from, to |-> next - 1] \in StringTokens(Quotes(t), Strings(t))
<1>1. /\ from \in Nat /\ next \in Nat /\ from >= 1 /\ from < next /\ next <= Len(t)
      /\ ~Odd(t, from) /\ ~Odd(t, next) /\ Len(t) \in Nat
      BY WordIsOutside
<1>2. from \in DOMAIN t
      BY <1>1
<1>3. from \in Quotes(t) /\ from \notin Strings(t)
      BY <1>1, <1>2, PlainOutside
<1>4. Odd(t, from + 1)
      BY <1>1, <1>2, <1>3, OddStep
<1>5. \E r \in from + 1 .. next - 1 : r \in Quotes(t)
  <2> SUFFICES ASSUME \A r \in from + 1 .. next - 1 : r \notin Quotes(t) PROVE FALSE
      OBVIOUS
  <2>1. from + 1 \in Nat /\ from + 1 <= next
        BY <1>1
  <2> QED BY <1>1, <1>4, <2>1, OddUnchanged
<1>6. PICK q \in from + 1 .. next - 1 :
          q \in Quotes(t) /\ \A x \in from + 1 .. q - 1 : x \notin Quotes(t)
  <2>1. from + 1 \in Nat
        BY <1>1
  <2> QED BY <1>1, <1>5, <2>1, FirstQuote
<1>7. q \in Nat /\ from < q /\ q < next /\ q < Len(t)
      BY <1>1, <1>6
<1>8. Odd(t, q)
  <2>1. from + 1 \in Nat /\ from + 1 <= q
        BY <1>1, <1>7
  <2> QED BY <1>4, <1>6, <1>7, <2>1, OddUnchanged
<1>9. q + 1 \in Cuts(t)
      BY <1>6, <1>7, <1>8, CutAfterString
<1>10. q + 1 = next
  <2>1. q + 1 \notin from .. next - 1
        BY <1>9 DEF IsWord
  <2> QED BY <1>1, <1>7, <2>1
<1>11. next - 1 = q
       BY <1>1, <1>7, <1>10
<1> QED BY <1>3, <1>6, <1>7, <1>11 DEF StringTokens

(* Any other has no quote in it.                                             *)
LEMMA UnquotedIsWord ==
    ASSUME NEW t \in Seq(STRING), Plain(t), NEW from, NEW next, IsWord(t, from, next),
           t[from] # Quote
    PROVE  [from |-> from, to |-> next - 1] \in WordTokens(WordCharacters(t, Strings(t)))
<1>1. /\ from \in Nat /\ next \in Nat /\ from >= 1 /\ from < next /\ next <= Len(t)
      /\ ~Odd(t, from) /\ ~Odd(t, next) /\ Len(t) \in Nat
      BY WordIsOutside
<1>2. \A p \in from .. next : p \in DOMAIN t /\ p \in Nat
      BY <1>1
<1>3. \A r \in from .. next - 1 : r \notin Quotes(t)
  <2> SUFFICES ASSUME \E r \in from .. next - 1 : r \in Quotes(t) PROVE FALSE
      OBVIOUS
  <2>1. PICK q \in from .. next - 1 :
            q \in Quotes(t) /\ \A x \in from .. q - 1 : x \notin Quotes(t)
        BY <1>1, FirstQuote
  <2>2. q \in Nat /\ q \in DOMAIN t /\ t[q] = Quote
        BY <1>1, <1>2, <2>1 DEF Quotes
  <2>3. from < q
        BY <1>1, <2>1, <2>2
  <2>4. ~Odd(t, q)
        BY <1>1, <2>1, <2>2, <2>3, OddUnchanged
  <2>5. q # 1
        BY <1>1, <2>3
  <2>6. t[q - 1] \in Separators
        BY <2>2, <2>4, <2>5, PlainOutside
  <2>7. q - 1 \in from .. next - 1 /\ q - 1 \in Nat /\ q - 1 \in DOMAIN t /\ from <= q - 1
        BY <1>1, <1>2, <2>1, <2>3
  <2>8. ~Odd(t, q - 1)
    <3>1. \A r \in from .. q - 1 - 1 : r \notin Quotes(t)
          BY <1>1, <2>1, <2>2
    <3> QED BY <1>1, <2>7, <3>1, OddUnchanged
  <2>9. q - 1 \in Cuts(t)
        BY <2>6, <2>7, <2>8, PlainOutside
  <2> QED BY <2>7, <2>9 DEF IsWord
<1> DEFINE characters == WordCharacters(t, Strings(t))
<1>4. ASSUME NEW p \in from .. next - 1 PROVE p \in characters
  <2>1. p \in DOMAIN t /\ p \in Nat /\ from <= p
        BY <1>1, <1>2
  <2>2. ~Odd(t, p)
    <3>1. \A r \in from .. p - 1 : r \notin Quotes(t)
          BY <1>1, <1>3, <2>1
    <3> QED BY <1>1, <2>1, <3>1, OddUnchanged
  <2>3. p \notin Strings(t) /\ t[p] \notin Separators
    <3>1. p \notin Cuts(t)
          BY DEF IsWord
    <3> QED BY <2>1, <2>2, <3>1, PlainOutside
  <2>4. t[p] # Quote
        BY <1>3, <2>1, <2>2, PlainOutside
  <2> QED BY <2>1, <2>3, <2>4 DEF WordCharacters
<1>5. ASSUME NEW p \in Cuts(t) PROVE p \notin characters
  <2>1. p \in DOMAIN t /\ ~Odd(t, p)
        BY CutsAreInText DEF Cuts
  <2>2. t[p] \in Separators
        BY <2>1, PlainOutside
  <2> QED BY <2>2 DEF WordCharacters
<1>6. from - 1 \notin characters
  <2>1. from = 1 => from - 1 \notin DOMAIN t
        OBVIOUS
  <2> QED BY <1>5, <2>1 DEF IsWord, WordCharacters
<1>7. next \notin characters
      BY <1>5 DEF IsWord
<1> HIDE DEF characters
<1>8. from \in characters /\ next - 1 \in characters /\ next - 1 + 1 = next /\ from <= next - 1
      BY <1>1, <1>4
<1>9. [from |-> from, to |-> next - 1] \in WordTokens(characters)
      BY <1>4, <1>6, <1>7, <1>8 DEF WordTokens
<1> QED BY <1>9 DEF characters

(* A string that something follows is a piece.                               *)
LEMMA StringIsPiece ==
    ASSUME NEW t \in Seq(STRING), Plain(t),
           NEW l \in StringTokens(Quotes(t), Strings(t)), l.to < Len(t)
    PROVE  IsWord(t, l.from, l.to + 1)
<1> DEFINE from == l.from
           to == l.to
<1>1. /\ from \in Quotes(t) /\ from \notin Strings(t) /\ to \in Quotes(t) /\ from < to
      /\ \A p \in from + 1 .. to - 1 : p \notin Quotes(t)
      BY DEF StringTokens
<1>2. /\ from \in DOMAIN t /\ from \in Nat /\ from >= 1 /\ t[from] = Quote
      /\ to \in DOMAIN t /\ to \in Nat /\ Len(t) \in Nat
      BY <1>1 DEF Quotes
<1> HIDE DEF from, to
<1>3. ~Odd(t, from)
      BY <1>1, <1>2, OddIsInString
<1>4. Odd(t, from + 1)
      BY <1>1, <1>2, <1>3, OddStep
<1>5. ASSUME NEW p \in from + 1 .. to PROVE Odd(t, p) /\ p \notin Cuts(t)
  <2>1. p \in Nat /\ from + 1 \in Nat /\ from + 1 <= p /\ p \in DOMAIN t
        BY <1>2
  <2>2. \A r \in from + 1 .. p - 1 : r \notin Quotes(t)
        BY <1>1, <1>2, <2>1
  <2>3. Odd(t, p)
        BY <1>4, <2>1, <2>2, OddUnchanged
  <2> QED BY <2>3, CutsAreInText
<1>6. from \notin Cuts(t)
      BY <1>2, CutIsNoQuote
<1>7. \A p \in from .. to : p \notin Cuts(t)
  <2>1. \A p \in from .. to : p = from \/ p \in from + 1 .. to
        BY <1>2
  <2> QED BY <1>5, <1>6, <2>1
<1>8. to + 1 \in Cuts(t)
  <2>1. Odd(t, to)
        BY <1>1, <1>2, <1>5
  <2>2. to < Len(t)
        BY DEF to
  <2> QED BY <1>1, <2>1, <2>2, CutAfterString
<1>9. from = 1 \/ from - 1 \in Cuts(t)
  <2> SUFFICES ASSUME from # 1 PROVE from - 1 \in Cuts(t)
      OBVIOUS
  <2>1. t[from - 1] \in Separators
        BY <1>2, <1>3, PlainOutside
  <2>2. from - 1 \in DOMAIN t /\ from - 1 + 1 = from
        BY <1>2
  <2>3. from - 1 \notin Quotes(t)
        BY <2>1, SeparatorsAreNone DEF Quotes
  <2>4. ~Odd(t, from - 1)
    <3>1. Odd(t, from - 1 + 1) <=> Odd(t, from - 1)
          BY <2>2, <2>3, OddStep
    <3> QED BY <1>3, <2>2, <3>1
  <2> QED BY <2>1, <2>2, <2>4, PlainOutside
<1>10. from < to + 1 /\ from \in DOMAIN t \ Cuts(t)
       BY <1>1, <1>2, <1>6
<1>11. PICK next : next = to + 1
       OBVIOUS
<1>12. IsWord(t, from, next)
  <2>1. /\ from \in DOMAIN t \ Cuts(t) /\ next \in Cuts(t) /\ from < next
        /\ from = 1 \/ from - 1 \in Cuts(t)
        BY <1>8, <1>9, <1>10, <1>11
  <2>2. next - 1 = to
        BY <1>2, <1>11
  <2> QED BY <1>7, <2>1, <2>2 DEF IsWord
<1> QED BY <1>11, <1>12 DEF from, to

(* A name or a number that something follows is a piece.                     *)
LEMMA WordIsPiece ==
    ASSUME NEW t \in Seq(STRING), Plain(t),
           NEW l \in WordTokens(WordCharacters(t, Strings(t))), l.to < Len(t)
    PROVE  IsWord(t, l.from, l.to + 1)
<1> DEFINE characters == WordCharacters(t, Strings(t))
           from == l.from
           to == l.to
<1>1. /\ from <= to /\ \A p \in from .. to : p \in characters
      /\ from - 1 \notin characters /\ to + 1 \notin characters
      /\ from \in characters /\ to \in characters
      BY DEF WordTokens
<1>2. ASSUME NEW p \in characters
      PROVE  /\ p \in DOMAIN t /\ p \in Nat /\ p >= 1 /\ p \notin Strings(t) /\ ~Odd(t, p)
             /\ t[p] \notin Separators /\ t[p] # Quote /\ p \notin Quotes(t) /\ p \notin Cuts(t)
  <2>1. p \in DOMAIN t /\ p \notin Strings(t) /\ t[p] \notin Separators /\ t[p] # Quote
        BY DEF WordCharacters
  <2>2. ~Odd(t, p)
        BY <2>1, OddIsInString
  <2>3. p \notin Quotes(t)
        BY <2>1 DEF Quotes
  <2> QED BY <2>1, <2>2, <2>3, PlainOutside
<1>3. ASSUME NEW p \in DOMAIN t, ~Odd(t, p), p \notin characters, t[p] # Quote
      PROVE  p \in Cuts(t)
  <2>1. t[p] \in Separators
        BY <1>3, PlainOutside DEF WordCharacters
  <2> QED BY <1>3, <2>1, PlainOutside
<1>4. to < Len(t)
      OBVIOUS
<1> HIDE DEF characters, from, to
<1>5. from \in Nat /\ from >= 1 /\ to \in Nat /\ from \in DOMAIN t /\ to \in DOMAIN t
      BY <1>1, <1>2
<1>6. to + 1 \in Cuts(t)
  <2>1. to + 1 \in DOMAIN t /\ to + 1 # 1 /\ to + 1 - 1 = to
        BY <1>4, <1>5
  <2>2. ~Odd(t, to + 1)
        BY <1>1, <1>2, <1>5, OddStep
  <2>3. t[to + 1] # Quote
    <3>1. PICK n : n = to + 1
          OBVIOUS
    <3>2. n \in DOMAIN t /\ ~Odd(t, n) /\ n # 1 /\ n - 1 = to
          BY <1>5, <2>1, <2>2, <3>1
    <3>3. t[n] = Quote => t[n - 1] \in Separators
          BY <3>2, PlainOutside
    <3> QED BY <1>1, <1>2, <3>1, <3>2, <3>3
  <2> QED BY <1>1, <1>3, <2>1, <2>2, <2>3
<1>7. from = 1 \/ from - 1 \in Cuts(t)
  <2> SUFFICES ASSUME from # 1 PROVE from - 1 \in Cuts(t)
      OBVIOUS
  <2>1. from - 1 \in DOMAIN t /\ from - 1 + 1 = from /\ from - 1 < Len(t)
        BY <1>5
  <2>2. ~Odd(t, from)
        BY <1>1, <1>2
  <2>3. Odd(t, from) <=> (IF from - 1 \in Quotes(t) THEN ~Odd(t, from - 1) ELSE Odd(t, from - 1))
    <3>1. Odd(t, from - 1 + 1) <=>
              (IF from - 1 \in Quotes(t) THEN ~Odd(t, from - 1) ELSE Odd(t, from - 1))
          BY <2>1, OddStep
    <3> QED BY <2>1, <3>1
  <2>4. ~Odd(t, from - 1)
    <3> SUFFICES ASSUME Odd(t, from - 1) PROVE FALSE
        OBVIOUS
    <3>1. from - 1 \in Quotes(t)
          BY <2>2, <2>3
    <3>2. from - 1 + 1 \in Cuts(t)
          BY <2>1, <3>1, CutAfterString
    <3> QED BY <1>1, <1>2, <2>1, <3>2
  <2>5. t[from - 1] # Quote
        BY <2>1, <2>2, <2>3, <2>4, PlainOutside
  <2> QED BY <1>1, <1>3, <2>1, <2>4, <2>5
<1>8. \A p \in from .. to : p \notin Cuts(t)
      BY <1>1, <1>2
<1>9. from < to + 1 /\ from \in DOMAIN t \ Cuts(t)
      BY <1>1, <1>2, <1>5
<1>10. PICK next : next = to + 1
       OBVIOUS
<1>11. IsWord(t, from, next)
  <2>1. /\ from \in DOMAIN t \ Cuts(t) /\ next \in Cuts(t) /\ from < next
        /\ from = 1 \/ from - 1 \in Cuts(t)
        BY <1>6, <1>7, <1>9, <1>10
  <2>2. next - 1 = to
        BY <1>5, <1>10
  <2> QED BY <1>8, <2>1, <2>2 DEF IsWord
<1> QED BY <1>10, <1>11 DEF from, to

(* A punctuator is a piece.                                                  *)
LEMMA SingleIsPunctuator ==
    ASSUME NEW t \in Seq(STRING), Plain(t), NEW p
    PROVE  IsSingle(t, p) <=> p \in DOMAIN t \ Strings(t) /\ t[p] \in PUNCTUATORS
<1>1. ASSUME NEW c, c \notin NotCut
      PROVE  /\ c \in PUNCTUATORS <=> c # "." /\ c \in TOKEN_BREAKER
             /\ c \in TOKEN_BREAKER => Ends(c)
      BY <1>1 DEF Ends, TOKEN_BREAKER, NotCut, PUNCTUATORS
<1>2. \A q \in DOMAIN t \ Strings(t) : t[q] \notin NotCut
      BY DEF Plain
<1>3. Cuts(t) \subseteq DOMAIN t \ Strings(t)
      BY DEF Cuts
<1>4. \A q \in DOMAIN t \ Strings(t) : Ends(t[q]) => q \in Cuts(t)
      BY DEF Cuts
<1> QED BY <1>1, <1>2, <1>3, <1>4 DEF IsSingle

(* Dots that count from the first are pieces of three.                       *)
LEMMA DotsAreSpreads ==
    ASSUME NEW t \in Seq(STRING), Plain(t), NEW p
    PROVE  /\ Leads(t, p) <=> p \in Leading(Dotted(t, Strings(t)))
           /\ Leads(t, p) => /\ InThrees(Dotted(t, Strings(t)), p)
                             /\ DotsEnd(t, p) = p + 2 /\ t[p + 2] = "."
                             /\ p \in Nat /\ p + 2 \in DOMAIN t
<1> DEFINE dots == Dotted(t, Strings(t))
<1>1. DotsOf(t) = dots
      BY DEF DotsOf, Dotted, Cuts, Ends, TOKEN_BREAKER
<1>2. \A q \in Leading(dots) : InThrees(dots, q)
      BY DEF Plain
<1>3. \A q \in dots : q \in DOMAIN t /\ q \in Nat /\ t[q] = "."
      BY DEF Dotted
<1> HIDE DEF dots
<1>4. Leads(t, p) <=> p \in Leading(dots)
      BY <1>1 DEF Leads, Leading
<1>5. ASSUME Leads(t, p)
      PROVE  /\ InThrees(dots, p) /\ DotsEnd(t, p) = p + 2 /\ t[p + 2] = "."
             /\ p \in Nat /\ p + 2 \in DOMAIN t
  <2>1. InThrees(dots, p) /\ p \in dots
        BY <1>2, <1>4, <1>5 DEF Leading
  <2>2. DotsEnd(t, p) = p + 2
        BY <1>1, <2>1 DEF DotsEnd, InThrees
  <2> QED BY <1>3, <2>1, <2>2 DEF InThrees
<1> QED BY <1>4, <1>5 DEF dots

LEMMA PiecesAreLexemes ==
    ASSUME NEW t \in Seq(STRING), Plain(t)
    PROVE  Pieces(t) = {l \in Lexemes(t) : Kept(t, l)}
<1> DEFINE strings == StringTokens(Quotes(t), Strings(t))
           words == WordTokens(WordCharacters(t, Strings(t)))
           punctuators == PunctuatorTokens(t, Strings(t))
           spreads == SpreadTokens(Dotted(t, Strings(t)))
<1>1. Lexemes(t) = strings \cup words \cup punctuators \cup spreads
      BY DEF Lexemes
<1>2. /\ \A l \in strings : t[l.to] = Quote /\ l.to \in 1 .. Len(t)
                            /\ l = [from |-> l.from, to |-> l.to]
      /\ \A l \in words : t[l.to] \notin Separators /\ l.to \in 1 .. Len(t)
                          /\ l = [from |-> l.from, to |-> l.to]
  <2>1. \A p \in Quotes(t) : t[p] = Quote /\ p \in 1 .. Len(t)
        BY DEF Quotes
  <2>2. \A p \in WordCharacters(t, Strings(t)) : t[p] \notin Separators /\ p \in 1 .. Len(t)
        BY DEF WordCharacters
  <2> QED BY <2>1, <2>2 DEF StringTokens, WordTokens
<1>3. ASSUME NEW l \in strings \cup words, Kept(t, l)
      PROVE  l \in Pieces(t)
  <2>1. l.to < Len(t)
        BY <1>2, <1>3, SeparatorsAreNone DEF Kept, Separators
  <2>2. PICK next : next = l.to + 1
        OBVIOUS
  <2>3. IsWord(t, l.from, next)
        BY <1>3, <2>1, <2>2, StringIsPiece, WordIsPiece
  <2>4. l.to = next - 1 /\ l = [from |-> l.from, to |-> l.to]
        BY <1>2, <1>3, <2>2
  <2>5. l = [from |-> l.from, to |-> next - 1]
        BY <2>4
  <2> QED BY <2>3, <2>5, PieceKinds
<1>4. ASSUME NEW l, l \in punctuators \cup spreads
      PROVE  l \in Pieces(t)
  <2>1. ASSUME l \in punctuators PROVE \E p : IsSingle(t, p) /\ l = [from |-> p, to |-> p]
        BY <2>1, SingleIsPunctuator DEF PunctuatorTokens
  <2>2. ASSUME l \in spreads
        PROVE  \E p : Leads(t, p) /\ l = [from |-> p, to |-> DotsEnd(t, p)]
    <3>1. PICK p \in Leading(Dotted(t, Strings(t))) : l = [from |-> p, to |-> p + 2]
          BY <2>2 DEF SpreadTokens
    <3>2. Leads(t, p) /\ DotsEnd(t, p) = p + 2
          BY DotsAreSpreads
    <3> QED BY <3>1, <3>2
  <2> QED BY <1>4, <2>1, <2>2, PieceKinds
<1>5. ASSUME NEW from, NEW next, IsWord(t, from, next)
      PROVE  /\ [from |-> from, to |-> next - 1] \in strings \cup words
             /\ Kept(t, [from |-> from, to |-> next - 1])
  <2>1. next \in Nat /\ next <= Len(t) /\ Len(t) \in Nat
        BY <1>5, WordIsOutside
  <2>2. Kept(t, [from |-> from, to |-> next - 1])
        BY <2>1 DEF Kept
  <2> QED BY <1>5, <2>2, QuotedIsString, UnquotedIsWord
<1>6. ASSUME NEW p, IsSingle(t, p)
      PROVE  [from |-> p, to |-> p] \in punctuators /\ Kept(t, [from |-> p, to |-> p])
  <2>1. p \in DOMAIN t \ Strings(t) /\ t[p] \in PUNCTUATORS
        BY <1>6, SingleIsPunctuator
  <2> QED BY <2>1 DEF PunctuatorTokens, Kept
<1>7. ASSUME NEW p, Leads(t, p)
      PROVE  /\ [from |-> p, to |-> DotsEnd(t, p)] \in spreads
             /\ Kept(t, [from |-> p, to |-> DotsEnd(t, p)])
  <2>1. /\ p \in Leading(Dotted(t, Strings(t))) /\ InThrees(Dotted(t, Strings(t)), p)
        /\ DotsEnd(t, p) = p + 2 /\ t[p + 2] = "."
        BY <1>7, DotsAreSpreads
  <2>2. [from |-> p, to |-> p + 2] \in spreads
        BY <2>1 DEF SpreadTokens
  <2>3. Kept(t, [from |-> p, to |-> p + 2])
        BY <2>1 DEF Kept
  <2> QED BY <2>1, <2>2, <2>3
<1> HIDE DEF strings, words, punctuators, spreads
<1>8. ASSUME NEW l \in Pieces(t)
      PROVE  l \in Lexemes(t) /\ Kept(t, l)
      BY <1>1, <1>5, <1>6, <1>7, PieceKinds
<1> QED BY <1>1, <1>3, <1>4, <1>8

(* Whatever the length of a plain text, and wherever its quotes, backslashes *)
(* and dots are, next() cuts it into the tokens of GraphQL's lexical grammar *)
(* up to a last word that nothing follows, and no slice panics: the          *)
(* characters that break a token are the right ones, and the flags that      *)
(* survive from one call to the next are right whenever they are used        *)
(* (tokenizer.rs:23-84).                                                     *)
THEOREM PlainIsLexed == Spec => []LexedAsGraphQL
<1>1. ASSUME TypeOK, LexInv PROVE LexedAsGraphQL
  <2>1. text \in Seq(STRING)
        BY <1>1 DEF TypeOK
  <2>2. Plain(text) => Pieces(text) = {l \in Lexemes(text) : Kept(text, l)}
        BY <2>1, PiecesAreLexemes
  <2> QED BY <1>1, <2>2 DEF LexInv, LexedAsGraphQL, Returned
<1> QED BY <1>1, InitLexed, StepLexed, TokenizerTyped, PTL DEF Spec
=============================================================================

--------------------------- MODULE KeyTextProofs ---------------------------
(* Theorems about KeyText, for any names, values and users: keys of legible  *)
(* paths and users are the same only if the paths and the users are.         *)
EXTENDS KeyText, SequenceTheorems, WellFoundedInduction, TLAPS

-----------------------------------------------------------------------------
(* Texts, a character at a time.                                             *)
LEMMA FirstExists ==
    ASSUME NEW T, T \subseteq Nat, T # {}
    PROVE  \E x \in T : \A y \in T : x <= y
<1> DEFINE R == OpToRel(<, Nat)
<1>1. IsWellFoundedOn(R, Nat)
      BY NatLessThanWellFounded
<1>2. \A x, y \in Nat : x < y => <<x, y>> \in R
      BY Zenon DEF OpToRel
<1> HIDE DEF R
<1>3. PICK x \in T : \A y \in T : ~ (<<y, x>> \in R)
      BY <1>1, WFMin
<1>4. \A y \in T : ~ (y < x)
      BY <1>2, <1>3
<1> QED BY <1>4

LEMMA PrefixOfText ==
    ASSUME NEW s \in Text, NEW t \in Text, Len(s) <= Len(t),
           \A i \in 1 .. Len(s) : s[i] = t[i]
    PROVE  IsPrefix(s, t)
<1> DEFINE a == SubSeq(s, 1, Len(s))
           b == SubSeq(t, 1, Len(s))
<1>1. a \in Seq(Char) /\ Len(a) = Len(s) /\ \A i \in 1 .. Len(s) : a[i] = s[i]
      BY DEF Text
<1>2. b \in Seq(Char) /\ Len(b) = Len(s) /\ \A i \in 1 .. Len(s) : b[i] = t[i]
      BY DEF Text
<1> HIDE DEF a, b
<1>3. a = b
      BY <1>1, <1>2, SeqEqual
<1> QED BY <1>3 DEF IsPrefix, a, b

(* What a text is, when it is put together of two.                           *)
IsConcat(c, s, t) ==
    /\ Len(c) = Len(s) + Len(t)
    /\ \A i \in 1 .. Len(s) : c[i] = s[i]
    /\ \A i \in 1 .. Len(t) : c[Len(s) + i] = t[i]

LEMMA ConcatText ==
    ASSUME NEW s \in Text, NEW t \in Text
    PROVE  s \o t \in Text /\ IsConcat(s \o t, s, t)
BY DEF Text, IsConcat

LEMMA SameTexts ==
    ASSUME NEW s \in Text, NEW t \in Text, Len(s) = Len(t),
           \A i \in 1 .. Len(s) : s[i] = t[i]
    PROVE  s = t
BY SeqEqual DEF Text

LEMMA NonEmpty ==
    ASSUME NEW t \in Text, t # <<>>
    PROVE  Len(t) \in Nat /\ Len(t) >= 1 /\ DOMAIN t = 1 .. Len(t)
BY DEF Text

LEMMA OneCharacter ==
    ASSUME NEW a \in Char
    PROVE  <<a>> \in Text /\ Len(<<a>>) = 1 /\ <<a>>[1] = a
BY DEF Text

LEMMA ThreeCharacters ==
    ASSUME NEW S \in SUBSET Char, NEW a \in S, NEW b \in S, NEW c \in S
    PROVE  /\ <<a, b, c>> \in Text
           /\ Len(<<a, b, c>>) = 3
           /\ \A k \in 1 .. 3 : <<a, b, c>>[k] \in S
BY DEF Text

(* Of two texts that are equal, neither beginning begins with the other      *)
(* unless they are equal; then the rests are equal too.                      *)
LEMMA SplitsAlike ==
    ASSUME NEW s \in Text, NEW t \in Text, NEW x \in Text, NEW y \in Text,
           NEW c, IsConcat(c, s, x), IsConcat(c, t, y), ~OneBeginsOther(s, t)
    PROVE  s = t /\ x = y
<1>1. Len(s) \in Nat /\ Len(t) \in Nat /\ Len(x) \in Nat /\ Len(y) \in Nat
      BY DEF Text
<1>2. ASSUME Len(s) <= Len(t) PROVE s = t
  <2>1. \A i \in 1 .. Len(s) : s[i] = t[i]
        BY <1>1, <1>2 DEF IsConcat
  <2> QED BY <1>2, <2>1, PrefixOfText DEF OneBeginsOther
<1>3. ASSUME Len(t) <= Len(s) PROVE s = t
  <2>1. \A i \in 1 .. Len(t) : t[i] = s[i]
        BY <1>1, <1>3 DEF IsConcat
  <2> QED BY <1>3, <2>1, PrefixOfText DEF OneBeginsOther
<1>4. s = t
      BY <1>1, <1>2, <1>3
<1>5. Len(x) = Len(y)
      BY <1>1, <1>4 DEF IsConcat
<1>6. \A i \in 1 .. Len(x) : x[i] = y[i]
      BY <1>4, <1>5 DEF IsConcat
<1>7. x = y
      BY <1>5, <1>6, SameTexts
<1> QED BY <1>4, <1>7

-----------------------------------------------------------------------------
(* The shapes of what is written.                                            *)

(* A piece begins with its mark and goes on with a name.                     *)
Opening(p, first) == Lead(p, first) \o p.name

IsOpening(h, first) ==
    /\ Len(h) >= 1
    /\ \A k \in 2 .. Len(h) : h[k] \in Alphanumeric
    /\ IF first THEN h[1] \in Letters ELSE h[1] \in Marks

(* A value has no mark, and quotes only after a bracket; or it is quoted.    *)
Bracketed(x) ==
    \A k \in 1 .. Len(x) :
        /\ x[k] \notin Marks
        /\ x[k] = Quote => \E j \in 1 .. k - 1 : x[j] \in Brackets

Quoted(x) ==
    /\ Len(x) >= 2 /\ x[1] = Quote /\ x[Len(x)] = Quote
    /\ \A k \in 2 .. Len(x) - 1 : x[k] # Quote

LEMMA CharactersApart ==
    /\ "_" \in Char /\ "+" \in Char /\ Quote \in Char
    /\ Marks \subseteq Char /\ Alphanumeric \subseteq Char
    /\ Letters \subseteq Alphanumeric
    /\ Quote \notin Marks /\ Quote \notin Alphanumeric /\ Quote \notin Brackets
    /\ \A a \in Alphanumeric : a \notin Marks /\ a \notin Brackets
    /\ \A a \in Points : a \notin Marks /\ a \notin Brackets /\ a # Quote
    /\ \A a \in Brackets : a \notin Marks
    /\ \A a \in {"N", "I", "L", "S", "T", "O", "B", "J"} : a \in Alphanumeric
BY CharactersDiffer DEF Char, Marks, Quote, Alphanumeric

LEMMA NameTyped ==
    ASSUME NEW n \in FieldNames \cup ArgumentNames
    PROVE  n \in Text /\ IsName(n)
BY PartsAreText

LEMMA PieceTyped ==
    ASSUME NEW p \in Piece
    PROVE  /\ p.name \in FieldNames \cup ArgumentNames
           /\ p.is = "field" => p = FieldPiece(p.name)
           /\ p.is = "argument" => p = ArgumentPiece(p.name, p.value)
           /\ p.is \in {"field", "argument"}
           /\ p.value \in Values \cup {NoValue}
           /\ p.is = "argument" => p.value \in Values
           /\ p.is = "field" => p.value = NoValue
BY DEF Piece, FieldPiece, ArgumentPiece

LEMMA OpeningShape ==
    ASSUME NEW p \in Piece, NEW first \in BOOLEAN, first => p.is = "field",
           Unmarked(p.name)
    PROVE  Opening(p, first) \in Text /\ IsOpening(Opening(p, first), first)
<1> DEFINE n == p.name
           l == Lead(p, first)
           h == l \o n
<1>1. n \in Text /\ IsName(n) /\ Unmarked(n)
      BY PieceTyped, NameTyped
<1>2. n[1] \in Letters /\ Len(n) >= 1 /\ \A k \in 1 .. Len(n) : n[k] \in Alphanumeric
  <2>1. Len(n) >= 1 /\ DOMAIN n = 1 .. Len(n)
        BY <1>1, NonEmpty DEF IsName
  <2> QED BY <1>1, <2>1 DEF IsName, Unmarked, Marks
<1>3. CASE first
  <2>1. l = <<>>
        BY <1>3 DEF Lead
  <2>2. h = n
        BY <1>1, <2>1 DEF Text
  <2>3. IsOpening(n, first)
        BY <1>2, <1>3 DEF IsOpening
  <2> HIDE DEF n, l
  <2> QED BY <1>1, <2>2, <2>3 DEF Opening, n, l
<1>4. CASE ~first
  <2>1. l \in Text /\ Len(l) = 1 /\ l[1] \in Marks
    <3>1. l = <<"_">> \/ l = <<"+">>
          BY <1>4 DEF Lead
    <3>2. "_" \in Marks /\ "+" \in Marks
          BY DEF Marks
    <3> QED BY <3>1, <3>2, CharactersApart, OneCharacter
  <2> HIDE DEF n, l
  <2>2. h \in Text /\ IsConcat(h, l, n)
        BY <1>1, <2>1, ConcatText
  <2> HIDE DEF h
  <2>3. Len(h) = Len(n) + 1 /\ h[1] = l[1] /\ \A k \in 1 .. Len(n) : h[1 + k] = n[k]
        BY <2>1, <2>2 DEF IsConcat
  <2>4. Len(n) \in Nat
        BY <1>1 DEF Text
  <2>5. ASSUME NEW k \in 2 .. Len(h)
        PROVE  h[k] \in Alphanumeric
    <3>1. k - 1 \in 1 .. Len(n) /\ 1 + (k - 1) = k
          BY <2>3, <2>4
    <3> QED BY <1>2, <2>3, <3>1
  <2>6. IsOpening(h, first)
        BY <1>4, <2>1, <2>3, <2>4, <2>5 DEF IsOpening
  <2> QED BY <2>2, <2>6 DEF Opening, h, l, n
<1> QED BY <1>3, <1>4

LEMMA OpeningCharacters ==
    ASSUME NEW h \in Text, NEW first \in BOOLEAN, IsOpening(h, first)
    PROVE  \A k \in 1 .. Len(h) :
               h[k] \in Alphanumeric \cup Marks /\ (k > 1 => h[k] \in Alphanumeric)
<1> SUFFICES ASSUME NEW k \in 1 .. Len(h)
             PROVE  h[k] \in Alphanumeric \cup Marks /\ (k > 1 => h[k] \in Alphanumeric)
    OBVIOUS
<1>1. Len(h) \in Nat
      BY DEF Text
<1>2. CASE k = 1
  <2>1. h[1] \in Letters \cup Marks
        BY DEF IsOpening
  <2>2. h[1] \in Alphanumeric \cup Marks
        BY <2>1, CharactersApart
  <2> QED BY <1>2, <2>2
<1>3. CASE k > 1
  <2>1. k \in 2 .. Len(h)
        BY <1>1, <1>3
  <2> QED BY <2>1 DEF IsOpening
<1> QED BY <1>1, <1>2, <1>3

LEMMA ValueTyped ==
    ASSUME NEW v \in Values
    PROVE  /\ v \in Value /\ IsValue(v) /\ v.text \in Text
           /\ v.kind \in {"null", "plain", "string", "list", "object"}
           /\ Len(v.text) \in Nat /\ DOMAIN v.text = 1 .. Len(v.text)
BY PartsAreText DEF IsValue, Value, Text

LEMMA StringIsWritten ==
    ASSUME NEW v \in Values, v.kind = "string"
    PROVE  LET t == v.text
               x == Written(v)
           IN  /\ x \in Text /\ Len(x) = Len(t) + 2
               /\ x[1] = Quote /\ x[Len(x)] = Quote
               /\ \A k \in 1 .. Len(t) : x[1 + k] = t[k]
<1> DEFINE t == v.text
           x == Written(v)
           q == <<Quote>>
           a == q \o t
<1>1. x = a \o q
      BY DEF Written
<1>2. t \in Text /\ Len(t) \in Nat
      BY ValueTyped
<1>3. q \in Text /\ Len(q) = 1 /\ q[1] = Quote
      BY CharactersApart, OneCharacter
<1> HIDE DEF q, t
<1>4. a \in Text /\ IsConcat(a, q, t)
      BY <1>2, <1>3, ConcatText
<1> HIDE DEF a
<1>5. a \o q \in Text /\ IsConcat(a \o q, a, q)
      BY <1>3, <1>4, ConcatText
<1> HIDE DEF x
<1>6. x \in Text /\ IsConcat(x, a, q)
      BY <1>1, <1>5
<1>7. Len(a) = Len(t) + 1 /\ Len(x) = Len(t) + 2
      BY <1>2, <1>3, <1>4, <1>6 DEF IsConcat
<1>8. a[1] = Quote /\ \A k \in 1 .. Len(t) : a[1 + k] = t[k]
      BY <1>3, <1>4 DEF IsConcat
<1>9. x[Len(a) + 1] = Quote /\ \A k \in 1 .. Len(a) : x[k] = a[k]
      BY <1>3, <1>6 DEF IsConcat
<1>10. /\ x[1] = Quote /\ x[Len(x)] = Quote
       /\ \A k \in 1 .. Len(t) : x[1 + k] = t[k]
       BY <1>2, <1>7, <1>8, <1>9
<1> QED BY <1>6, <1>7, <1>10 DEF t, x

LEMMA StructureIsWritten ==
    ASSUME NEW v \in Values, v.kind \in {"list", "object"}
    PROVE  LET t == v.text
               x == Written(v)
           IN  /\ x \in Text /\ Len(x) = Len(t) + 3
               /\ x[1] = IF v.kind = "list" THEN "L" ELSE "O"
               /\ \A k \in 1 .. 3 : x[k] \in Alphanumeric
               /\ \A k \in 1 .. Len(t) : x[3 + k] = t[k]
               /\ 4 \in 1 .. Len(x) /\ x[4] \in Brackets
<1> DEFINE t == v.text
           x == Written(v)
           w == IF v.kind = "list" THEN <<"L", "S", "T">> ELSE <<"O", "B", "J">>
<1>1. x = w \o t
      BY DEF Written
<1>2. t \in Text /\ Len(t) \in Nat /\ t # <<>> /\ t[1] \in Brackets
      BY ValueTyped DEF IsValue
<1>3. w \in Text /\ Len(w) = 3 /\ \A k \in 1 .. 3 : w[k] \in Alphanumeric
      BY CharactersApart, ThreeCharacters
<1>4. w[1] = IF v.kind = "list" THEN "L" ELSE "O"
      OBVIOUS
<1> HIDE DEF w, t
<1>5. w \o t \in Text /\ IsConcat(w \o t, w, t)
      BY <1>2, <1>3, ConcatText
<1> HIDE DEF x
<1>6. x \in Text /\ IsConcat(x, w, t)
      BY <1>1, <1>5
<1>7. /\ Len(x) = Len(t) + 3
      /\ \A k \in 1 .. 3 : x[k] = w[k]
      /\ \A k \in 1 .. Len(t) : x[3 + k] = t[k]
      BY <1>3, <1>6 DEF IsConcat
<1>8. Len(t) >= 1
      BY <1>2, NonEmpty
<1>9. 1 \in 1 .. 3 /\ 1 \in 1 .. Len(t) /\ 3 + 1 = 4
      BY <1>2, <1>8
<1>10. 4 \in 1 .. Len(x) /\ x[4] \in Brackets
       BY <1>2, <1>7, <1>8, <1>9
<1>11. \A k \in 1 .. 3 : x[k] \in Alphanumeric
       BY <1>3, <1>7
<1>12. x[1] = IF v.kind = "list" THEN "L" ELSE "O"
       BY <1>4, <1>7, <1>9
<1> QED BY <1>6, <1>7, <1>10, <1>11, <1>12 DEF t, x

LEMMA ValueShape ==
    ASSUME NEW v \in Values \cup {NoValue}
    PROVE  /\ Written(v) \in Text
           /\ LegibleValue(v) => Bracketed(Written(v)) \/ Quoted(Written(v))
<1> DEFINE t == v.text
           x == Written(v)
<1>1. CASE v = NoValue
  <2>1. x = <<>>
        BY <1>1 DEF Written, NoValue
  <2> QED BY <2>1 DEF Bracketed, Text
<1>2. CASE v \in Values
  <2>1. /\ IsValue(v) /\ t \in Text /\ v.kind \in {"null", "plain", "string", "list", "object"}
        /\ Len(t) \in Nat /\ DOMAIN t = 1 .. Len(t)
        BY <1>2, ValueTyped
  <2>2. CASE v.kind = "null"
    <3>1. x = Nil
          BY <2>2 DEF Written
    <3>2. Nil \in Text /\ \A k \in 1 .. Len(Nil) : Nil[k] \in Alphanumeric
          BY CharactersApart, ThreeCharacters DEF Nil
    <3>3. Bracketed(Nil)
          BY <3>2, CharactersApart DEF Bracketed
    <3> QED BY <3>1, <3>2, <3>3
  <2>3. CASE v.kind = "plain"
    <3>1. x = t
          BY <2>3 DEF Written
    <3>2. \A k \in 1 .. Len(t) : t[k] \in Alphanumeric \cup Points
          BY <2>1, <2>3 DEF IsValue
    <3>3. Bracketed(t)
          BY <3>2, CharactersApart DEF Bracketed
    <3> QED BY <2>1, <3>1, <3>3
  <2>4. CASE v.kind = "string"
    <3>1. /\ x \in Text /\ Len(x) = Len(t) + 2 /\ x[1] = Quote /\ x[Len(x)] = Quote
          /\ \A k \in 1 .. Len(t) : x[1 + k] = t[k]
          BY <1>2, <2>4, StringIsWritten
    <3> HIDE DEF x
    <3>2. ASSUME LegibleValue(v), NEW k \in 2 .. Len(x) - 1
          PROVE  x[k] # Quote
      <4>0. Len(x) = Len(t) + 2 /\ Len(t) \in Nat
            BY <2>1, <3>1
      <4>1. k - 1 \in 1 .. Len(t) /\ 1 + (k - 1) = k
            BY <4>0
      <4>2. t[k - 1] # Quote
            BY <2>1, <2>4, <3>2, <4>1 DEF LegibleValue
      <4> QED BY <3>1, <4>1, <4>2
    <3>3. LegibleValue(v) => Quoted(x)
          BY <2>1, <3>1, <3>2 DEF Quoted
    <3> QED BY <3>1, <3>3 DEF x
  <2>5. CASE v.kind \in {"list", "object"}
    <3>1. /\ x \in Text /\ Len(x) = Len(t) + 3 /\ x[4] \in Brackets
          /\ \A k \in 1 .. 3 : x[k] \in Alphanumeric
          /\ \A k \in 1 .. Len(t) : x[3 + k] = t[k]
          BY <1>2, <2>5, StructureIsWritten
    <3> HIDE DEF x
    <3>2. ASSUME LegibleValue(v), NEW k \in 1 .. Len(x)
          PROVE  x[k] \notin Marks /\ (x[k] = Quote => \E j \in 1 .. k - 1 : x[j] \in Brackets)
      <4>1. CASE k <= 4
        <5>1. x[k] \in Alphanumeric \cup Brackets
              BY <3>1, <4>1
        <5> QED BY <5>1, CharactersApart
      <4>2. CASE k > 4
        <5>1. k - 3 \in 1 .. Len(t) /\ 3 + (k - 3) = k /\ 4 \in 1 .. k - 1
              BY <2>1, <3>1, <4>2
        <5>2. t[k - 3] \notin Marks
              BY <2>1, <2>5, <3>2, <5>1 DEF LegibleValue, Unmarked
        <5>3. x[k] \notin Marks
              BY <3>1, <5>1, <5>2
        <5> QED BY <3>1, <5>1, <5>3
      <4> QED BY <4>1, <4>2
    <3>3. LegibleValue(v) => Bracketed(x)
          BY <3>2 DEF Bracketed
    <3> QED BY <3>1, <3>3 DEF x
  <2> QED BY <2>1, <2>2, <2>3, <2>4, <2>5
<1> QED BY <1>1, <1>2

-----------------------------------------------------------------------------
(* One piece from another.                                                   *)

IsWord(w, h, x) == IsConcat(w, h, x) /\ (Bracketed(x) \/ Quoted(x))

(* A piece does not end, with a mark after it, where another goes on: that   *)
(* mark would have to be in a string, of which the other would have had the  *)
(* first quote too, and then its last.                                       *)
LEMMA EndsAlike ==
    ASSUME NEW h \in Text, NEW x \in Text, NEW w, NEW g \in Text, NEW y \in Text, NEW v,
           NEW first \in BOOLEAN, IsOpening(h, first), IsOpening(g, first),
           IsWord(w, h, x), IsWord(v, g, y),
           Len(w) < Len(v),
           \A k \in 1 .. Len(w) : w[k] = v[k],
           v[Len(w) + 1] \in Marks
    PROVE  FALSE
<1> DEFINE e == Len(w) + 1
<1>1. /\ Len(h) \in Nat /\ Len(x) \in Nat /\ Len(g) \in Nat /\ Len(y) \in Nat
      /\ Len(h) >= 1 /\ Len(g) >= 1
      /\ Len(w) = Len(h) + Len(x) /\ Len(v) = Len(g) + Len(y)
      BY DEF Text, IsOpening, IsWord, IsConcat
<1>2. /\ \A k \in 1 .. Len(h) : w[k] = h[k]
      /\ \A k \in 1 .. Len(g) : v[k] = g[k]
      /\ \A k \in 1 .. Len(x) : w[Len(h) + k] = x[k]
      /\ \A k \in 1 .. Len(y) : v[Len(g) + k] = y[k]
      BY DEF IsWord, IsConcat
<1>3. /\ \A k \in 1 .. Len(h) : w[k] # Quote /\ w[k] \notin Brackets
      /\ \A k \in 1 .. Len(g) : v[k] # Quote /\ v[k] \notin Brackets
      /\ \A k \in 2 .. Len(g) : v[k] \notin Marks
  <2>1. \A k \in 1 .. Len(h) : h[k] \in Alphanumeric \cup Marks
        BY OpeningCharacters
  <2>2. \A k \in 1 .. Len(g) :
            g[k] \in Alphanumeric \cup Marks /\ (k > 1 => g[k] \in Alphanumeric)
        BY OpeningCharacters
  <2>3. \A a \in Alphanumeric \cup Marks : a # Quote /\ a \notin Brackets
        BY CharactersApart
  <2>4. \A k \in 2 .. Len(g) : k \in 1 .. Len(g) /\ k > 1
        OBVIOUS
  <2> QED BY <1>2, <2>1, <2>2, <2>3, <2>4, CharactersApart
<1>4. e > Len(g) /\ e - Len(g) \in 1 .. Len(y)
  <2>1. e \in 2 .. Len(v)
        BY <1>1
  <2>2. e \notin 2 .. Len(g)
        BY <1>3
  <2> QED BY <1>1, <2>1, <2>2
<1>5. Quoted(y)
  <2>1. Len(g) + (e - Len(g)) = e
        BY <1>1
  <2>2. y[e - Len(g)] \in Marks
        BY <1>2, <1>4, <2>1
  <2>3. ~Bracketed(y)
        BY <1>4, <2>2 DEF Bracketed
  <2> QED BY <2>3 DEF IsWord
(* o: where the string of v begins.                                          *)
<1> DEFINE o == Len(g) + 1
<1>6. v[o] = Quote /\ o \in 1 .. Len(w)
  <2>1. 1 \in 1 .. Len(y) /\ y[1] = Quote
        BY <1>1, <1>4, <1>5 DEF Quoted
  <2>2. v[o] = Quote
        BY <1>2, <2>1
  <2>3. o # e
        BY <2>2, CharactersApart
  <2> QED BY <1>1, <1>4, <2>2, <2>3
<1>7. o > Len(h) /\ o - Len(h) \in 1 .. Len(x) /\ x[o - Len(h)] = Quote
  <2>1. w[o] = Quote
        BY <1>6
  <2>2. o > Len(h)
        BY <1>1, <1>3, <1>6, <2>1
  <2>3. o - Len(h) \in 1 .. Len(x) /\ Len(h) + (o - Len(h)) = o
        BY <1>1, <1>6, <2>2
  <2> QED BY <1>2, <2>1, <2>2, <2>3
<1>8. Quoted(x)
  <2> SUFFICES ASSUME Bracketed(x) PROVE FALSE
      BY DEF IsWord
  <2>1. PICK j \in 1 .. (o - Len(h)) - 1 : x[j] \in Brackets
        BY <1>7 DEF Bracketed
  <2>2. j \in 1 .. Len(x) /\ Len(h) + j \in 1 .. Len(g) /\ Len(h) + j \in 1 .. Len(w)
        BY <1>1, <1>6, <1>7, <2>1
  <2>3. w[Len(h) + j] \in Brackets
        BY <1>2, <2>1, <2>2
  <2> QED BY <1>3, <2>2, <2>3
<1>9. o = Len(h) + 1
  <2>1. x[1] = Quote /\ Len(x) >= 2
        BY <1>8 DEF Quoted
  <2>2. w[Len(h) + 1] = Quote /\ Len(h) + 1 \in 1 .. Len(w)
        BY <1>1, <1>2, <2>1
  <2>3. Len(h) + 1 > Len(g)
        BY <1>1, <1>3, <2>2
  <2> QED BY <1>1, <1>7, <2>3
(* And where it would end in w, it goes on in v.                             *)
<1>10. v[Len(w)] = Quote /\ Len(w) = Len(g) + Len(x) /\ Len(x) >= 2
  <2>1. Len(x) >= 2 /\ x[Len(x)] = Quote
        BY <1>8 DEF Quoted
  <2>2. Len(x) \in 1 .. Len(x) /\ Len(w) \in 1 .. Len(w)
        BY <1>1, <2>1
  <2>3. w[Len(w)] = Quote
        BY <1>1, <1>2, <2>1, <2>2
  <2>4. v[Len(w)] = Quote
        BY <2>2, <2>3
  <2> QED BY <1>1, <1>9, <2>4, <2>1, <2>2
<1>11. Len(x) \in 2 .. Len(y) - 1
       BY <1>1, <1>4, <1>10
<1>12. y[Len(x)] = Quote
  <2>1. Len(x) \in 1 .. Len(y)
        BY <1>11
  <2> QED BY <1>2, <1>10, <2>1
<1> QED BY <1>5, <1>11, <1>12 DEF Quoted

(* A value is told by what is written of it.                                 *)
LEMMA WrittenApart ==
    ASSUME NEW u \in Values, NEW v \in Values, LegibleValue(u), LegibleValue(v),
           Written(u) = Written(v)
    PROVE  u = v
<1> DEFINE x == Written(u)
<1>1. /\ u = [kind |-> u.kind, text |-> u.text] /\ v = [kind |-> v.kind, text |-> v.text]
      /\ u.kind \in {"null", "plain", "string", "list", "object"}
      /\ v.kind \in {"null", "plain", "string", "list", "object"}
      /\ u.text \in Text /\ v.text \in Text
      /\ Len(u.text) \in Nat /\ Len(v.text) \in Nat
      BY ValueTyped DEF Value
(* What the kinds are told by.                                               *)
<1>2. ASSUME NEW w \in Values, LegibleValue(w), Written(w) = x
      PROVE  /\ w.kind = "null" => x = Nil /\ w.text = <<>>
             /\ w.kind = "plain" =>
                    x = w.text /\ x # Nil /\ \A k \in 1 .. Len(x) : x[k] # Quote /\ x[k] \notin Brackets
             /\ w.kind = "string" => Len(x) >= 1 /\ x[1] = Quote
             /\ w.kind \in {"list", "object"} =>
                    /\ 4 \in 1 .. Len(x) /\ x[4] \in Brackets
                    /\ x[1] = IF w.kind = "list" THEN "L" ELSE "O"
  <2>1. /\ IsValue(w) /\ Len(w.text) \in Nat /\ DOMAIN w.text = 1 .. Len(w.text)
        BY <1>2, ValueTyped
  <2>2. w.kind = "null" => x = Nil /\ w.text = <<>>
        BY <1>2, <2>1 DEF Written, IsValue
  <2>3. ASSUME w.kind = "plain"
        PROVE  x = w.text /\ x # Nil /\ \A k \in 1 .. Len(x) : x[k] # Quote /\ x[k] \notin Brackets
    <3>1. x = w.text
          BY <1>2, <2>3 DEF Written
    <3> HIDE DEF x
    <3>2. x # Nil
          BY <1>2, <2>3, <3>1 DEF LegibleValue
    <3>3. \A k \in 1 .. Len(x) : x[k] \in Alphanumeric \cup Points
          BY <2>1, <2>3, <3>1 DEF IsValue
    <3> QED BY <3>1, <3>2, <3>3, CharactersApart
  <2>4. w.kind = "string" => Len(x) >= 1 /\ x[1] = Quote
        BY <1>2, <2>1, StringIsWritten
  <2>5. w.kind \in {"list", "object"} =>
            /\ 4 \in 1 .. Len(x) /\ x[4] \in Brackets
            /\ x[1] = IF w.kind = "list" THEN "L" ELSE "O"
        BY <1>2, <2>1, StructureIsWritten
  <2> QED BY <2>2, <2>3, <2>4, <2>5
<1>3. /\ Len(Nil) = 3 /\ Nil[1] # Quote
      /\ "L" # Quote /\ "O" # Quote
  <2>1. Len(Nil) = 3 /\ Nil[1] \in Alphanumeric
        BY CharactersApart DEF Nil
  <2> QED BY <2>1, CharactersApart
<1> HIDE DEF x
<1> DEFINE Q == Len(x) >= 1 /\ x[1] = Quote
           S == 4 \in 1 .. Len(x) /\ x[4] \in Brackets
<1>4. /\ x = Nil => ~Q /\ ~S
      /\ Q => x[1] \notin {"L", "O"}
      BY <1>3
<1>5. ASSUME NEW w \in Values, LegibleValue(w), Written(w) = x
      PROVE  /\ w.kind = "null" => x = Nil
             /\ w.kind = "plain" => x # Nil /\ ~Q /\ ~S
             /\ w.kind = "string" => Q
             /\ w.kind = "list" => S /\ x[1] = "L"
             /\ w.kind = "object" => S /\ x[1] = "O"
  <2>1. Q => 1 \in 1 .. Len(x)
        OBVIOUS
  <2> QED BY <1>2, <1>5, <2>1
<1> HIDE DEF Q, S
<1>6. u.kind = v.kind
  <2>1. Written(u) = x /\ Written(v) = x
        BY DEF x
  <2> QED BY <1>1, <1>4, <1>5, <2>1
<1>7. u.text = v.text
  <2>1. Written(u) = x /\ Written(v) = x
        BY DEF x
  <2>2. CASE u.kind \in {"null", "plain"}
        BY <1>2, <1>6, <2>1, <2>2
  <2>3. CASE u.kind = "string"
    <3>1. /\ Len(x) = Len(u.text) + 2 /\ \A k \in 1 .. Len(u.text) : x[1 + k] = u.text[k]
          /\ Len(x) = Len(v.text) + 2 /\ \A k \in 1 .. Len(v.text) : x[1 + k] = v.text[k]
          BY <1>6, <2>1, <2>3, StringIsWritten
    <3>2. Len(u.text) = Len(v.text)
          BY <1>1, <3>1
    <3>3. \A k \in 1 .. Len(u.text) : u.text[k] = v.text[k]
          BY <3>1, <3>2
    <3> QED BY <1>1, <3>2, <3>3, SameTexts
  <2>4. CASE u.kind \in {"list", "object"}
    <3>1. /\ Len(x) = Len(u.text) + 3 /\ \A k \in 1 .. Len(u.text) : x[3 + k] = u.text[k]
          /\ Len(x) = Len(v.text) + 3 /\ \A k \in 1 .. Len(v.text) : x[3 + k] = v.text[k]
          BY <1>6, <2>1, <2>4, StructureIsWritten
    <3>2. Len(u.text) = Len(v.text)
          BY <1>1, <3>1
    <3>3. \A k \in 1 .. Len(u.text) : u.text[k] = v.text[k]
          BY <3>1, <3>2
    <3> QED BY <1>1, <3>2, <3>3, SameTexts
  <2> QED BY <1>1, <2>2, <2>3, <2>4
<1> QED BY <1>1, <1>6, <1>7

(* A piece as it is written: its mark and its name, then its value.          *)
LEMMA OpeningOf ==
    ASSUME NEW p \in Piece, NEW first \in BOOLEAN
    PROVE  LET l == IF first /\ p.is = "field" THEN 0 ELSE 1
               h == Opening(p, first)
           IN  /\ h \in Text /\ p.name \in Text
               /\ Len(h) = Len(p.name) + l
               /\ \A k \in 1 .. Len(p.name) : h[l + k] = p.name[k]
               /\ l = 1 => h[1] = IF p.is = "argument" THEN "_" ELSE "+"
<1> DEFINE n == p.name
           m == Lead(p, first)
           h == Opening(p, first)
           l == IF first /\ p.is = "field" THEN 0 ELSE 1
<1>1. n \in Text /\ Len(n) \in Nat /\ p.is \in {"field", "argument"}
      BY PieceTyped, NameTyped, NonEmpty DEF IsName
<1>2. ASSUME l = 0 PROVE h = n
  <2>1. m = <<>>
        BY <1>2 DEF Lead
  <2> QED BY <1>1, <2>1 DEF Text, Opening
<1>3. ASSUME l = 1
      PROVE  m \in Text /\ Len(m) = 1 /\ m[1] = IF p.is = "argument" THEN "_" ELSE "+"
  <2>1. ~(first /\ p.is = "field")
        BY <1>3
  <2>2. p.is = "argument" \/ ~first
        BY <1>1, <2>1
  <2>3. m = IF p.is = "argument" THEN <<"_">> ELSE <<"+">>
        BY <2>2, Zenon DEF Lead
  <2>4. /\ <<"_">> \in Text /\ Len(<<"_">>) = 1 /\ <<"_">>[1] = "_"
        /\ <<"+">> \in Text /\ Len(<<"+">>) = 1 /\ <<"+">>[1] = "+"
        BY CharactersApart, OneCharacter
  <2> HIDE DEF m
  <2> QED BY <2>3, <2>4
<1>4. l \in {0, 1} /\ h = m \o n
      BY DEF Opening
<1> HIDE DEF m, n, l, h
<1>5. h \in Text /\ Len(h) = Len(n) + l /\ \A k \in 1 .. Len(n) : h[l + k] = n[k]
  <2>1. CASE l = 0
    <3>1. h = n /\ \A k \in 1 .. Len(n) : l + k = k
          BY <1>1, <1>2, <2>1
    <3> QED BY <1>1, <2>1, <3>1
  <2>2. CASE l = 1
    <3>1. m \o n \in Text /\ IsConcat(m \o n, m, n) /\ Len(m) = 1
          BY <1>1, <1>3, <2>2, ConcatText
    <3>2. h \in Text /\ IsConcat(h, m, n)
          BY <1>4, <3>1
    <3> QED BY <1>1, <2>2, <3>1, <3>2 DEF IsConcat
  <2> QED BY <1>4, <2>1, <2>2
<1>6. ASSUME l = 1 PROVE h[1] = IF p.is = "argument" THEN "_" ELSE "+"
  <2>1. m \o n \in Text /\ IsConcat(m \o n, m, n) /\ Len(m) = 1
        BY <1>1, <1>3, <1>6, ConcatText
  <2>2. IsConcat(h, m, n) /\ 1 \in 1 .. Len(m)
        BY <1>4, <2>1
  <2>3. h[1] = m[1]
        BY <2>2 DEF IsConcat
  <2> QED BY <1>3, <1>6, <2>3
<1>7. /\ h \in Text /\ n \in Text
      /\ Len(h) = Len(n) + l
      /\ \A k \in 1 .. Len(n) : h[l + k] = n[k]
      /\ l = 1 => h[1] = IF p.is = "argument" THEN "_" ELSE "+"
      BY <1>1, <1>5, <1>6
<1> QED BY <1>7 DEF h, l, n

LEMMA SpelledOf ==
    ASSUME NEW p \in Piece, NEW first \in BOOLEAN
    PROVE  /\ Spelled(p, first) \in Text
           /\ IsConcat(Spelled(p, first), Opening(p, first), Written(p.value))
<1> DEFINE h == Opening(p, first)
           x == Written(p.value)
<1>1. Spelled(p, first) = h \o x
      BY DEF Spelled, Opening
<1>2. h \in Text /\ x \in Text
      BY OpeningOf, PieceTyped, ValueShape
<1> HIDE DEF h, x
<1>3. h \o x \in Text /\ IsConcat(h \o x, h, x)
      BY <1>2, ConcatText
<1> QED BY <1>1, <1>3 DEF h, x

LegiblePiece(p, first) ==
    /\ p \in Piece
    /\ first => p.is = "field"
    /\ Unmarked(p.name) /\ LegibleValue(p.value)

LEMMA WordShape ==
    ASSUME NEW p, NEW first \in BOOLEAN, LegiblePiece(p, first)
    PROVE  LET w == Spelled(p, first)
               h == Opening(p, first)
               x == Written(p.value)
           IN  /\ w \in Text /\ h \in Text /\ x \in Text
               /\ IsOpening(h, first) /\ IsWord(w, h, x)
               /\ Len(w) \in Nat /\ Len(w) >= 1 /\ w[1] = h[1]
<1> DEFINE w == Spelled(p, first)
           h == Opening(p, first)
           x == Written(p.value)
<1>1. p \in Piece /\ (first => p.is = "field") /\ Unmarked(p.name) /\ LegibleValue(p.value)
      BY DEF LegiblePiece
<1>2. w \in Text /\ IsConcat(w, h, x)
      BY <1>1, SpelledOf
<1>3. h \in Text /\ IsOpening(h, first)
      BY <1>1, OpeningShape
<1>4. x \in Text /\ (Bracketed(x) \/ Quoted(x))
      BY <1>1, PieceTyped, ValueShape
<1> HIDE DEF w, h, x
<1>5. Len(w) \in Nat /\ Len(h) \in Nat /\ Len(x) \in Nat
      BY <1>2, <1>3, <1>4 DEF Text
<1>6. Len(w) = Len(h) + Len(x) /\ Len(h) >= 1 /\ w[1] = h[1]
      BY <1>2, <1>3, <1>5 DEF IsConcat, IsOpening
<1> QED BY <1>2, <1>3, <1>4, <1>5, <1>6 DEF IsWord, w, h, x

LEMMA AfterTheMark ==
    ASSUME NEW w \in Text, NEW h \in Text, NEW n \in Text, NEW x \in Text,
           IsConcat(w, h, x), Len(h) = Len(n) + 1,
           \A k \in 1 .. Len(n) : h[1 + k] = n[k]
    PROVE  IsConcat(SubSeq(w, 2, Len(w)), n, x)
<1> DEFINE c == SubSeq(w, 2, Len(w))
<1>1. Len(w) \in Nat /\ Len(h) \in Nat /\ Len(n) \in Nat /\ Len(x) \in Nat
      BY DEF Text
<1>2. Len(w) = Len(n) + 1 + Len(x)
      BY <1>1 DEF IsConcat
<1>3. Len(c) = Len(w) - 1 /\ \A k \in 1 .. Len(w) - 1 : c[k] = w[k + 1]
      BY <1>1, <1>2 DEF Text
<1> HIDE DEF c
<1>4. ASSUME NEW k \in 1 .. Len(n) PROVE c[k] = n[k]
  <2>1. 1 + k \in 1 .. Len(h) /\ k \in 1 .. Len(w) - 1 /\ 1 + k = k + 1
        BY <1>1, <1>2
  <2>2. w[1 + k] = h[1 + k]
        BY <2>1 DEF IsConcat
  <2> QED BY <1>3, <2>1, <2>2
<1>5. ASSUME NEW k \in 1 .. Len(x) PROVE c[Len(n) + k] = x[k]
  <2>1. Len(n) + k \in 1 .. Len(w) - 1 /\ (Len(n) + k) + 1 = Len(h) + k
        BY <1>1, <1>2
  <2>2. w[Len(h) + k] = x[k]
        BY DEF IsConcat
  <2> QED BY <1>3, <2>1, <2>2
<1>6. Len(c) = Len(n) + Len(x)
      BY <1>1, <1>2, <1>3
<1> QED BY <1>4, <1>5, <1>6 DEF IsConcat, c

(* A piece is told by what is written of it.                                 *)
LEMMA SameWords ==
    ASSUME NEW p, NEW q, NEW first \in BOOLEAN,
           LegiblePiece(p, first), LegiblePiece(q, first),
           p.is = "argument" /\ q.is = "argument" => ~OneBeginsOther(p.name, q.name),
           Spelled(p, first) = Spelled(q, first)
    PROVE  p = q
<1> DEFINE w == Spelled(p, first)
           g == Opening(p, first)
           h == Opening(q, first)
           x == Written(p.value)
           y == Written(q.value)
<1>1. p \in Piece /\ q \in Piece /\ LegibleValue(p.value) /\ LegibleValue(q.value)
      BY DEF LegiblePiece
<1>2. /\ w \in Text /\ g \in Text /\ h \in Text /\ x \in Text /\ y \in Text
      /\ IsConcat(w, g, x) /\ IsConcat(w, h, y) /\ w[1] = g[1] /\ w[1] = h[1]
      BY WordShape DEF IsWord
<1>3. /\ p.is \in {"field", "argument"} /\ q.is \in {"field", "argument"}
      /\ p.name \in Text /\ q.name \in Text
      BY <1>1, PieceTyped, OpeningOf
<1>4. p.is = q.is
  <2>1. CASE first
        BY <2>1 DEF LegiblePiece
  <2>2. CASE ~first
    <3>1. /\ g[1] = IF p.is = "argument" THEN "_" ELSE "+"
          /\ h[1] = IF q.is = "argument" THEN "_" ELSE "+"
          BY <1>1, <2>2, OpeningOf
    <3> QED BY <1>2, <1>3, <3>1
  <2> QED BY <2>1, <2>2
<1>5. ASSUME p.is = "field" PROVE p = q
  <2>1. p = FieldPiece(p.name) /\ q = FieldPiece(q.name) /\ p.value = NoValue /\ q.value = NoValue
        BY <1>1, <1>4, <1>5, PieceTyped
  <2>2. x = <<>> /\ y = <<>>
        BY <2>1 DEF Written, NoValue
  <2> DEFINE l == IF first THEN 0 ELSE 1
  <2>3. /\ Len(g) = Len(p.name) + l /\ \A k \in 1 .. Len(p.name) : g[l + k] = p.name[k]
        /\ Len(h) = Len(q.name) + l /\ \A k \in 1 .. Len(q.name) : h[l + k] = q.name[k]
        BY <1>1, <1>4, <1>5, OpeningOf
  <2>4. Len(g) \in Nat /\ Len(h) \in Nat /\ Len(p.name) \in Nat /\ Len(q.name) \in Nat /\ l \in Nat
        BY <1>2, <1>3 DEF Text
  <2> HIDE DEF g, h, x, y, l, w
  <2>5. Len(w) = Len(g) /\ Len(w) = Len(h)
        BY <1>2, <2>2, <2>4 DEF IsConcat
  <2>6. Len(p.name) = Len(q.name)
        BY <2>3, <2>4, <2>5
  <2>7. ASSUME NEW k \in 1 .. Len(p.name) PROVE p.name[k] = q.name[k]
    <3>1. l + k \in 1 .. Len(g) /\ l + k \in 1 .. Len(h) /\ k \in 1 .. Len(q.name)
          BY <2>3, <2>4, <2>6
    <3>2. g[l + k] = w[l + k] /\ h[l + k] = w[l + k]
          BY <1>2, <3>1 DEF IsConcat
    <3> QED BY <2>3, <3>1, <3>2
  <2>8. p.name = q.name
        BY <1>3, <2>6, <2>7, SameTexts
  <2> QED BY <2>1, <2>8
<1>6. ASSUME p.is = "argument" PROVE p = q
  <2>1. /\ p = ArgumentPiece(p.name, p.value) /\ q = ArgumentPiece(q.name, q.value)
        /\ p.value \in Values /\ q.value \in Values
        BY <1>1, <1>4, <1>6, PieceTyped
  <2>2. /\ Len(g) = Len(p.name) + 1 /\ \A k \in 1 .. Len(p.name) : g[1 + k] = p.name[k]
        /\ Len(h) = Len(q.name) + 1 /\ \A k \in 1 .. Len(q.name) : h[1 + k] = q.name[k]
        BY <1>1, <1>4, <1>6, OpeningOf
  <2> DEFINE c == SubSeq(w, 2, Len(w))
  <2>3. IsConcat(c, p.name, x) /\ IsConcat(c, q.name, y)
        BY <1>2, <1>3, <2>2, AfterTheMark
  <2> HIDE DEF c, g, h
  <2>4. p.name = q.name /\ x = y
        BY <1>2, <1>3, <1>4, <1>6, <2>3, SplitsAlike
  <2>5. p.value = q.value
        BY <1>1, <2>1, <2>4, WrittenApart
  <2> QED BY <2>1, <2>4, <2>5
<1> QED BY <1>3, <1>5, <1>6

-----------------------------------------------------------------------------
(* One path from another.                                                    *)

WordAt(ps, i) == Spelled(ps[i], i = 1)

(* A text spells a path when its pieces follow one another from at[1] to     *)
(* the end.                                                                  *)
SpellsAt(t, ps, at) ==
    /\ at \in [1 .. Len(ps) + 1 -> Nat]
    /\ at[1] = 0
    /\ at[Len(ps) + 1] = Len(t)
    /\ \A i \in 1 .. Len(ps) :
          /\ at[i + 1] = at[i] + Len(WordAt(ps, i))
          /\ at[i + 1] <= Len(t)
          /\ \A k \in 1 .. Len(WordAt(ps, i)) : t[at[i] + k] = WordAt(ps, i)[k]

Spells(t, ps) == \E at : SpellsAt(t, ps, at)

LegiblePath(ps) ==
    /\ ps \in Seq(Piece) /\ ps # <<>>
    /\ ps[1].is = "field"
    /\ Legible(ps)

LEMMA LegibleAt ==
    ASSUME NEW ps, LegiblePath(ps), NEW i \in 1 .. Len(ps)
    PROVE  LegiblePiece(ps[i], i = 1)
BY DEF LegiblePath, LegiblePiece, Legible

LEMMA LegibleWord ==
    ASSUME NEW ps, LegiblePath(ps), NEW i \in 1 .. Len(ps)
    PROVE  LET w == WordAt(ps, i)
               h == Opening(ps[i], i = 1)
               x == Written(ps[i].value)
           IN  /\ w \in Text /\ h \in Text /\ x \in Text
               /\ IsOpening(h, i = 1) /\ IsWord(w, h, x)
               /\ Len(w) \in Nat /\ Len(w) >= 1 /\ w[1] = h[1]
<1>1. LegiblePiece(ps[i], i = 1)
      BY LegibleAt
<1>2. (i = 1) \in BOOLEAN
      OBVIOUS
<1> QED BY <1>1, <1>2, WordShape, Zenon DEF WordAt

(* Where two paths go on at the same character, the piece of neither is      *)
(* shorter: the next piece of that path begins with a mark.                  *)
LEMMA NoShorterPiece ==
    ASSUME NEW t \in Text, NEW ps, NEW qs, NEW at, NEW bt,
           LegiblePath(ps), LegiblePath(qs),
           SpellsAt(t, ps, at), SpellsAt(t, qs, bt),
           NEW i \in 1 .. Len(ps), i \in 1 .. Len(qs), at[i] = bt[i]
    PROVE  ~(Len(WordAt(ps, i)) < Len(WordAt(qs, i)))
<1> SUFFICES ASSUME Len(WordAt(ps, i)) < Len(WordAt(qs, i)) PROVE FALSE
    OBVIOUS
<1> DEFINE w == WordAt(ps, i)
           v == WordAt(qs, i)
<1>1. Len(ps) \in Nat /\ Len(qs) \in Nat /\ i \in Nat /\ Len(t) \in Nat
      BY DEF LegiblePath, Text
<1>2. /\ w \in Text /\ Opening(ps[i], i = 1) \in Text /\ Written(ps[i].value) \in Text
      /\ IsOpening(Opening(ps[i], i = 1), i = 1)
      /\ IsWord(w, Opening(ps[i], i = 1), Written(ps[i].value))
      /\ Len(w) \in Nat
      BY LegibleWord
<1>3. /\ v \in Text /\ Opening(qs[i], i = 1) \in Text /\ Written(qs[i].value) \in Text
      /\ IsOpening(Opening(qs[i], i = 1), i = 1)
      /\ IsWord(v, Opening(qs[i], i = 1), Written(qs[i].value))
      /\ Len(v) \in Nat
      BY LegibleWord
<1> HIDE DEF w, v
<1>4. /\ at[i] \in Nat /\ at[i + 1] = at[i] + Len(w)
      /\ \A k \in 1 .. Len(w) : t[at[i] + k] = w[k]
  <2>1. at \in [1 .. Len(ps) + 1 -> Nat] /\ i \in 1 .. Len(ps) + 1
        BY <1>1 DEF SpellsAt
  <2>2. at[i] \in Nat
        BY <2>1
  <2>3. at[i + 1] = at[i] + Len(w) /\ \A k \in 1 .. Len(w) : t[at[i] + k] = w[k]
        BY Zenon DEF SpellsAt, w
  <2> QED BY <2>2, <2>3
<1>5. /\ bt[i + 1] = at[i] + Len(v) /\ bt[i + 1] <= Len(t)
      /\ \A k \in 1 .. Len(v) : t[at[i] + k] = v[k]
      BY Zenon DEF SpellsAt, v
<1>6. Len(w) < Len(v)
      BY DEF w, v
<1>7. \A k \in 1 .. Len(w) : w[k] = v[k]
      BY <1>2, <1>3, <1>4, <1>5, <1>6
<1>8. i + 1 \in 1 .. Len(ps)
  <2>1. at[i + 1] < Len(t)
        BY <1>1, <1>2, <1>3, <1>4, <1>5, <1>6
  <2>2. i # Len(ps)
        BY <1>1, <2>1 DEF SpellsAt
  <2> QED BY <1>1, <2>2
<1> DEFINE u == WordAt(ps, i + 1)
           h == Opening(ps[i + 1], i + 1 = 1)
<1>9. u[1] \in Marks /\ 1 \in 1 .. Len(u)
  <2>1. IsOpening(h, i + 1 = 1) /\ Len(u) \in Nat /\ Len(u) >= 1 /\ u[1] = h[1]
        BY <1>8, LegibleWord
  <2>2. ~(i + 1 = 1)
        BY <1>1, <1>8
  <2> HIDE DEF h, u
  <2>3. h[1] \in Marks
        BY <2>1, <2>2 DEF IsOpening
  <2> QED BY <2>1, <2>3
<1>10. t[at[i + 1] + 1] = u[1]
       BY <1>8, <1>9 DEF SpellsAt
<1>11. v[Len(w) + 1] \in Marks
  <2>1. Len(w) + 1 \in 1 .. Len(v) /\ at[i + 1] + 1 = at[i] + (Len(w) + 1)
        BY <1>2, <1>3, <1>4, <1>6
  <2> QED BY <1>5, <1>9, <1>10, <2>1
<1>12. (i = 1) \in BOOLEAN
       OBVIOUS
<1> QED BY <1>2, <1>3, <1>6, <1>7, <1>11, <1>12, EndsAlike

LEMMA NoShorterPath ==
    ASSUME NEW t \in Text, NEW ps, NEW qs, NEW at, NEW bt,
           LegiblePath(ps), LegiblePath(qs),
           SpellsAt(t, ps, at), SpellsAt(t, qs, bt),
           Len(ps) < Len(qs), at[Len(ps) + 1] = bt[Len(ps) + 1]
    PROVE  FALSE
<1> DEFINE i == Len(ps) + 1
<1>1. Len(ps) \in Nat /\ Len(qs) \in Nat /\ Len(t) \in Nat
      BY DEF LegiblePath, Text
<1>2. i \in 1 .. Len(qs)
      BY <1>1
<1>3. Len(WordAt(qs, i)) \in Nat /\ Len(WordAt(qs, i)) >= 1
      BY <1>2, LegibleWord
<1>4. bt[i] = Len(t)
      BY DEF SpellsAt
<1> HIDE DEF i
<1>5. bt[i + 1] = bt[i] + Len(WordAt(qs, i)) /\ bt[i + 1] <= Len(t)
      BY <1>2 DEF SpellsAt
<1> QED BY <1>1, <1>3, <1>4, <1>5

(* A path is told by its text.                                               *)
LEMMA SpellsOnce ==
    ASSUME NEW t \in Text, NEW ps, NEW qs,
           LegiblePath(ps), LegiblePath(qs), ArgumentsApart(ps, qs),
           Spells(t, ps), Spells(t, qs)
    PROVE  ps = qs
<1>1. PICK at : SpellsAt(t, ps, at)
      BY DEF Spells
<1>2. PICK bt : SpellsAt(t, qs, bt)
      BY DEF Spells
<1>3. /\ ps \in Seq(Piece) /\ qs \in Seq(Piece) /\ Len(ps) \in Nat /\ Len(qs) \in Nat
      /\ DOMAIN ps = 1 .. Len(ps) /\ DOMAIN qs = 1 .. Len(qs)
      /\ Len(ps) >= 1 /\ Len(qs) >= 1
      BY DEF LegiblePath
<1> DEFINE Both == {i \in Nat : i \in 1 .. Len(ps) /\ i \in 1 .. Len(qs)}
           Ends == {i \in Nat : i \in 1 .. Len(ps) + 1 /\ i \in 1 .. Len(qs) + 1}
           Differ == {i \in Ends : at[i] # bt[i] \/ (i \in Both /\ ps[i] # qs[i])}
<1>4. Differ = {}
  <2> SUFFICES ASSUME Differ # {} PROVE FALSE
      OBVIOUS
  <2>1. Differ \subseteq Nat
        OBVIOUS
  <2>2. PICK i \in Differ : \A j \in Differ : i <= j
    <3> HIDE DEF Differ
    <3> QED BY <2>1, FirstExists
  <2>3. at[i] = bt[i]
    <3>1. CASE i = 1
          BY <1>1, <1>2, <3>1 DEF SpellsAt
    <3>2. CASE i # 1
      <4>1. i - 1 \in Both /\ i - 1 \in Ends /\ (i - 1) + 1 = i /\ ~(i <= i - 1)
            BY <1>3, <3>2
      <4>2. i - 1 \notin Differ
            BY <2>2, <4>1
      <4>3. at[i - 1] = bt[i - 1] /\ ps[i - 1] = qs[i - 1]
            BY <4>1, <4>2
      <4>4. WordAt(ps, i - 1) = WordAt(qs, i - 1)
            BY <4>3 DEF WordAt
      <4>5. /\ at[i] = at[i - 1] + Len(WordAt(ps, i - 1))
            /\ bt[i] = bt[i - 1] + Len(WordAt(qs, i - 1))
        <5>1. i - 1 \in 1 .. Len(ps) /\ i - 1 \in 1 .. Len(qs)
              BY <4>1
        <5> QED BY <1>1, <1>2, <4>1, <5>1 DEF SpellsAt
      <4> QED BY <4>3, <4>4, <4>5
    <3> QED BY <3>1, <3>2
  <2>4. i \in 1 .. Len(ps) /\ i \in 1 .. Len(qs) /\ ps[i] # qs[i]
        BY <2>3
  <2> HIDE DEF Differ, Both, Ends
  <2>5. /\ WordAt(ps, i) \in Text /\ Len(WordAt(ps, i)) \in Nat
        /\ WordAt(qs, i) \in Text /\ Len(WordAt(qs, i)) \in Nat
        BY <2>4, LegibleWord
  <2>6. Len(WordAt(ps, i)) = Len(WordAt(qs, i))
    <3>1. ~(Len(WordAt(ps, i)) < Len(WordAt(qs, i)))
          BY <1>1, <1>2, <2>3, <2>4, NoShorterPiece
    <3>2. ~(Len(WordAt(qs, i)) < Len(WordAt(ps, i)))
          BY <1>1, <1>2, <2>3, <2>4, NoShorterPiece
    <3> QED BY <2>5, <3>1, <3>2
  <2>7. \A k \in 1 .. Len(WordAt(ps, i)) : WordAt(ps, i)[k] = WordAt(qs, i)[k]
        BY <1>1, <1>2, <2>3, <2>4, <2>6 DEF SpellsAt
  <2>8. Spelled(ps[i], i = 1) = Spelled(qs[i], i = 1)
        BY <2>5, <2>6, <2>7, SameTexts DEF WordAt
  <2>9. LegiblePiece(ps[i], i = 1) /\ LegiblePiece(qs[i], i = 1) /\ (i = 1) \in BOOLEAN
        BY <2>4, LegibleAt
  <2>10. ps[i].is = "argument" /\ qs[i].is = "argument" => ~OneBeginsOther(ps[i].name, qs[i].name)
         BY <1>3, <2>4 DEF ArgumentsApart
  <2> QED BY <2>4, <2>8, <2>9, <2>10, SameWords
<1>5. ASSUME NEW i \in Ends
      PROVE  at[i] = bt[i] /\ (i \in Both => ps[i] = qs[i])
      BY <1>4
<1>6. Len(ps) = Len(qs)
  <2>1. ASSUME Len(ps) < Len(qs) PROVE FALSE
    <3>1. Len(ps) + 1 \in Ends
          BY <1>3, <2>1
    <3> QED BY <1>1, <1>2, <1>5, <2>1, <3>1, NoShorterPath
  <2>2. ASSUME Len(qs) < Len(ps) PROVE FALSE
    <3>1. Len(qs) + 1 \in Ends
          BY <1>3, <2>2
    <3> QED BY <1>1, <1>2, <1>5, <2>2, <3>1, NoShorterPath
  <2>3. Len(ps) \in Nat /\ Len(qs) \in Nat
        BY <1>3
  <2>4. ~(Len(ps) < Len(qs)) /\ ~(Len(qs) < Len(ps))
        BY <2>1, <2>2
  <2> QED BY <2>3, <2>4
<1>7. \A i \in 1 .. Len(ps) : ps[i] = qs[i]
  <2> SUFFICES ASSUME NEW i \in 1 .. Len(ps) PROVE ps[i] = qs[i]
      OBVIOUS
  <2>1. i \in Ends /\ i \in Both
        BY <1>3, <1>6
  <2> QED BY <1>5, <2>1
<1> QED BY <1>3, <1>6, <1>7, SeqEqual

(* A path begins with the name of a field, and a mark comes after it.        *)
LEMMA PathBegins ==
    ASSUME NEW t \in Text, NEW ps, NEW at, LegiblePath(ps), SpellsAt(t, ps, at)
    PROVE  /\ at[2] \in Nat /\ at[2] >= 1 /\ at[2] <= Len(t)
           /\ t[1] \in Letters
           /\ \A k \in 1 .. at[2] : t[k] \in Alphanumeric
           /\ at[2] < Len(t) => t[at[2] + 1] \in Marks
<1> DEFINE w == WordAt(ps, 1)
           h == Opening(ps[1], 1 = 1)
           x == Written(ps[1].value)
<1>1. Len(ps) \in Nat /\ Len(ps) >= 1 /\ Len(t) \in Nat /\ ps[1].is = "field" /\ ps[1] \in Piece
      BY DEF LegiblePath, Text
<1>2. 1 \in 1 .. Len(ps) /\ (1 = 1) = TRUE
      BY <1>1
<1>3. /\ w \in Text /\ h \in Text /\ IsOpening(h, 1 = 1) /\ IsWord(w, h, x)
      /\ Len(w) \in Nat /\ Len(w) >= 1
      BY <1>2, LegibleWord
<1>4. x = <<>>
      BY <1>1, PieceTyped DEF Written, NoValue
<1>5. /\ Len(h) = Len(w) /\ Len(h) >= 1 /\ h[1] \in Letters
      /\ \A k \in 1 .. Len(w) : w[k] = h[k] /\ h[k] \in Alphanumeric
  <2> HIDE DEF w, h, x
  <2>1. Len(h) \in Nat /\ IsConcat(w, h, x) /\ Len(x) = 0
        BY <1>3, <1>4 DEF Text, IsWord
  <2>2. Len(h) = Len(w) /\ \A k \in 1 .. Len(w) : w[k] = h[k]
        BY <1>3, <2>1 DEF IsConcat
  <2>3. Len(h) >= 1 /\ h[1] \in Letters /\ \A k \in 2 .. Len(h) : h[k] \in Alphanumeric
        BY <1>3 DEF IsOpening
  <2>4. h[1] \in Alphanumeric
        BY <2>3, CharactersApart
  <2>5. ASSUME NEW k \in 1 .. Len(w) PROVE h[k] \in Alphanumeric
    <3>1. k = 1 \/ k \in 2 .. Len(h)
          BY <2>1, <2>2
    <3> QED BY <2>3, <2>4, <3>1
  <2> QED BY <2>2, <2>3, <2>5
<1>6. /\ at[1] = 0 /\ at[1 + 1] = at[1] + Len(w) /\ at[1 + 1] <= Len(t)
      /\ \A k \in 1 .. Len(w) : t[at[1] + k] = w[k]
      BY <1>2 DEF SpellsAt
<1> HIDE DEF w, h, x
<1>7. at[2] = Len(w) /\ at[2] <= Len(t) /\ \A k \in 1 .. Len(w) : t[k] = w[k]
      BY <1>3, <1>6
<1>8. t[1] \in Letters /\ \A k \in 1 .. at[2] : t[k] \in Alphanumeric
  <2>1. 1 \in 1 .. Len(w)
        BY <1>3
  <2> QED BY <1>5, <1>7, <2>1
<1>9. ASSUME at[2] < Len(t) PROVE t[at[2] + 1] \in Marks
  <2>1. Len(ps) # 1
    <3> SUFFICES ASSUME Len(ps) = 1 PROVE FALSE
        OBVIOUS
    <3>1. at[1 + 1] = Len(t)
          BY DEF SpellsAt
    <3> QED BY <1>1, <1>3, <1>7, <1>9, <3>1
  <2> DEFINE m == Len(ps)
  <2>2. m \in Nat /\ m >= 1 /\ m # 1
        BY <1>1, <2>1
  <2> HIDE DEF m
  <2>3. 2 \in 1 .. m
        BY <2>2
  <2>4. 2 \in 1 .. Len(ps)
        BY <2>3 DEF m
  <2> DEFINE u == WordAt(ps, 2)
             g == Opening(ps[2], 2 = 1)
  <2>5. IsOpening(g, 2 = 1) /\ Len(u) \in Nat /\ Len(u) >= 1 /\ u[1] = g[1]
        BY <2>4, LegibleWord
  <2>6. \A k \in 1 .. Len(u) : t[at[2] + k] = u[k]
        BY <2>4 DEF SpellsAt
  <2> HIDE DEF u, g
  <2>7. g[1] \in Marks
        BY <2>5 DEF IsOpening
  <2>8. 1 \in 1 .. Len(u)
        BY <2>5
  <2> QED BY <2>5, <2>6, <2>7, <2>8
<1> QED BY <1>3, <1>7, <1>8, <1>9

(* A key with a legible user does not read as one without.                   *)
LEMMA UserIsSeen ==
    ASSUME NEW c \in Text, NEW ps, LegiblePath(ps), Spells(c, ps),
           NEW u \in Text, NEW t \in Text, LegibleUser(u), IsConcat(c, u, t)
    PROVE  FALSE
<1>1. PICK at : SpellsAt(c, ps, at)
      BY DEF Spells
<1> DEFINE n == at[2]
<1>2. /\ n \in Nat /\ n >= 1 /\ n <= Len(c) /\ c[1] \in Letters
      /\ \A k \in 1 .. n : c[k] \in Alphanumeric
      /\ n < Len(c) => c[n + 1] \in Marks
      BY <1>1, PathBegins
<1> HIDE DEF n
<1>3. /\ Len(u) \in Nat /\ Len(u) >= 1 /\ DOMAIN u = 1 .. Len(u) /\ Len(c) \in Nat
      /\ Len(u) <= Len(c)
      /\ \A k \in 1 .. Len(u) : c[k] = u[k]
  <2>1. Len(u) >= 1 /\ DOMAIN u = 1 .. Len(u) /\ Len(u) \in Nat /\ Len(t) \in Nat /\ Len(c) \in Nat
        BY NonEmpty DEF LegibleUser, Text
  <2>2. Len(c) = Len(u) + Len(t) /\ \A k \in 1 .. Len(u) : c[k] = u[k]
        BY DEF IsConcat
  <2> QED BY <2>1, <2>2
<1>4. u[1] \in Letters
  <2>1. 1 \in 1 .. Len(u)
        BY <1>3
  <2> QED BY <1>2, <1>3, <2>1
<1>5. PICK i \in DOMAIN u : u[i] \notin Alphanumeric \cup Marks
                               /\ \A j \in 1 .. i - 1 : u[j] \in Alphanumeric
      BY <1>4 DEF LegibleUser
<1>6. i \in 1 .. Len(u) /\ i \in Nat
      BY <1>3, <1>5
<1>7. c[i] \notin Alphanumeric \cup Marks
      BY <1>3, <1>5, <1>6
<1>8. i > n
  <2>1. i \notin 1 .. n
        BY <1>2, <1>7
  <2> QED BY <1>2, <1>6, <2>1
<1>9. c[n + 1] \in Marks
      BY <1>2, <1>3, <1>6, <1>8
<1>10. n + 1 \in 1 .. i - 1 /\ n + 1 \in 1 .. Len(u)
  <2>1. n + 1 # i
        BY <1>7, <1>9
  <2> QED BY <1>2, <1>3, <1>6, <1>8, <2>1
<1>11. c[n + 1] \in Alphanumeric
       BY <1>3, <1>5, <1>10
<1> QED BY <1>9, <1>11, CharactersApart

(* Appending a piece to the text of a path.                                  *)
LEMMA SpellsMore ==
    ASSUME NEW t \in Text, NEW ps \in Seq(Piece), Spells(t, ps), NEW p \in Piece
    PROVE  LET w == Spelled(p, ps = <<>>)
           IN  t \o w \in Text /\ Spells(t \o w, Append(ps, p))
<1> DEFINE w == Spelled(p, ps = <<>>)
           c == t \o w
           qs == Append(ps, p)
<1>1. PICK at : SpellsAt(t, ps, at)
      BY DEF Spells
<1>2. (ps = <<>>) \in BOOLEAN
      OBVIOUS
<1>3. w \in Text
      BY <1>2, SpelledOf
<1>4. Len(ps) \in Nat /\ Len(t) \in Nat /\ Len(w) \in Nat /\ (ps = <<>>) = (Len(ps) + 1 = 1)
  <2> HIDE DEF w
  <2> QED BY <1>3 DEF Text
<1>5. /\ Len(qs) = Len(ps) + 1 /\ qs[Len(ps) + 1] = p
      /\ \A i \in 1 .. Len(ps) : qs[i] = ps[i]
      OBVIOUS
<1>6. /\ WordAt(qs, Len(ps) + 1) = w
      /\ \A i \in 1 .. Len(ps) : WordAt(qs, i) = WordAt(ps, i)
  <2>1. WordAt(qs, Len(ps) + 1) = Spelled(p, Len(ps) + 1 = 1)
        BY <1>5 DEF WordAt
  <2>2. WordAt(qs, Len(ps) + 1) = w
        BY <1>4, <2>1
  <2> HIDE DEF w, qs
  <2>3. \A i \in 1 .. Len(ps) : WordAt(qs, i) = WordAt(ps, i)
        BY <1>5 DEF WordAt
  <2> QED BY <2>2, <2>3
<1> HIDE DEF w, qs
<1>7. c \in Text /\ IsConcat(c, t, w)
      BY <1>3, ConcatText
<1> HIDE DEF c
<1>8. Len(c) = Len(t) + Len(w)
      BY <1>7 DEF IsConcat
<1> DEFINE bt == [i \in 1 .. Len(qs) + 1 |->
                     IF i = Len(ps) + 2 THEN Len(c) ELSE at[i]]
<1>9. at \in [1 .. Len(ps) + 1 -> Nat] /\ at[1] = 0 /\ at[Len(ps) + 1] = Len(t)
      BY <1>1 DEF SpellsAt
<1>10. /\ bt \in [1 .. Len(qs) + 1 -> Nat]
       /\ bt[Len(qs) + 1] = Len(c)
       /\ \A i \in 1 .. Len(ps) + 1 : bt[i] = at[i]
  <2>1. ASSUME NEW i \in 1 .. Len(qs) + 1
        PROVE  (IF i = Len(ps) + 2 THEN Len(c) ELSE at[i]) \in Nat
    <3>1. i = Len(ps) + 2 \/ i \in 1 .. Len(ps) + 1
          BY <1>4, <1>5
    <3> QED BY <1>4, <1>8, <1>9, <3>1
  <2>2. Len(qs) + 1 \in 1 .. Len(qs) + 1 /\ Len(qs) + 1 = Len(ps) + 2
        BY <1>4, <1>5
  <2>3. \A i \in 1 .. Len(ps) + 1 : i \in 1 .. Len(qs) + 1 /\ i # Len(ps) + 2
        BY <1>4, <1>5
  <2> QED BY <2>1, <2>2, <2>3
<1> HIDE DEF bt
<1>11. bt[1] = 0
       BY <1>4, <1>9, <1>10
<1>12. ASSUME NEW i \in 1 .. Len(ps)
       PROVE  /\ bt[i + 1] = bt[i] + Len(WordAt(qs, i))
              /\ bt[i + 1] <= Len(c)
              /\ \A k \in 1 .. Len(WordAt(qs, i)) : c[bt[i] + k] = WordAt(qs, i)[k]
  <2> DEFINE v == WordAt(ps, i)
  <2>1. v = WordAt(qs, i) /\ bt[i] = at[i] /\ bt[i + 1] = at[i + 1] /\ at[i] \in Nat
    <3>1. i \in 1 .. Len(ps) + 1 /\ i + 1 \in 1 .. Len(ps) + 1
          BY <1>4
    <3> QED BY <1>6, <1>9, <1>10, <3>1
  <2>2. /\ at[i + 1] = at[i] + Len(v) /\ at[i + 1] <= Len(t)
        /\ \A k \in 1 .. Len(v) : t[at[i] + k] = v[k]
        BY <1>1 DEF SpellsAt
  <2>3. Len(v) \in Nat
    <3>1. (i = 1) \in BOOLEAN /\ ps[i] \in Piece
          OBVIOUS
    <3>2. v \in Text
          BY <3>1, SpelledOf DEF WordAt
    <3> HIDE DEF v
    <3> QED BY <3>2 DEF Text
  <2> HIDE DEF v
  <2>4. bt[i + 1] <= Len(c)
        BY <1>4, <1>8, <2>1, <2>2, <2>3
  <2>5. ASSUME NEW k \in 1 .. Len(v) PROVE c[at[i] + k] = v[k]
    <3>1. at[i] + k \in 1 .. Len(t)
          BY <1>4, <2>1, <2>2, <2>3
    <3> QED BY <1>7, <2>2, <3>1 DEF IsConcat
  <2> QED BY <2>1, <2>2, <2>4, <2>5
<1>13. ASSUME NEW i \in 1 .. Len(qs), i = Len(ps) + 1
       PROVE  /\ bt[i + 1] = bt[i] + Len(WordAt(qs, i))
              /\ bt[i + 1] <= Len(c)
              /\ \A k \in 1 .. Len(WordAt(qs, i)) : c[bt[i] + k] = WordAt(qs, i)[k]
  <2>1. WordAt(qs, i) = w /\ bt[i] = Len(t) /\ bt[i + 1] = Len(c)
    <3>1. i \in 1 .. Len(ps) + 1 /\ i + 1 = Len(qs) + 1
          BY <1>4, <1>5, <1>13
    <3> QED BY <1>6, <1>9, <1>10, <1>13, <3>1
  <2>2. Len(c) <= Len(c) /\ \A k \in 1 .. Len(w) : c[Len(t) + k] = w[k]
        BY <1>4, <1>7, <1>8 DEF IsConcat
  <2> QED BY <1>8, <2>1, <2>2
<1>14. \A i \in 1 .. Len(qs) :
           /\ bt[i + 1] = bt[i] + Len(WordAt(qs, i))
           /\ bt[i + 1] <= Len(c)
           /\ \A k \in 1 .. Len(WordAt(qs, i)) : c[bt[i] + k] = WordAt(qs, i)[k]
  <2>1. \A i \in 1 .. Len(qs) : i \in 1 .. Len(ps) \/ i = Len(ps) + 1
        BY <1>4, <1>5
  <2> QED BY <1>12, <1>13, <2>1
<1>15. SpellsAt(c, qs, bt)
       BY <1>10, <1>11, <1>14 DEF SpellsAt
<1> QED BY <1>7, <1>15 DEF Spells, c, qs, w

-----------------------------------------------------------------------------
(* The states.                                                               *)
KeysSpelled ==
    \A s \in Side : \E t \in Text :
        /\ Spells(t, path[s])
        /\ key[s] = IF user[s] = NoUser THEN t ELSE user[s] \o t

KeyInv == TypeOK /\ KeysSpelled

LEMMA WriteTyped ==
    ASSUME TypeOK, NEW s \in Side, NEW p \in Piece, Write(s, p),
           path[s] = <<>> => p.is = "field"
    PROVE  TypeOK'
<1> DEFINE w == Spelled(p, path[s] = <<>>)
<1>1. /\ path \in [Side -> Seq(Piece)] /\ user \in [Side -> Users \cup {NoUser}]
      /\ key \in [Side -> Text]
      BY DEF TypeOK
<1>2. /\ path' = [path EXCEPT ![s] = Append(@, p)]
      /\ key' = [key EXCEPT ![s] = @ \o w]
      /\ user' = user
      BY DEF Write
<1>3. w \in Text
  <2>1. (path[s] = <<>>) \in BOOLEAN
        OBVIOUS
  <2> QED BY <2>1, SpelledOf
<1> HIDE DEF w
<1>4. key[s] \o w \in Text
      BY <1>1, <1>3, ConcatText
<1>5. key' \in [Side -> Text]
      BY <1>1, <1>2, <1>4
<1>6. Append(path[s], p) \in Seq(Piece) /\ Append(path[s], p) # <<>>
      BY <1>1
<1>7. path' \in [Side -> Seq(Piece)]
      BY <1>1, <1>2, <1>6
<1>8. Append(path[s], p)[1].is = "field"
  <2>1. CASE path[s] = <<>>
    <3>1. Append(path[s], p)[1] = p
          BY <1>1, <2>1
    <3> QED BY <2>1, <3>1
  <2>2. CASE path[s] # <<>>
    <3>1. path[s] \in Seq(Piece) /\ path[s][1].is = "field"
          BY <1>1, <2>2 DEF TypeOK
    <3>2. Append(path[s], p)[1] = path[s][1]
          BY <2>2, <3>1
    <3> QED BY <3>1, <3>2
  <2> QED BY <2>1, <2>2
<1>9. ASSUME NEW r \in Side, path'[r] # <<>> PROVE path'[r][1].is = "field"
  <2>1. CASE r = s
        BY <1>1, <1>2, <1>8, <2>1
  <2>2. CASE r # s
        BY <1>1, <1>2, <1>9, <2>2 DEF TypeOK
  <2> QED BY <2>1, <2>2
<1> QED BY <1>1, <1>2, <1>5, <1>7, <1>9 DEF TypeOK

LEMMA WriteSpells ==
    ASSUME KeyInv, NEW s \in Side, NEW p \in Piece, Write(s, p)
    PROVE  KeysSpelled'
<1> DEFINE w == Spelled(p, path[s] = <<>>)
<1>1. path \in [Side -> Seq(Piece)] /\ key \in [Side -> Text]
      BY DEF KeyInv, TypeOK
<1>2. /\ path' = [path EXCEPT ![s] = Append(@, p)]
      /\ key' = [key EXCEPT ![s] = @ \o w]
      /\ user' = user /\ user[s] = NoUser
      BY DEF Write
<1> SUFFICES ASSUME NEW r \in Side
             PROVE  \E t \in Text :
                        /\ Spells(t, path'[r])
                        /\ key'[r] = IF user'[r] = NoUser THEN t ELSE user'[r] \o t
    BY DEF KeysSpelled, Spells, SpellsAt
<1>3. PICK t \in Text : /\ Spells(t, path[r])
                        /\ key[r] = IF user[r] = NoUser THEN t ELSE user[r] \o t
      BY DEF KeyInv, KeysSpelled
<1>4. CASE r # s
  <2>1. path'[r] = path[r] /\ key'[r] = key[r] /\ user'[r] = user[r]
        BY <1>1, <1>2, <1>4
  <2> QED BY <1>3, <2>1
<1>5. CASE r = s
  <2>1. key[s] = t /\ path[s] \in Seq(Piece) /\ Spells(t, path[s])
        BY <1>1, <1>2, <1>3, <1>5
  <2>2. t \o w \in Text /\ Spells(t \o w, Append(path[s], p))
        BY <2>1, SpellsMore
  <2> HIDE DEF w
  <2>3. path'[s] = Append(path[s], p) /\ key'[s] = t \o w /\ user'[s] = NoUser
        BY <1>1, <1>2, <2>1
  <2> QED BY <1>5, <2>2, <2>3
<1> QED BY <1>4, <1>5

LEMMA MakePrivateKeeps ==
    ASSUME KeyInv, NEW s \in Side, NEW u \in Users, MakePrivate(s, u)
    PROVE  KeyInv'
<1>1. /\ path \in [Side -> Seq(Piece)] /\ user \in [Side -> Users \cup {NoUser}]
      /\ key \in [Side -> Text]
      BY DEF KeyInv, TypeOK
<1>2. /\ path' = path /\ user' = [user EXCEPT ![s] = u]
      /\ key' = [key EXCEPT ![s] = u \o @] /\ user[s] = NoUser
      BY DEF MakePrivate
<1>3. u \in Text /\ u # NoUser
      BY PartsAreText
<1>4. TypeOK'
  <2>1. u \o key[s] \in Text
        BY <1>1, <1>3, ConcatText
  <2>2. key' \in [Side -> Text] /\ user' \in [Side -> Users \cup {NoUser}]
        BY <1>1, <1>2, <2>1
  <2> QED BY <1>2, <2>2 DEF KeyInv, TypeOK
<1>5. KeysSpelled'
  <2> SUFFICES ASSUME NEW r \in Side
               PROVE  \E t \in Text :
                          /\ Spells(t, path'[r])
                          /\ key'[r] = IF user'[r] = NoUser THEN t ELSE user'[r] \o t
      BY DEF KeysSpelled, Spells, SpellsAt
  <2>1. PICK t \in Text : /\ Spells(t, path[r])
                          /\ key[r] = IF user[r] = NoUser THEN t ELSE user[r] \o t
        BY DEF KeyInv, KeysSpelled
  <2>2. CASE r # s
    <3>1. key'[r] = key[r] /\ user'[r] = user[r]
          BY <1>1, <1>2, <2>2
    <3> QED BY <1>2, <2>1, <3>1
  <2>3. CASE r = s
    <3>1. key'[s] = u \o t /\ user'[s] = u
          BY <1>1, <1>2, <2>1, <2>3
    <3> QED BY <1>2, <1>3, <2>1, <2>3, <3>1
  <2> QED BY <2>2, <2>3
<1> QED BY <1>4, <1>5 DEF KeyInv

LEMMA InitSpells == Init => KeyInv
<1> SUFFICES ASSUME Init PROVE KeyInv
    OBVIOUS
<1>1. <<>> \in Text /\ <<>> \in Seq(Piece)
      BY DEF Text
<1>2. TypeOK
      BY <1>1 DEF Init, TypeOK
<1>3. Spells(<<>>, <<>>)
  <2> DEFINE at == [i \in 1 .. 1 |-> 0]
  <2>1. /\ at \in [1 .. Len(<<>>) + 1 -> Nat] /\ at[1] = 0 /\ at[Len(<<>>) + 1] = Len(<<>>)
        /\ 1 .. Len(<<>>) = {}
        OBVIOUS
  <2> HIDE DEF at
  <2>2. SpellsAt(<<>>, <<>>, at)
        BY <2>1 DEF SpellsAt
  <2> QED BY <2>2 DEF Spells
<1>4. KeysSpelled
  <2>1. \A s \in Side : path[s] = <<>> /\ key[s] = <<>> /\ user[s] = NoUser
        BY DEF Init
  <2> QED BY <1>1, <1>3, <2>1 DEF KeysSpelled
<1> QED BY <1>2, <1>4 DEF KeyInv

LEMMA NextSpells == KeyInv /\ [Next]_vars => KeyInv'
<1> SUFFICES ASSUME KeyInv, [Next]_vars PROVE KeyInv'
    OBVIOUS
<1>1. ASSUME NEW s \in Side, NEW n \in FieldNames, AddField(s, n) PROVE KeyInv'
  <2>1. FieldPiece(n) \in Piece /\ FieldPiece(n).is = "field"
        BY DEF Piece, FieldPiece
  <2> QED BY <1>1, <2>1, WriteTyped, WriteSpells DEF AddField, KeyInv
<1>2. ASSUME NEW s \in Side, NEW n \in ArgumentNames, NEW v \in Values, AddArgument(s, n, v)
      PROVE  KeyInv'
  <2>1. ArgumentPiece(n, v) \in Piece
        BY DEF Piece
  <2>2. path[s] # <<>> /\ Write(s, ArgumentPiece(n, v))
        BY <1>2 DEF AddArgument
  <2> QED BY <2>1, <2>2, WriteTyped, WriteSpells DEF KeyInv
<1>3. ASSUME NEW s \in Side, NEW u \in Users, MakePrivate(s, u) PROVE KeyInv'
      BY <1>3, MakePrivateKeeps
<1>4. ASSUME UNCHANGED vars PROVE KeyInv'
  <2>1. path' = path /\ user' = user /\ key' = key
        BY <1>4 DEF vars
  <2>2. TypeOK'
        BY <2>1 DEF KeyInv, TypeOK
  <2>3. KeysSpelled'
        BY <2>1 DEF KeyInv, KeysSpelled, Spells, SpellsAt
  <2> QED BY <2>2, <2>3 DEF KeyInv
<1> QED BY <1>1, <1>2, <1>3, <1>4 DEF Next, Terminated

LEMMA TellApart == KeyInv => KeysTellApart
<1> SUFFICES ASSUME KeyInv, Comparable, key["stored"] = key["read"]
             PROVE  path["stored"] = path["read"] /\ user["stored"] = user["read"]
    BY DEF KeysTellApart
<1> DEFINE ps == path["stored"]
           qs == path["read"]
           u == user["stored"]
           v == user["read"]
           c == key["stored"]
<1>1. c \in Text /\ u \in Users \cup {NoUser} /\ v \in Users \cup {NoUser}
      BY DEF KeyInv, TypeOK, Side
<1>2. LegiblePath(ps) /\ LegiblePath(qs)
      BY DEF KeyInv, TypeOK, Comparable, LegiblePath, Side
<1>3. ArgumentsApart(ps, qs) /\ UsersApart(u, v)
      BY DEF Comparable
<1>4. PICK s \in Text : Spells(s, ps) /\ c = IF u = NoUser THEN s ELSE u \o s
      BY DEF KeyInv, KeysSpelled, Side
<1>5. PICK t \in Text : Spells(t, qs) /\ c = IF v = NoUser THEN t ELSE v \o t
      BY DEF KeyInv, KeysSpelled, Side
<1>6. \A w \in Users : w \in Text
      BY PartsAreText
<1> HIDE DEF ps, qs, u, v, c
<1>7. ASSUME u # NoUser PROVE u \in Text /\ LegibleUser(u) /\ IsConcat(c, u, s)
      BY <1>1, <1>3, <1>4, <1>6, <1>7, ConcatText DEF UsersApart
<1>8. ASSUME v # NoUser PROVE v \in Text /\ LegibleUser(v) /\ IsConcat(c, v, t)
      BY <1>1, <1>3, <1>5, <1>6, <1>8, ConcatText DEF UsersApart
<1>9. u = v /\ s = t
  <2>1. CASE u = NoUser /\ v = NoUser
        BY <1>4, <1>5, <2>1
  <2>2. CASE u # NoUser /\ v # NoUser
    <3>1. ~OneBeginsOther(u, v)
          BY <1>3, <2>2 DEF UsersApart
    <3> QED BY <1>7, <1>8, <2>2, <3>1, SplitsAlike
  <2>3. CASE u # NoUser /\ v = NoUser
    <3>1. Spells(c, qs)
          BY <1>5, <2>3
    <3> QED BY <1>1, <1>2, <1>7, <2>3, <3>1, UserIsSeen
  <2>4. CASE u = NoUser /\ v # NoUser
    <3>1. Spells(c, ps)
          BY <1>4, <2>4
    <3> QED BY <1>1, <1>2, <1>8, <2>4, <3>1, UserIsSeen
  <2> QED BY <2>1, <2>2, <2>3, <2>4
<1>10. ps = qs
       BY <1>2, <1>3, <1>4, <1>5, <1>9, SpellsOnce
<1> QED BY <1>9, <1>10 DEF ps, qs, u, v

LEMMA KeyInvariant == Spec => []KeyInv
<1>1. Init => KeyInv
      BY InitSpells
<1>2. KeyInv /\ [Next]_vars => KeyInv'
      BY NextSpells
<1> QED BY <1>1, <1>2, PTL DEF Spec

(* Whatever the names, values and users: the keys that are written are text, *)
(* and a path begins with a field, never with an argument                    *)
(* (cache_handler.rs, 449-491).                                              *)
THEOREM KeyTextTyped == Spec => []TypeOK
<1>1. KeyInv => TypeOK
      BY DEF KeyInv
<1> QED BY <1>1, KeyInvariant, PTL

(* Whatever the names, values and users: the same key is written for the     *)
(* same fields, arguments and user only, as long as the names, values and    *)
(* users are legible (cache_handler.rs, 133-135 and 449-491).                *)
THEOREM LegibleKeysTellApart == Spec => []KeysTellApart
<1>1. KeyInv => KeysTellApart
      BY TellApart
<1> QED BY <1>1, KeyInvariant, PTL
=============================================================================

-------------------------- MODULE GranularityProofs --------------------------
(* CacheHints gives every leaf the directive of its nearest hint, for any    *)
(* response and any hints, unless a hint lies below a merged one.            *)
EXTENDS CacheHintsProofs

-----------------------------------------------------------------------------
(* The order the hints are visited in.                                       *)
LEMMA PrefixesOfOneCompare ==
    ASSUME NEW s \in Seq(Nat), NEW t \in Seq(Nat), NEW u \in Seq(Nat),
           IsPrefix(s, u), IsPrefix(t, u)
    PROVE  IsPrefix(s, t) \/ IsPrefix(t, s)
<1>1. \A i \in 1 .. Len(s) : s[i] = u[i]
      BY PrefixIsPointwise
<1>2. \A i \in 1 .. Len(t) : t[i] = u[i]
      BY PrefixIsPointwise
<1>3. CASE Len(s) <= Len(t)
  <2>1. \A i \in 1 .. Len(s) : s[i] = t[i]
        BY <1>1, <1>2, <1>3
  <2> QED BY <1>3, <2>1, PrefixIsPointwise
<1>4. CASE Len(t) <= Len(s)
  <2>1. \A i \in 1 .. Len(t) : t[i] = s[i]
        BY <1>1, <1>2, <1>4
  <2> QED BY <1>4, <2>1, PrefixIsPointwise
<1> QED BY <1>3, <1>4

LEMMA PrefixesOfEachOther ==
    ASSUME NEW s \in Seq(Nat), NEW t \in Seq(Nat), IsPrefix(s, t), IsPrefix(t, s)
    PROVE  s = t
<1>1. Len(s) = Len(t) /\ \A i \in 1 .. Len(s) : s[i] = t[i]
      BY PrefixIsPointwise
<1> QED BY <1>1, SeqEqual

LEMMA BeforeIsNotBelow ==
    ASSUME NEW s \in Seq(Nat), NEW t \in Seq(Nat), Before(s, t)
    PROVE  ~IsPrefix(t, s)
<1> SUFFICES ASSUME IsPrefix(t, s) PROVE FALSE
    OBVIOUS
<1>1. Len(t) <= Len(s) /\ \A i \in 1 .. Len(t) : t[i] = s[i]
      BY PrefixIsPointwise
<1>2. CASE IsStrictPrefix(s, t)
      BY <1>2, PrefixesOfEachOther DEF IsStrictPrefix
<1>3. CASE \E i \in DOMAIN s \cap DOMAIN t : s[i] < t[i]
      BY <1>1, <1>3
<1> QED BY <1>2, <1>3 DEF Before

(* What is visited between a path and one below it is below it too.          *)
LEMMA BelowIsContiguous ==
    ASSUME NEW s \in Seq(Nat), NEW t \in Seq(Nat), NEW u \in Seq(Nat),
           Before(s, t), Before(t, u), IsPrefix(s, u)
    PROVE  IsPrefix(s, t)
<1>1. Len(s) <= Len(u) /\ \A i \in 1 .. Len(s) : s[i] = u[i]
      BY PrefixIsPointwise
<1>2. CASE IsStrictPrefix(s, t)
      BY <1>2 DEF IsStrictPrefix
<1>3. ASSUME NEW i \in DOMAIN s \cap DOMAIN t,
             s[i] < t[i], \A k \in 1 .. i - 1 : s[k] = t[k]
      PROVE  FALSE
  <2>1. /\ i \in 1 .. Len(s) /\ i \in 1 .. Len(t)
        /\ s[i] \in Nat /\ t[i] \in Nat /\ s[i] = u[i]
    <3>1. i \in 1 .. Len(s) /\ i \in 1 .. Len(t)
          OBVIOUS
    <3>2. s[i] \in Nat /\ t[i] \in Nat
          BY <3>1
    <3>3. s[i] = u[i]
          BY <1>1, <3>1
    <3> QED BY <3>1, <3>2, <3>3
  <2>2. CASE IsStrictPrefix(t, u)
    <3>1. t[i] = u[i]
          BY <2>1, <2>2, PrefixIsPointwise DEF IsStrictPrefix
    <3> QED BY <1>3, <2>1, <3>1
  <2>3. ASSUME NEW j \in DOMAIN t \cap DOMAIN u,
               t[j] < u[j], \A k \in 1 .. j - 1 : t[k] = u[k]
        PROVE  FALSE
    <3>1. /\ j \in 1 .. Len(t) /\ j \in 1 .. Len(u)
          /\ t[j] \in Nat /\ u[j] \in Nat /\ i \in Nat /\ j \in Nat
          BY <2>1
    <3>2. CASE i < j
      <4>1. t[i] = u[i]
        <5>1. i \in 1 .. j - 1
              BY <2>1, <3>1, <3>2
        <5> QED BY <2>3, <5>1
      <4> QED BY <1>3, <2>1, <4>1
    <3>3. CASE j < i
      <4>1. s[j] = t[j] /\ s[j] = u[j]
        <5>1. j \in 1 .. i - 1 /\ j \in 1 .. Len(s)
              BY <2>1, <3>1, <3>3
        <5> QED BY <1>1, <1>3, <5>1
      <4> QED BY <2>3, <3>1, <4>1
    <3>4. CASE i = j
          BY <1>3, <2>1, <2>3, <3>1, <3>4
    <3> QED BY <2>1, <3>1, <3>2, <3>3, <3>4
  <2> QED BY <2>2, <2>3 DEF Before
<1> QED BY <1>2, <1>3 DEF Before

-----------------------------------------------------------------------------
(* What the hints mean: the directive of a path is that of the nearest hint  *)
(* above it, and of a hint what it states or else that of the one above it.  *)
HintsTypedHere == DOMAIN given \subseteq HintPaths /\ DOMAIN given \subseteq Seq(Nat)

LEMMA GivenArePaths == ASSUME TypeOK PROVE HintsTypedHere
BY PathsAreNames DEF TypeOK, HintsTypedHere

LEMMA NearestIs ==
    ASSUME NEW paths, paths \subseteq Seq(Nat), NEW p \in paths,
           \A q \in paths : IsPrefix(q, p)
    PROVE  Nearest(paths) = p
<1> DEFINE n == CHOOSE r \in paths : \A q \in paths : IsPrefix(q, r)
<1>1. n \in paths /\ \A q \in paths : IsPrefix(q, n)
      OBVIOUS
<1> HIDE DEF n
<1>2. IsPrefix(p, n) /\ IsPrefix(n, p) /\ n \in Seq(Nat) /\ p \in Seq(Nat)
      BY <1>1
<1>3. n = p
      BY <1>2, PrefixesOfEachOther
<1> QED BY <1>3 DEF n, Nearest

LEMMA DirectiveFromHinted ==
    ASSUME NEW p, NEW q, Hinted(p) = Hinted(q)
    PROVE  AgeOf(p) = AgeOf(q) /\ ScopeOf(p) = ScopeOf(q)
BY DEF AgeOf, ScopeOf

LEMMA DirectiveOfNearest ==
    ASSUME HintsTypedHere, NEW x \in Seq(Nat), NEW p \in DOMAIN given, IsPrefix(p, x),
           \A q \in DOMAIN given : IsPrefix(q, x) => IsPrefix(q, p)
    PROVE  AgeOf(x) = AgeOf(p) /\ ScopeOf(x) = ScopeOf(p)
<1>1. \A q \in DOMAIN given : IsPrefix(q, p) => IsPrefix(q, x)
      BY PrefixIsTransitive DEF HintsTypedHere
<1>2. Hinted(x) = Hinted(p)
      BY <1>1 DEF Hinted
<1> QED BY <1>2, DirectiveFromHinted

LEMMA HintIsNearest ==
    ASSUME HintsTypedHere, NEW c \in DOMAIN given, NEW paths, paths \subseteq Hinted(c), c \in paths
    PROVE  Nearest(paths) = c
<1>1. paths \subseteq Seq(Nat) /\ \A q \in paths : IsPrefix(q, c)
      BY DEF Hinted, HintsTypedHere
<1> QED BY <1>1, NearestIs

LEMMA PrefixOfItself == ASSUME NEW s \in Seq(Nat) PROVE IsPrefix(s, s)
BY PrefixIsPointwise

(* AgeOf of a hint is the age a visit gives its item.                        *)
LEMMA DirectiveOfHint ==
    ASSUME HintsTypedHere, NEW c \in DOMAIN given, NEW p \in DOMAIN given, IsStrictPrefix(p, c),
           \A q \in DOMAIN given : IsStrictPrefix(q, c) => IsPrefix(q, p)
    PROVE  /\ AgeOf(c) = Or(given[c].age, AgeOf(p))
           /\ ScopeOf(c) = Or(given[c].scope, ScopeOf(p))
<1>1. c \in Seq(Nat) /\ p \in Seq(Nat) /\ IsPrefix(c, c)
      BY PrefixOfItself DEF HintsTypedHere
<1>2. Hinted(c) = Hinted(p) \cup {c}
  <2>1. \A q \in DOMAIN given : IsPrefix(q, p) => IsPrefix(q, c)
        BY <1>1, PrefixIsTransitive DEF HintsTypedHere, IsStrictPrefix
  <2> QED BY <1>1, <2>1 DEF Hinted, IsStrictPrefix
<1>3. c \in Hinted(c)
      BY <1>1 DEF Hinted
<1>4. AgeOf(c) = Or(given[c].age, AgeOf(p))
  <2> DEFINE stated(x) == {q \in Hinted(x) : given[q].age # None}
  <2>1. CASE given[c].age = None
    <3>1. stated(c) = stated(p)
          BY <1>2, <2>1
    <3>2. AgeOf(c) = AgeOf(p)
          BY <3>1 DEF AgeOf
    <3> QED BY <2>1, <3>2 DEF Or
  <2>2. CASE given[c].age # None
    <3>1. c \in stated(c) /\ stated(c) \subseteq Hinted(c)
          BY <1>3, <2>2
    <3>2. Nearest(stated(c)) = c
          BY <3>1, HintIsNearest
    <3> QED BY <2>2, <3>1, <3>2 DEF AgeOf, Or
  <2> QED BY <2>1, <2>2
<1>5. ScopeOf(c) = Or(given[c].scope, ScopeOf(p))
  <2> DEFINE stated(x) == {q \in Hinted(x) : given[q].scope # None}
  <2>1. CASE given[c].scope = None
    <3>1. stated(c) = stated(p)
          BY <1>2, <2>1
    <3>2. ScopeOf(c) = ScopeOf(p)
          BY <3>1 DEF ScopeOf
    <3> QED BY <2>1, <3>2 DEF Or
  <2>2. CASE given[c].scope # None
    <3>1. c \in stated(c) /\ stated(c) \subseteq Hinted(c)
          BY <1>3, <2>2
    <3>2. Nearest(stated(c)) = c
          BY <3>1, HintIsNearest
    <3> QED BY <2>2, <3>1, <3>2 DEF ScopeOf, Or
  <2> QED BY <2>1, <2>2
<1> QED BY <1>4, <1>5

LEMMA DirectiveOfOutermost ==
    ASSUME HintsTypedHere, NEW c \in DOMAIN given,
           \A q \in DOMAIN given : ~IsStrictPrefix(q, c)
    PROVE  /\ AgeOf(c) = Or(given[c].age, 0)
           /\ ScopeOf(c) = Or(given[c].scope, "PUBLIC")
<1>1. c \in Seq(Nat) /\ IsPrefix(c, c)
      BY PrefixOfItself DEF HintsTypedHere
<1>2. Hinted(c) = {c}
      BY <1>1 DEF Hinted, IsStrictPrefix
<1>3. AgeOf(c) = Or(given[c].age, 0)
  <2> DEFINE stated == {q \in Hinted(c) : given[q].age # None}
  <2>1. CASE given[c].age = None
    <3>1. stated = {}
          BY <1>2, <2>1
    <3> QED BY <2>1, <3>1 DEF AgeOf, Or
  <2>2. CASE given[c].age # None
    <3>1. c \in stated /\ stated \subseteq Hinted(c)
          BY <1>2, <2>2
    <3>2. Nearest(stated) = c
          BY <3>1, HintIsNearest
    <3> QED BY <2>2, <3>1, <3>2 DEF AgeOf, Or
  <2> QED BY <2>1, <2>2
<1>4. ScopeOf(c) = Or(given[c].scope, "PUBLIC")
  <2> DEFINE stated == {q \in Hinted(c) : given[q].scope # None}
  <2>1. CASE given[c].scope = None
    <3>1. stated = {}
          BY <1>2, <2>1
    <3> QED BY <2>1, <3>1 DEF ScopeOf, Or
  <2>2. CASE given[c].scope # None
    <3>1. c \in stated /\ stated \subseteq Hinted(c)
          BY <1>2, <2>2
    <3>2. Nearest(stated) = c
          BY <3>1, HintIsNearest
    <3> QED BY <2>2, <3>1, <3>2 DEF ScopeOf, Or
  <2> QED BY <2>1, <2>2
<1> QED BY <1>3, <1>4

-----------------------------------------------------------------------------
(* What a visit does to the directives of the stack.                         *)
LEMMA KeptDirectives ==
    ASSUME TypeOK, StackIsChain, NEW path
    PROVE  /\ \A j \in 1 .. Len(Kept(path)) :
                  Kept(path)[j].age = stack[j].age /\ Kept(path)[j].scope = stack[j].scope
           /\ Len(Kept(path)) = Enclosing(path) /\ Enclosing(path) # 0 =>
                  Kept(path)[Enclosing(path)].value =
                      Without(stack[Enclosing(path)].value, path)
           /\ \A j \in 1 .. Len(Kept(path)) :
                  j # Enclosing(path) => Kept(path)[j] = stack[j]
<1> DEFINE i == Enclosing(path)
           front == SubSeq(stack, 1, i - 1)
           last == [stack[i] EXCEPT !.value = Without(@, path)]
<1>1. stack \in Seq(Item) /\ Len(stack) \in Nat /\ i \in 0 .. Len(stack)
      BY EnclosingIsLast DEF TypeOK
<1>2. CASE i = 0
      BY <1>2 DEF Kept
<1>3. CASE i # 0
  <2>1. i \in 1 .. Len(stack)
        BY <1>1, <1>3
  <2>2. front \in Seq(Item) /\ Len(front) = i - 1 /\ \A j \in 1 .. i - 1 : front[j] = stack[j]
        BY <1>1, <2>1, SubSeqProperties
  <2>3. CASE stack[i].marker
    <3>1. Kept(path) = front
          BY <1>3, <2>3 DEF Kept
    <3> HIDE DEF front
    <3>2. Len(Kept(path)) = i - 1 /\ \A j \in 1 .. i - 1 : Kept(path)[j] = stack[j]
          BY <2>2, <3>1
    <3> QED BY <2>1, <3>2
  <2>4. CASE ~stack[i].marker
    <3>1. Kept(path) = front \o <<last>>
          BY <1>3, <2>4 DEF Kept
    <3>2. /\ last.age = stack[i].age /\ last.scope = stack[i].scope
          /\ last.value = Without(stack[i].value, path)
      <4>1. stack[i] \in Item
            BY <1>1, <2>1
      <4> QED BY <4>1 DEF Item
    <3> HIDE DEF i, front, last
    <3>3. /\ Len(Kept(path)) = i
          /\ \A j \in 1 .. i - 1 : Kept(path)[j] = front[j]
          /\ Kept(path)[i] = last
          BY <2>1, <2>2, <3>1
    <3>4. \A j \in 1 .. i - 1 : Kept(path)[j] = stack[j]
          BY <2>2, <3>3
    <3>5. \A j \in 1 .. i : j \in 1 .. i - 1 \/ j = i
          BY <2>1
    <3> QED BY <2>1, <3>2, <3>3, <3>4, <3>5 DEF i
  <2> QED BY <2>3, <2>4
<1> QED BY <1>2, <1>3

LEMMA AddedDirectives ==
    ASSUME NEW items \in Seq(Item), NEW new \in Item, ~new.marker
    PROVE  LET added == Added(items, new)
               n == Len(items) IN
           /\ \A j \in 1 .. n :
                  /\ added[j].age = items[j].age /\ added[j].scope = items[j].scope
                  /\ \/ added[j].value = items[j].value
                     \/ /\ added[j].value = items[j].value \cup new.value
                        /\ items[j].age = new.age /\ items[j].scope = new.scope
           /\ added[n + 1].age = new.age /\ added[n + 1].scope = new.scope
           /\ added[n + 1].marker => \E j \in 1 .. n :
                  items[j].age = new.age /\ items[j].scope = new.scope
<1> DEFINE I == {j \in DOMAIN items : items[j].age = new.age /\ items[j].scope = new.scope}
           i == Innermost(I)
           n == Len(items)
<1>1. I \subseteq 1 .. n /\ n \in Nat
      OBVIOUS
<1>2. i \in I \cup {0} /\ i \in 0 .. n
      BY <1>1, InnermostIsLast
<1>3. CASE i = 0
  <2>1. Added(items, new) = Append(items, new)
        BY <1>3 DEF Added
  <2>2. /\ \A j \in 1 .. n : Added(items, new)[j] = items[j]
        /\ Added(items, new)[n + 1] = new
        BY <2>1
  <2> QED BY <2>2
<1>4. CASE i # 0
  <2> DEFINE merged == [items[i] EXCEPT !.value = items[i].value \cup new.value, !.marker = FALSE]
             others == [items EXCEPT ![i] = merged]
             marker == [new EXCEPT !.value = {}, !.marker = TRUE]
  <2>1. items[i] \in Item /\ i \in 1 .. n
        BY <1>2, <1>4
  <2>2. items[i].age = new.age /\ items[i].scope = new.scope
        BY <1>2, <1>4
  <2>3. /\ merged \in Item /\ merged.value = items[i].value \cup new.value
        /\ merged.age = items[i].age /\ merged.scope = items[i].scope
    <3>1. items[i].value \cup new.value \in SUBSET Data
          BY <2>1, ItemFields
    <3> QED BY <2>1, <3>1 DEF Item
  <2>4. marker \in Item /\ marker.age = new.age /\ marker.scope = new.scope
        BY DEF Item
  <2>5. Added(items, new) = Append(others, marker)
    <3>1. [items EXCEPT ![i].value = @ \cup new.value, ![i].marker = FALSE] = others
          BY <2>1 DEF Item
    <3> QED BY <1>4, <3>1 DEF Added
  <2> HIDE DEF merged, marker, i
  <2>6. /\ others \in Seq(Item) /\ Len(others) = n
        /\ others[i] = merged
        /\ \A j \in 1 .. n : j # i => others[j] = items[j]
        BY <2>1, <2>3
  <2> HIDE DEF others
  <2>7. /\ \A j \in 1 .. n : Added(items, new)[j] = others[j]
        /\ Added(items, new)[n + 1] = marker
        BY <2>4, <2>5, <2>6
  <2>8. ASSUME NEW j \in 1 .. n
        PROVE  /\ others[j].age = items[j].age /\ others[j].scope = items[j].scope
               /\ \/ others[j].value = items[j].value
                  \/ /\ others[j].value = items[j].value \cup new.value
                     /\ items[j].age = new.age /\ items[j].scope = new.scope
    <3>1. CASE j = i
          BY <3>1, <2>2, <2>3, <2>6
    <3>2. CASE j # i
          BY <3>2, <2>6
    <3> QED BY <3>1, <3>2
  <2> QED BY <2>1, <2>2, <2>4, <2>7, <2>8
<1> QED BY <1>3, <1>4

HintAge(path) ==
    Or(given[path].age, IF Enclosing(path) = 0 THEN 0 ELSE stack[Enclosing(path)].age)
HintScope(path) ==
    Or(given[path].scope, IF Enclosing(path) = 0 THEN "PUBLIC" ELSE stack[Enclosing(path)].scope)

KeptValue(j, path) ==
    IF j = Enclosing(path) THEN Without(stack[j].value, path) ELSE stack[j].value

StackVisited(path, n, value) ==
    /\ \A j \in 1 .. n :
           /\ stack'[j].path = stack[j].path
           /\ stack'[j].age = stack[j].age /\ stack'[j].scope = stack[j].scope
           /\ \/ stack'[j].value = KeptValue(j, path)
              \/ /\ stack'[j].value = KeptValue(j, path) \cup value
                 /\ stack[j].age = HintAge(path) /\ stack[j].scope = HintScope(path)
    /\ value = {} => Len(stack') = n
    /\ value # {} =>
           /\ Len(stack') = n + 1
           /\ stack'[n + 1].path = path
           /\ stack'[n + 1].age = HintAge(path) /\ stack'[n + 1].scope = HintScope(path)
           /\ stack'[n + 1].marker => \E j \in 1 .. n :
                 stack[j].age = HintAge(path) /\ stack[j].scope = HintScope(path)

LEMMA VisitDirectives ==
    ASSUME TypeOK, StackIsChain, NEW path \in HintPaths, ProcessHint(path),
           NEW n, n = Len(Kept(path)), NEW value, value = Under(Data, path)
    PROVE  StackVisited(path, n, value)
<1> USE DEF StackVisited
<1> DEFINE kept == Kept(path)
           i == Enclosing(path)
           new == [path |-> path, value |-> value, marker |-> FALSE,
                   age |-> HintAge(path), scope |-> HintScope(path)]
<1>1. i \in 0 .. Len(stack) /\ stack \in Seq(Item) /\ Len(stack) \in Nat
      BY EnclosingIsLast DEF TypeOK
<1>2. path \in hints /\ path \in DOMAIN given /\ given[path] \in Directive
      BY DEF ProcessHint, IsFirst, TypeOK
<1>3. i # 0 => stack[i] \in Item
      BY <1>1
<1>4. HintAge(path) \in Ages \cup {0}
  <2>1. given[path].age \in Ages \cup {None}
        BY <1>2 DEF Directive
  <2>2. (IF i = 0 THEN 0 ELSE stack[i].age) \in Ages \cup {0}
        BY <1>3, ItemFields
  <2> QED BY <2>1, <2>2, OptionTyped DEF HintAge
<1>5. HintScope(path) \in Scopes \cup {"PUBLIC"}
  <2>1. given[path].scope \in Scopes \cup {None}
        BY <1>2 DEF Directive
  <2>2. (IF i = 0 THEN "PUBLIC" ELSE stack[i].scope) \in Scopes \cup {"PUBLIC"}
        BY <1>3, ItemFields
  <2> QED BY <2>1, <2>2, OptionTyped DEF HintScope
<1>6. stack' = IF value = {} THEN kept ELSE Added(kept, new)
      BY DEF ProcessHint, HintAge, HintScope
<1>7. value \in SUBSET Data
      BY DEF Under
<1>8. new \in Item /\ new.path = path /\ new.value = value /\ ~new.marker
      /\ new.age = HintAge(path) /\ new.scope = HintScope(path)
      BY <1>4, <1>5, <1>7 DEF Item
<1>9. /\ kept \in Seq(Item)
      /\ Len(kept) <= i
      /\ \A j \in 1 .. Len(kept) : StillThere(stack[j], kept[j], path)
      BY KeptStack
<1>10. \A j \in 1 .. Len(kept) :
           /\ kept[j].path = stack[j].path
           /\ kept[j].age = stack[j].age /\ kept[j].scope = stack[j].scope
           /\ kept[j].value = KeptValue(j, path)
  <2> SUFFICES ASSUME NEW j \in 1 .. Len(kept)
               PROVE  /\ kept[j].path = stack[j].path
                      /\ kept[j].age = stack[j].age /\ kept[j].scope = stack[j].scope
                      /\ kept[j].value = KeptValue(j, path)
      OBVIOUS
  <2>1. kept[j].age = stack[j].age /\ kept[j].scope = stack[j].scope
        BY KeptDirectives
  <2>2. kept[j].path = stack[j].path
        BY <1>9 DEF StillThere
  <2>3. CASE j = i
    <3>1. Len(kept) = i /\ i # 0
          BY <1>1, <1>9, <2>3
    <3>2. kept[i].value = Without(stack[i].value, path)
          BY <3>1, KeptDirectives
    <3> QED BY <2>1, <2>2, <2>3, <3>2 DEF KeptValue
  <2>4. CASE j # i
    <3>1. kept[j] = stack[j]
          BY <2>4, KeptDirectives
    <3> QED BY <2>4, <3>1 DEF KeptValue
  <2> QED BY <2>3, <2>4
<1> HIDE DEF new, kept, i
<1>11. n = Len(kept) /\ n \in Nat
      BY <1>9 DEF kept
<1>12. CASE value = {}
  <2>1. stack' = kept
        BY <1>6, <1>12
  <2> QED BY <1>10, <1>11, <1>12, <2>1
<1>13. CASE value # {}
  <2> DEFINE added == Added(kept, new)
  <2>1. stack' = added
        BY <1>6, <1>13
  <2>2. kept \in Seq(Item) /\ new \in Item /\ ~new.marker
        BY <1>8, <1>9
  <2>3. /\ Len(added) = n + 1
        /\ \A j \in 1 .. n : added[j].path = kept[j].path
        /\ added[n + 1].path = new.path
        BY <1>11, <2>2, AddedStack
  <2>4. /\ \A j \in 1 .. n :
               /\ added[j].age = kept[j].age /\ added[j].scope = kept[j].scope
               /\ \/ added[j].value = kept[j].value
                  \/ /\ added[j].value = kept[j].value \cup new.value
                     /\ kept[j].age = new.age /\ kept[j].scope = new.scope
        /\ added[n + 1].age = new.age /\ added[n + 1].scope = new.scope
        /\ added[n + 1].marker => \E j \in 1 .. n :
               kept[j].age = new.age /\ kept[j].scope = new.scope
        BY <1>11, <2>2, AddedDirectives
  <2> HIDE DEF added
  <2> QED BY <1>8, <1>10, <1>11, <1>13, <2>1, <2>3, <2>4
<1> QED BY <1>12, <1>13

LEMMA EnclosingIsInnermost ==
    ASSUME TypeOK, NEW path, NEW j \in DOMAIN stack, IsPrefix(stack[j].path, path)
    PROVE  j <= Enclosing(path)
<1> DEFINE I == {i \in DOMAIN stack : IsPrefix(stack[i].path, path)}
<1>1. I \subseteq 1 .. Len(stack) /\ Len(stack) \in Nat /\ j \in I
      BY DEF TypeOK
<1>2. j <= Innermost(I)
      BY <1>1, InnermostIsLast
<1> QED BY <1>2 DEF Enclosing

-----------------------------------------------------------------------------
(* The invariant, of responses in which no hint lies below a merged one.     *)
Seen == DOMAIN given \ hints

(* What has been visited comes before what has not.                          *)
InPathOrder == \A p \in Seen : \A q \in hints : Before(p, q)

(* A hint below which there are hints to visit is still on the stack, and    *)
(* what is handed over has none.                                             *)
Open(p) == \E q \in hints : IsPrefix(p, q)
OpenAreStacked ==
    \A p \in Seen : Under(Data, p) # {} /\ Open(p) => \E j \in DOMAIN stack : stack[j].path = p
CachedAreClosed == \A item \in compressed : ~Open(item.path)

(* Each item of the stack has the directive of its hint, and the hint of a   *)
(* marker that of a hint above it.                                           *)
HasDirectiveOf(item, p) == item.age = AgeOf(p) /\ item.scope = ScopeOf(p)
StackDirected == \A j \in DOMAIN stack : HasDirectiveOf(stack[j], stack[j].path)
MarkersAreMerged ==
    \A j \in DOMAIN stack : stack[j].marker =>
        \E o \in DOMAIN given :
            IsStrictPrefix(o, stack[j].path) /\ SameDirective(o, stack[j].path)

(* A leaf of a value has its nearest visited hint at or below that of the    *)
(* value, with the same directive.                                           *)
IsNearest(p, leaf) ==
    /\ p \in Seen /\ IsPrefix(p, leaf)
    /\ \A q \in Seen : IsPrefix(q, leaf) => IsPrefix(q, p)
Directs(item, leaf) ==
    \E p \in Seen : IsNearest(p, leaf) /\ IsPrefix(item.path, p) /\ HasDirectiveOf(item, p)
StackedAreDirected ==
    \A j \in DOMAIN stack : \A leaf \in stack[j].value : Directs(stack[j], leaf)
CachedAreDirected ==
    \A item \in compressed : \A leaf \in item.value : Directs(item, leaf)

GranularInv ==
    /\ InPathOrder /\ OpenAreStacked /\ CachedAreClosed
    /\ StackDirected /\ MarkersAreMerged /\ StackedAreDirected /\ CachedAreDirected

LEMMA SameHints ==
    ASSUME UNCHANGED given
    PROVE  /\ \A p : AgeOf(p)' = AgeOf(p) /\ ScopeOf(p)' = ScopeOf(p)
           /\ \A p, q : SameDirective(p, q)' = SameDirective(p, q)
           /\ SplitBelowMerge' = SplitBelowMerge
<1>1. \A p : Hinted(p)' = Hinted(p)
      BY DEF Hinted
<1>2. \A p : AgeOf(p)' = AgeOf(p) /\ ScopeOf(p)' = ScopeOf(p)
      BY <1>1 DEF AgeOf, ScopeOf
<1>3. \A p, q : SameDirective(p, q)' = SameDirective(p, q)
      BY <1>2 DEF SameDirective
<1>4. SplitBelowMerge' = SplitBelowMerge
      BY <1>3 DEF SplitBelowMerge
<1> QED BY <1>2, <1>3, <1>4

LEMMA InitGranular == Init => GranularInv
<1> SUFFICES ASSUME Init PROVE GranularInv
    OBVIOUS
<1>1. hints = DOMAIN given /\ stack = <<>> /\ compressed = {}
      BY DEF Init
<1>2. DOMAIN stack = {} /\ Seen = {}
      BY <1>1 DEF Seen
<1> QED BY <1>1, <1>2 DEF GranularInv, InPathOrder, OpenAreStacked, CachedAreClosed,
           StackDirected, MarkersAreMerged, StackedAreDirected, CachedAreDirected

-----------------------------------------------------------------------------
(* The hints above the one that is visited.                                  *)
LEMMA SeenIsAbove ==
    ASSUME TypeOK, InPathOrder, NEW p \in Seen, NEW c \in hints, NEW x \in Seq(Nat),
           IsPrefix(p, x), IsPrefix(c, x)
    PROVE  IsStrictPrefix(p, c)
<1>1. p \in Seq(Nat) /\ c \in Seq(Nat)
      BY GivenArePaths DEF Seen, TypeOK, HintsTypedHere
<1>2. ~IsPrefix(c, p)
      BY <1>1, BeforeIsNotBelow DEF InPathOrder
<1>3. IsPrefix(p, c)
      BY <1>1, <1>2, PrefixesOfOneCompare
<1>4. p # c
      BY DEF Seen
<1> QED BY <1>3, <1>4 DEF IsStrictPrefix

LEMMA AboveIsSeen ==
    ASSUME TypeOK, NEW c, IsFirst(c, hints), NEW p \in DOMAIN given, IsStrictPrefix(p, c)
    PROVE  p \in Seen
<1> SUFFICES ASSUME p \in hints PROVE FALSE
    BY DEF Seen
<1>1. p \in Seq(Nat) /\ c \in Seq(Nat)
      BY GivenArePaths DEF IsFirst, TypeOK, HintsTypedHere
<1>2. Before(c, p)
      BY DEF IsFirst, IsStrictPrefix
<1> QED BY <1>1, <1>2, BeforeIsNotBelow DEF IsStrictPrefix

LEMMA StackedIsSeen ==
    ASSUME HintsInv, NEW j \in DOMAIN stack
    PROVE  /\ stack[j].path \in Seen /\ stack[j].path \in Seq(Nat)
           /\ stack[j] \in Item /\ stack[j].value \subseteq Data
BY ItemFields DEF HintsInv, StackIsVisited, Seen, TypeOK

LEMMA StackedCompare ==
    ASSUME HintsInv, NEW j \in DOMAIN stack, NEW k \in DOMAIN stack, j <= k
    PROVE  IsPrefix(stack[j].path, stack[k].path)
<1>1. CASE j = k
      BY <1>1, StackedIsSeen, PrefixOfItself
<1>2. CASE j # k
  <2>1. j < k
        BY <1>2 DEF HintsInv, TypeOK
  <2> QED BY <2>1 DEF HintsInv, StackIsChain, IsStrictPrefix
<1> QED BY <1>1, <1>2

(* The enclosing item is no marker: the hint would lie below a merged one.   *)
LEMMA EnclosingIsValue ==
    ASSUME HintsInv, GranularInv, ~SplitBelowMerge,
           NEW c \in HintPaths, ProcessHint(c)
    PROVE  /\ Enclosing(c) \in 0 .. Len(stack)
           /\ Enclosing(c) # 0 =>
                  Enclosing(c) \in DOMAIN stack /\ IsStrictPrefix(stack[Enclosing(c)].path, c)
           /\ Len(Kept(c)) = Enclosing(c)
<1> DEFINE i == Enclosing(c)
<1>1. c \in hints /\ c \in DOMAIN given
      BY DEF ProcessHint, IsFirst, HintsInv, TypeOK
<1>2. /\ stack \in Seq(Item) /\ Len(stack) \in Nat /\ DOMAIN stack = 1 .. Len(stack)
      /\ i \in 0 .. Len(stack)
      /\ i # 0 => IsPrefix(stack[i].path, c)
      BY EnclosingIsLast DEF HintsInv, TypeOK
<1>3. /\ Len(Kept(c)) \in Nat /\ Len(Kept(c)) <= i
      /\ \A j \in 1 .. i : j \in 1 .. Len(Kept(c)) \/ stack[j].marker
      BY KeptStack DEF HintsInv
<1> HIDE DEF i
<1>4. i # 0 => i \in DOMAIN stack /\ IsStrictPrefix(stack[i].path, c)
  <2> SUFFICES ASSUME i # 0 PROVE i \in DOMAIN stack /\ IsStrictPrefix(stack[i].path, c)
      OBVIOUS
  <2>1. i \in DOMAIN stack
        BY <1>2
  <2>2. stack[i].path # c
        BY <1>1, <2>1, StackedIsSeen DEF Seen
  <2> QED BY <1>2, <2>1, <2>2 DEF IsStrictPrefix
<1>5. i # 0 => ~stack[i].marker
  <2> SUFFICES ASSUME i # 0, stack[i].marker PROVE FALSE
      OBVIOUS
  <2>1. PICK o \in DOMAIN given :
            IsStrictPrefix(o, stack[i].path) /\ SameDirective(o, stack[i].path)
        BY <1>4 DEF GranularInv, MarkersAreMerged
  <2>2. stack[i].path \in DOMAIN given
        BY <1>4, StackedIsSeen DEF Seen
  <2> QED BY <1>1, <1>4, <2>1, <2>2 DEF SplitBelowMerge
<1>6. Len(Kept(c)) = i
  <2>1. CASE i = 0
        BY <1>3, <2>1
  <2>2. CASE i # 0
    <3>1. i \in 1 .. Len(Kept(c))
          BY <1>2, <1>3, <1>5, <2>2
    <3> QED BY <1>2, <1>3, <3>1
  <2> QED BY <2>1, <2>2
<1> QED BY <1>2, <1>4, <1>6 DEF i

(* A hint with a value is given its directive.                               *)
LEMMA HintIsDirected ==
    ASSUME HintsInv, GranularInv, ~SplitBelowMerge,
           NEW c \in HintPaths, ProcessHint(c), Under(Data, c) # {}
    PROVE  HintAge(c) = AgeOf(c) /\ HintScope(c) = ScopeOf(c)
<1> DEFINE i == Enclosing(c)
<1>1. c \in hints /\ c \in DOMAIN given /\ IsFirst(c, hints) /\ TypeOK
      BY DEF ProcessHint, IsFirst, HintsInv, TypeOK
<1>2. HintsTypedHere
      BY <1>1, GivenArePaths
<1>3. /\ i \in 0 .. Len(stack)
      /\ i # 0 => i \in DOMAIN stack /\ IsStrictPrefix(stack[i].path, c)
      BY EnclosingIsValue
<1>4. ASSUME NEW q \in DOMAIN given, IsStrictPrefix(q, c)
      PROVE  i # 0 /\ IsPrefix(q, stack[i].path)
  <2>1. q \in Seen
        BY <1>1, <1>4, AboveIsSeen
  <2>2. Open(q)
        BY <1>1, <1>4 DEF Open, IsStrictPrefix
  <2>3. Under(Data, q) # {}
    <3>1. PICK leaf \in Data : IsPrefix(c, leaf)
          BY DEF Under
    <3>2. IsPrefix(q, leaf)
          BY <1>1, <1>2, <1>4, <3>1, PathsAreNames, PrefixIsTransitive
          DEF IsStrictPrefix, HintsTypedHere
    <3> QED BY <3>1, <3>2 DEF Under
  <2>4. PICK j \in DOMAIN stack : stack[j].path = q
        BY <2>1, <2>2, <2>3 DEF GranularInv, OpenAreStacked
  <2>5. j <= i
        BY <1>1, <1>4, <2>4, EnclosingIsInnermost DEF IsStrictPrefix
  <2>6. i # 0
        BY <1>1, <2>4, <2>5 DEF TypeOK
  <2> HIDE DEF i
  <2> QED BY <1>3, <2>4, <2>5, <2>6, StackedCompare
<1> HIDE DEF i
<1>5. CASE i = 0
  <2>1. \A q \in DOMAIN given : ~IsStrictPrefix(q, c)
        BY <1>4, <1>5
  <2> QED BY <1>1, <1>2, <1>5, <2>1, DirectiveOfOutermost DEF HintAge, HintScope, i
<1>6. CASE i # 0
  <2>1. stack[i].age = AgeOf(stack[i].path) /\ stack[i].scope = ScopeOf(stack[i].path)
        BY <1>3, <1>6 DEF GranularInv, StackDirected, HasDirectiveOf
  <2>2. stack[i].path \in DOMAIN given
        BY <1>3, <1>6, StackedIsSeen DEF Seen
  <2>3. /\ AgeOf(c) = Or(given[c].age, AgeOf(stack[i].path))
        /\ ScopeOf(c) = Or(given[c].scope, ScopeOf(stack[i].path))
        BY <1>1, <1>2, <1>3, <1>4, <1>6, <2>2, DirectiveOfHint
  <2> QED BY <1>6, <2>1, <2>3 DEF HintAge, HintScope, i
<1> QED BY <1>5, <1>6

(* Before the visit, only the enclosing item has leaves below the hint.      *)
LEMMA LeavesAreEnclosed ==
    ASSUME HintsInv, GranularInv, ~SplitBelowMerge,
           NEW c \in HintPaths, ProcessHint(c),
           NEW j \in DOMAIN stack, NEW leaf \in stack[j].value, IsPrefix(c, leaf)
    PROVE  j = Enclosing(c)
<1>1. c \in hints /\ c \in DOMAIN given /\ TypeOK /\ InPathOrder
      BY DEF ProcessHint, IsFirst, HintsInv, TypeOK, GranularInv
<1>2. leaf \in Seq(Nat) /\ stack[j].path \in Seen
      BY StackedIsSeen, PathsAreNames
<1>3. PICK p \in Seen : /\ IsNearest(p, leaf) /\ IsPrefix(stack[j].path, p)
                        /\ HasDirectiveOf(stack[j], p)
      BY DEF GranularInv, StackedAreDirected, Directs
<1>4. IsStrictPrefix(p, c)
      BY <1>1, <1>2, <1>3, SeenIsAbove DEF IsNearest
<1>5. p = stack[j].path
  <2> SUFFICES ASSUME p # stack[j].path PROVE FALSE
      OBVIOUS
  <2>1. IsStrictPrefix(stack[j].path, p)
        BY <1>3 DEF IsStrictPrefix
  <2>2. SameDirective(stack[j].path, p)
        BY <1>3 DEF GranularInv, StackDirected, HasDirectiveOf, SameDirective
  <2> QED BY <1>1, <1>2, <1>4, <2>1, <2>2 DEF SplitBelowMerge, Seen
<1> DEFINE i == Enclosing(c)
<1>6. j <= i
      BY <1>1, <1>4, <1>5, EnclosingIsInnermost DEF IsStrictPrefix
<1>7. i \in DOMAIN stack /\ IsStrictPrefix(stack[i].path, c)
      BY <1>1, <1>6, EnclosingIsValue DEF TypeOK
<1> HIDE DEF i
<1>8. IsPrefix(stack[i].path, p)
  <2>1. stack[i].path \in Seen /\ stack[i].path \in Seq(Nat)
        BY <1>7, StackedIsSeen
  <2>2. c \in Seq(Nat)
        BY PathsAreNames
  <2>3. IsPrefix(stack[i].path, leaf)
        BY <1>2, <1>7, <2>1, <2>2, PrefixIsTransitive DEF IsStrictPrefix
  <2> QED BY <1>3, <2>1, <2>3 DEF IsNearest
<1>9. ~(j < i)
  <2> SUFFICES ASSUME j < i PROVE FALSE
      OBVIOUS
  <2>1. IsStrictPrefix(stack[j].path, stack[i].path)
        BY <1>7 DEF HintsInv, StackIsChain
  <2> QED BY <1>5, <1>7, <1>8, <2>1, StackedIsSeen, PrefixesOfEachOther DEF IsStrictPrefix
<1>10. j \in Nat /\ i \in Nat
      BY <1>1, <1>7 DEF TypeOK
<1>11. j = i
      BY <1>6, <1>9, <1>10
<1> QED BY <1>11 DEF i

(* Nothing that was handed over has a leaf below the hint.                   *)
LEMMA CachedAreElsewhere ==
    ASSUME HintsInv, GranularInv, NEW c \in hints,
           NEW item \in compressed, NEW leaf \in item.value
    PROVE  ~IsPrefix(c, leaf)
<1> SUFFICES ASSUME IsPrefix(c, leaf) PROVE FALSE
    OBVIOUS
<1>1. TypeOK /\ InPathOrder /\ item \in Item /\ c \in Seq(Nat)
      BY PathsAreNames DEF HintsInv, GranularInv, TypeOK
<1>2. leaf \in Seq(Nat) /\ item.path \in Seq(Nat)
      BY <1>1, ItemFields, PathsAreNames
<1>3. PICK p \in Seen : IsNearest(p, leaf) /\ IsPrefix(item.path, p)
      BY DEF GranularInv, CachedAreDirected, Directs
<1>4. IsPrefix(p, c) /\ p \in Seq(Nat)
      BY <1>1, <1>2, <1>3, SeenIsAbove, GivenArePaths
      DEF IsNearest, IsStrictPrefix, Seen, HintsTypedHere
<1>5. IsPrefix(item.path, c)
      BY <1>1, <1>2, <1>3, <1>4, PrefixIsTransitive
<1> QED BY <1>5 DEF GranularInv, CachedAreClosed, Open

-----------------------------------------------------------------------------
(* A visit, in the terms of the invariant: which items remain and what they  *)
(* hold, what is pushed, and what is handed over.                            *)
Visits(c, i, value) ==
    /\ c \in hints /\ c \in DOMAIN given /\ c \in Seq(Nat)
    /\ given' = given /\ hints' = hints \ {c} /\ Seen' = Seen \cup {c}
    /\ compressed' = compressed \cup Left(c)
    /\ \A item \in Left(c) : \E j \in DOMAIN stack : j > i /\ item = stack[j]
    /\ i \in Nat /\ DOMAIN stack \subseteq Nat
    /\ \A j \in DOMAIN stack' : j \in 1 .. i \/ (value # {} /\ j = i + 1)
    /\ \A j \in 1 .. i : j \in DOMAIN stack /\ j \in DOMAIN stack'
    /\ value # {} =>
           /\ i + 1 \in DOMAIN stack'
           /\ stack'[i + 1].path = c /\ HasDirectiveOf(stack'[i + 1], c)
           /\ stack'[i + 1].value \subseteq value
           /\ stack'[i + 1].marker => \E j \in 1 .. i : HasDirectiveOf(stack[j], c)

Remains(old, new, c, value) ==
    /\ new.path = old.path /\ IsStrictPrefix(old.path, c)
    /\ new.age = old.age /\ new.scope = old.scope /\ ~new.marker
    /\ \A leaf \in new.value :
           \/ leaf \in old.value /\ ~IsPrefix(c, leaf)
           \/ leaf \in value /\ HasDirectiveOf(old, c)

LEMMA VisitRemains ==
    ASSUME HintsInv, GranularInv, ~SplitBelowMerge,
           NEW c \in HintPaths, ProcessHint(c), NEW value, value = Under(Data, c),
           NEW i, i = Enclosing(c)
    PROVE  Visits(c, i, value) /\ \A j \in 1 .. i : Remains(stack[j], stack'[j], c, value)
<1>1. /\ c \in hints /\ c \in DOMAIN given /\ c \in Seq(Nat)
      /\ given' = given /\ hints' = hints \ {c} /\ compressed' = compressed \cup Left(c)
      BY PathsAreNames DEF ProcessHint, IsFirst, HintsInv, TypeOK
<1>2. Seen' = Seen \cup {c}
      BY <1>1 DEF Seen
<1>3. /\ Len(stack) \in Nat /\ DOMAIN stack = 1 .. Len(stack)
      /\ i \in 0 .. Len(stack) /\ Len(Kept(c)) = i
      /\ i # 0 => i \in DOMAIN stack /\ IsStrictPrefix(stack[i].path, c)
      BY EnclosingIsValue DEF HintsInv, TypeOK
<1>4. \A item \in Left(c) : \E j \in DOMAIN stack : j > i /\ item = stack[j]
  <2>1. \A j \in i + 1 .. Len(stack) : j \in 1 .. Len(stack) /\ j > i
        BY <1>3
  <2>2. \A item \in Left(c) : \E j \in i + 1 .. Len(stack) : item = stack[j]
        BY DEF Left
  <2> QED BY <1>3, <2>1, <2>2
<1>5. /\ stack' \in Seq(Item)
      /\ Visited(stack, stack', i, c, value)
      BY <1>3, VisitStack DEF HintsInv
<1>6. /\ \A j \in 1 .. i :
             /\ stack'[j].path = stack[j].path
             /\ stack'[j].age = stack[j].age /\ stack'[j].scope = stack[j].scope
             /\ \/ stack'[j].value = KeptValue(j, c)
                \/ /\ stack'[j].value = KeptValue(j, c) \cup value
                   /\ stack[j].age = HintAge(c) /\ stack[j].scope = HintScope(c)
      /\ value = {} => Len(stack') = i
      /\ value # {} =>
             /\ Len(stack') = i + 1
             /\ stack'[i + 1].path = c
             /\ stack'[i + 1].age = HintAge(c) /\ stack'[i + 1].scope = HintScope(c)
             /\ stack'[i + 1].marker => \E j \in 1 .. i :
                   stack[j].age = HintAge(c) /\ stack[j].scope = HintScope(c)
  <2>1. i = Len(Kept(c))
        BY <1>3
  <2>2. TypeOK /\ StackIsChain
        BY DEF HintsInv
  <2>3. StackVisited(c, i, value)
        BY <2>1, <2>2, VisitDirectives
  <2> QED BY <2>3 DEF StackVisited
<1>7. value # {} => HintAge(c) = AgeOf(c) /\ HintScope(c) = ScopeOf(c)
      BY HintIsDirected
<1>8. DOMAIN stack' = 1 .. Len(stack') /\ Len(stack') \in Nat
      BY <1>5
<1>9. /\ \A j \in DOMAIN stack' : j \in 1 .. i \/ (value # {} /\ j = i + 1)
      /\ \A j \in 1 .. i : j \in DOMAIN stack /\ j \in DOMAIN stack'
      BY <1>3, <1>6, <1>8
<1>10. value # {} =>
           /\ i + 1 \in DOMAIN stack' /\ i + 1 \notin 1 .. i
           /\ stack'[i + 1].path = c /\ HasDirectiveOf(stack'[i + 1], c)
           /\ stack'[i + 1].marker => \E j \in 1 .. i : HasDirectiveOf(stack[j], c)
      BY <1>3, <1>6, <1>7, <1>8 DEF HasDirectiveOf
<1>11. value # {} => stack'[i + 1].value \subseteq value
       BY <1>5, <1>8, <1>10 DEF Visited
<1>12. Visits(c, i, value)
       BY <1>1, <1>2, <1>3, <1>4, <1>9, <1>10, <1>11 DEF Visits
<1>13. ASSUME NEW j \in 1 .. i
       PROVE  Remains(stack[j], stack'[j], c, value)
  <2>1. IsStrictPrefix(stack[j].path, c)
    <3>1. i # 0 /\ j <= i /\ j \in DOMAIN stack
          BY <1>3, <1>9
    <3>2. IsPrefix(stack[j].path, stack[i].path)
          BY <1>3, <3>1, StackedCompare
    <3>3. IsPrefix(stack[j].path, c)
          BY <1>1, <1>3, <3>1, <3>2, StackedIsSeen, PrefixIsTransitive DEF IsStrictPrefix
    <3>4. stack[j].path # c
          BY <1>1, <3>1, StackedIsSeen DEF Seen
    <3> QED BY <3>3, <3>4 DEF IsStrictPrefix
  <2>2. ~stack'[j].marker
        BY <1>5 DEF Visited
  <2>3. ASSUME NEW leaf \in KeptValue(j, c)
        PROVE  leaf \in stack[j].value /\ ~IsPrefix(c, leaf)
    <3>1. CASE j = i
      <4>1. c # <<>>
        <5>1. Len(stack[j].path) <= Len(c) /\ \A k \in 1 .. Len(stack[j].path) : stack[j].path[k] = c[k]
              BY <1>1, <1>9, <2>1, StackedIsSeen, PrefixIsPointwise DEF IsStrictPrefix
        <5>2. stack[j].path \in Seq(Nat)
              BY <1>9, StackedIsSeen
        <5>3. c = <<>> => Len(stack[j].path) = 0
              BY <1>1, <5>1, <5>2
        <5> QED BY <1>1, <2>1, <5>2, <5>3, EmptySeq DEF IsStrictPrefix
      <4>2. KeptValue(j, c) = stack[j].value \ Under(stack[j].value, c)
            BY <3>1, <4>1 DEF KeptValue, Without
      <4> QED BY <2>3, <4>2 DEF Under
    <3>2. CASE j # i
      <4>1. leaf \in stack[j].value
            BY <2>3, <3>2 DEF KeptValue
      <4> QED BY <1>9, <3>2, <4>1, LeavesAreEnclosed
    <3> QED BY <3>1, <3>2
  <2>4. ASSUME NEW leaf \in stack'[j].value
        PROVE  \/ leaf \in stack[j].value /\ ~IsPrefix(c, leaf)
               \/ leaf \in value /\ HasDirectiveOf(stack[j], c)
    <3>1. leaf \in KeptValue(j, c)
          \/ (leaf \in value /\ stack[j].age = HintAge(c) /\ stack[j].scope = HintScope(c))
          BY <1>6, <2>4
    <3> QED BY <1>7, <2>3, <3>1 DEF HasDirectiveOf
  <2> QED BY <1>6, <2>1, <2>2, <2>4 DEF Remains
<1> QED BY <1>12, <1>13

(* A visit keeps the order, and what it takes off the stack has no hint left *)
(* below it.                                                                 *)
LEMMA VisitOrder ==
    ASSUME HintsInv, GranularInv, ~SplitBelowMerge, NEW c \in HintPaths, ProcessHint(c)
    PROVE  InPathOrder' /\ OpenAreStacked' /\ CachedAreClosed'
<1> DEFINE i == Enclosing(c)
           value == Under(Data, c)
<1>1. Visits(c, i, value) /\ \A j \in 1 .. i : Remains(stack[j], stack'[j], c, value)
      BY VisitRemains
<1> HIDE DEF i, value
<1>2. \A q \in hints \ {c} : Before(c, q) /\ q \in Seq(Nat)
      BY GivenArePaths DEF ProcessHint, IsFirst, HintsInv, TypeOK, HintsTypedHere
<1>3. ASSUME NEW j \in DOMAIN stack, j > i, NEW q \in hints'
      PROVE  ~IsPrefix(stack[j].path, q)
  <2> SUFFICES ASSUME IsPrefix(stack[j].path, q) PROVE FALSE
      OBVIOUS
  <2>1. q \in hints \ {c} /\ c \in Seq(Nat) /\ c \in hints
        BY <1>1 DEF Visits
  <2>2. stack[j].path \in Seen /\ stack[j].path \in Seq(Nat)
        BY StackedIsSeen
  <2>3. Before(stack[j].path, c)
        BY <2>1, <2>2 DEF GranularInv, InPathOrder
  <2>4. IsPrefix(stack[j].path, c)
        BY <1>2, <2>1, <2>2, <2>3, BelowIsContiguous
  <2>5. j <= i
        BY <2>4, EnclosingIsInnermost DEF HintsInv, i
  <2> QED BY <1>1, <1>3, <2>5 DEF Visits
<1>4. InPathOrder'
  <2>1. \A p \in Seen \cup {c} : \A q \in hints \ {c} : Before(p, q)
        BY <1>2 DEF GranularInv, InPathOrder
  <2> QED BY <1>1, <2>1 DEF InPathOrder, Visits
<1>5. CachedAreClosed'
  <2>1. ASSUME NEW item \in compressed', NEW q \in hints'
        PROVE  ~IsPrefix(item.path, q)
    <3>1. CASE item \in compressed
          BY <1>1, <3>1 DEF Visits, GranularInv, CachedAreClosed, Open
    <3>2. CASE item \in Left(c)
          BY <1>1, <1>3, <3>2 DEF Visits
    <3> QED BY <1>1, <3>1, <3>2 DEF Visits
  <2> QED BY <2>1 DEF CachedAreClosed, Open
<1>6. OpenAreStacked'
  <2>1. ASSUME NEW p \in Seen', Under(Data, p) # {}, NEW q \in hints', IsPrefix(p, q)
        PROVE  \E j \in DOMAIN stack' : stack'[j].path = p
    <3>1. CASE p = c
          BY <1>1, <2>1, <3>1 DEF Visits, value
    <3>2. CASE p # c
      <4>1. p \in Seen /\ q \in hints
            BY <1>1, <3>2 DEF Visits
      <4>2. PICK j \in DOMAIN stack : stack[j].path = p
            BY <2>1, <4>1 DEF GranularInv, OpenAreStacked, Open
      <4>3. j \in 1 .. i /\ j \in DOMAIN stack'
        <5>1. ~(j > i)
              BY <1>3, <2>1, <4>2
        <5>2. j \in Nat /\ j >= 1 /\ i \in Nat
              BY <1>1 DEF HintsInv, TypeOK, Visits
        <5>3. j \in 1 .. i
              BY <5>1, <5>2
        <5> QED BY <1>1, <5>3 DEF Visits
      <4>4. stack'[j].path = stack[j].path
            BY <1>1, <4>3 DEF Remains
      <4> QED BY <4>2, <4>3, <4>4
    <3> QED BY <3>1, <3>2
  <2> QED BY <2>1 DEF OpenAreStacked, Open
<1> QED BY <1>4, <1>5, <1>6

(* A visit gives the new item its directive, and marks it only when there is *)
(* an item above with the same.                                              *)
LEMMA VisitDirected ==
    ASSUME HintsInv, GranularInv, ~SplitBelowMerge, NEW c \in HintPaths, ProcessHint(c)
    PROVE  StackDirected' /\ MarkersAreMerged'
<1> DEFINE i == Enclosing(c)
           value == Under(Data, c)
<1>1. Visits(c, i, value) /\ \A j \in 1 .. i : Remains(stack[j], stack'[j], c, value)
      BY VisitRemains
<1> HIDE DEF i, value
<1>2. \A p : AgeOf(p)' = AgeOf(p) /\ ScopeOf(p)' = ScopeOf(p)
      BY <1>1, SameHints DEF Visits
<1>3. ASSUME NEW j \in DOMAIN stack'
      PROVE  HasDirectiveOf(stack'[j], stack'[j].path)
  <2>1. CASE j \in 1 .. i
        BY <1>1, <2>1 DEF Visits, Remains, HasDirectiveOf, GranularInv, StackDirected
  <2>2. CASE value # {} /\ j = i + 1
        BY <1>1, <2>2 DEF Visits
  <2> QED BY <1>1, <2>1, <2>2 DEF Visits
<1>4. \A j : AgeOf(stack[j].path)' = AgeOf(stack'[j].path)
              /\ ScopeOf(stack[j].path)' = ScopeOf(stack'[j].path)
      BY <1>1 DEF AgeOf, ScopeOf, Hinted, Visits
<1>5. StackDirected'
      BY <1>3, <1>4 DEF StackDirected, HasDirectiveOf
<1>6. ASSUME NEW j \in DOMAIN stack', stack'[j].marker
      PROVE  \E o \in DOMAIN given :
                 IsStrictPrefix(o, stack'[j].path) /\ SameDirective(o, stack'[j].path)
  <2>1. value # {} /\ j = i + 1
        BY <1>1, <1>6 DEF Visits, Remains
  <2>2. PICK k \in 1 .. i : HasDirectiveOf(stack[k], c)
        BY <1>1, <1>6, <2>1 DEF Visits
  <2>3. /\ k \in DOMAIN stack /\ IsStrictPrefix(stack[k].path, c)
        /\ stack[k].path \in DOMAIN given
        BY <1>1, StackedIsSeen DEF Visits, Remains, Seen
  <2>4. SameDirective(stack[k].path, c)
        BY <2>2, <2>3 DEF SameDirective, HasDirectiveOf, GranularInv, StackDirected
  <2> QED BY <1>1, <2>1, <2>3, <2>4 DEF Visits
<1>7. \A j, o : SameDirective(o, stack[j].path)' = SameDirective(o, stack'[j].path)
      BY <1>2, <1>4 DEF SameDirective
<1>8. MarkersAreMerged'
      BY <1>1, <1>6, <1>7 DEF MarkersAreMerged, Visits
<1> QED BY <1>5, <1>8

(* A leaf keeps its nearest hint, or gets the one that is visited; then it   *)
(* is taken out of the enclosing value, or that has the same directive.      *)
DirectsThen(item, leaf, c) ==
    \E p \in Seen \cup {c} :
        /\ IsPrefix(p, leaf) /\ IsPrefix(item.path, p) /\ HasDirectiveOf(item, p)
        /\ \A q \in Seen \cup {c} : IsPrefix(q, leaf) => IsPrefix(q, p)

LEMMA ElsewhereIsDirected ==
    ASSUME NEW c, NEW item, NEW leaf, Directs(item, leaf), ~IsPrefix(c, leaf)
    PROVE  DirectsThen(item, leaf, c)
BY DEF Directs, DirectsThen, IsNearest

LEMMA BelowIsDirected ==
    ASSUME HintsInv, GranularInv, NEW c \in hints, NEW item, NEW leaf \in Data,
           IsPrefix(item.path, c), HasDirectiveOf(item, c), IsPrefix(c, leaf)
    PROVE  DirectsThen(item, leaf, c)
<1>1. c \in Seq(Nat) /\ leaf \in Seq(Nat) /\ IsPrefix(c, c)
      BY GivenArePaths, PathsAreNames, PrefixOfItself DEF HintsInv, TypeOK, HintsTypedHere
<1>2. ASSUME NEW q \in Seen, IsPrefix(q, leaf)
      PROVE  IsPrefix(q, c)
      BY <1>1, <1>2, SeenIsAbove DEF IsStrictPrefix, HintsInv, GranularInv
<1> QED BY <1>1, <1>2 DEF DirectsThen

LEMMA VisitLeaves ==
    ASSUME HintsInv, GranularInv, ~SplitBelowMerge, NEW c \in HintPaths, ProcessHint(c)
    PROVE  StackedAreDirected' /\ CachedAreDirected'
<1> DEFINE i == Enclosing(c)
           value == Under(Data, c)
<1>1. Visits(c, i, value) /\ \A j \in 1 .. i : Remains(stack[j], stack'[j], c, value)
      BY VisitRemains
<1>2. \A leaf \in value : leaf \in Data /\ IsPrefix(c, leaf)
      BY DEF Under
<1>3. \A j \in DOMAIN stack : \A leaf \in stack[j].value :
          leaf \in Data /\ Directs(stack[j], leaf) /\ (IsPrefix(c, leaf) => j = i)
      BY StackedIsSeen, LeavesAreEnclosed DEF GranularInv, StackedAreDirected
<1> HIDE DEF i, value
<1>4. c \in hints /\ IsPrefix(c, c)
      BY <1>1, PrefixOfItself DEF Visits
<1>5. ASSUME NEW j \in DOMAIN stack', NEW leaf \in stack'[j].value
      PROVE  DirectsThen(stack'[j], leaf, c)
  <2>1. CASE j \in 1 .. i
    <3>1. Remains(stack[j], stack'[j], c, value) /\ j \in DOMAIN stack
          BY <1>1, <2>1 DEF Visits
    <3>2. CASE leaf \in stack[j].value /\ ~IsPrefix(c, leaf)
      <4>1. DirectsThen(stack[j], leaf, c)
            BY <1>3, <3>1, <3>2, ElsewhereIsDirected
      <4> QED BY <3>1, <4>1 DEF DirectsThen, Remains, HasDirectiveOf
    <3>3. CASE leaf \in value /\ HasDirectiveOf(stack[j], c)
      <4>1. IsPrefix(stack[j].path, c)
            BY <3>1 DEF Remains, IsStrictPrefix
      <4>2. DirectsThen(stack[j], leaf, c)
            BY <1>2, <1>4, <3>3, <4>1, BelowIsDirected
      <4> QED BY <3>1, <4>2 DEF DirectsThen, Remains, HasDirectiveOf
    <3> QED BY <1>5, <3>1, <3>2, <3>3 DEF Remains
  <2>2. CASE value # {} /\ j = i + 1
    <3>1. leaf \in value /\ HasDirectiveOf(stack'[j], c) /\ stack'[j].path = c
          BY <1>1, <1>5, <2>2 DEF Visits
    <3> QED BY <1>2, <1>4, <3>1, BelowIsDirected
  <2> QED BY <1>1, <2>1, <2>2 DEF Visits
<1>6. ASSUME NEW item \in compressed', NEW leaf \in item.value
      PROVE  DirectsThen(item, leaf, c)
  <2>1. CASE item \in compressed
    <3>1. Directs(item, leaf) /\ ~IsPrefix(c, leaf)
          BY <1>4, <2>1, CachedAreElsewhere, <1>6 DEF GranularInv, CachedAreDirected
    <3> QED BY <3>1, ElsewhereIsDirected
  <2>2. CASE item \in Left(c)
    <3>1. PICK j \in DOMAIN stack : j > i /\ item = stack[j]
          BY <1>1, <2>2 DEF Visits
    <3>2. j # i
          BY <1>1, <3>1 DEF Visits
    <3>3. Directs(item, leaf) /\ ~IsPrefix(c, leaf)
          BY <1>3, <1>6, <3>1, <3>2
    <3> QED BY <3>3, ElsewhereIsDirected
  <2> QED BY <1>1, <2>1, <2>2 DEF Visits
<1>7. ASSUME NEW item, NEW leaf, DirectsThen(item, leaf, c)
      PROVE  Directs(item, leaf)'
  <2>1. \A p : AgeOf(p)' = AgeOf(p) /\ ScopeOf(p)' = ScopeOf(p)
        BY <1>1, SameHints DEF Visits
  <2> QED BY <1>1, <1>7, <2>1 DEF Directs, DirectsThen, IsNearest, HasDirectiveOf, Visits
<1>8. CachedAreDirected'
      BY <1>6, <1>7 DEF CachedAreDirected
<1>9. StackedAreDirected'
  <2>1. ASSUME NEW j \in DOMAIN stack', NEW leaf \in stack'[j].value
        PROVE  Directs(stack[j], leaf)'
    <3>1. \A p : AgeOf(p)' = AgeOf(p) /\ ScopeOf(p)' = ScopeOf(p)
          BY <1>1, SameHints DEF Visits
    <3>2. DirectsThen(stack'[j], leaf, c)
          BY <1>5
    <3> QED BY <1>1, <3>1, <3>2
            DEF Directs, DirectsThen, IsNearest, HasDirectiveOf, Visits
  <2> QED BY <2>1 DEF StackedAreDirected
<1> QED BY <1>8, <1>9

LEMMA VisitGranular ==
    ASSUME HintsInv, GranularInv, ~SplitBelowMerge, NEW c \in HintPaths, ProcessHint(c)
    PROVE  GranularInv'
BY VisitOrder, VisitDirected, VisitLeaves DEF GranularInv

LEMMA FinishGranular ==
    ASSUME HintsInv, GranularInv, Finish
    PROVE  GranularInv'
<1>1. /\ hints = {} /\ stack' = <<>> /\ given' = given /\ hints' = hints /\ Seen' = Seen
      /\ compressed' = compressed \cup {item \in ToSet(stack) : HasValue(item)}
      BY DEF Finish, Seen
<1>2. DOMAIN stack' = {}
      BY <1>1
<1>3. \A item \in ToSet(stack) : \E j \in DOMAIN stack : item = stack[j]
      BY DEF ToSet, HintsInv, TypeOK
<1>4. InPathOrder' /\ OpenAreStacked' /\ CachedAreClosed'
      BY <1>1 DEF InPathOrder, OpenAreStacked, CachedAreClosed, Open
<1>5. StackDirected' /\ MarkersAreMerged' /\ StackedAreDirected'
      BY <1>2 DEF StackDirected, MarkersAreMerged, StackedAreDirected
<1>6. CachedAreDirected'
  <2>1. ASSUME NEW item \in compressed', NEW leaf \in item.value
        PROVE  Directs(item, leaf)
        BY <1>1, <1>3, <2>1 DEF GranularInv, CachedAreDirected, StackedAreDirected
  <2>2. \A p : AgeOf(p)' = AgeOf(p) /\ ScopeOf(p)' = ScopeOf(p)
        BY <1>1, SameHints
  <2>3. ASSUME NEW item, NEW leaf, Directs(item, leaf)
        PROVE  Directs(item, leaf)'
        BY <1>1, <2>2, <2>3 DEF Directs, IsNearest, HasDirectiveOf
  <2> QED BY <2>1, <2>3 DEF CachedAreDirected
<1> QED BY <1>4, <1>5, <1>6 DEF GranularInv

LEMMA StutterGranular ==
    ASSUME GranularInv, UNCHANGED vars
    PROVE  GranularInv'
<1>1. InPathOrder' /\ OpenAreStacked' /\ CachedAreClosed'
      BY DEF GranularInv, InPathOrder, OpenAreStacked, CachedAreClosed, Open, Seen, vars
<1>2. given' = given /\ hints' = hints /\ stack' = stack /\ compressed' = compressed
      BY DEF vars
<1>3. \A p : AgeOf(p)' = AgeOf(p) /\ ScopeOf(p)' = ScopeOf(p)
      BY <1>2, SameHints
<1>4. \A j : AgeOf(stack[j].path)' = AgeOf(stack[j].path)
              /\ ScopeOf(stack[j].path)' = ScopeOf(stack[j].path)
      BY <1>2 DEF AgeOf, ScopeOf, Hinted
<1>5. \A j, o : SameDirective(o, stack[j].path)' = SameDirective(o, stack[j].path)
      BY <1>3, <1>4 DEF SameDirective
<1>6. StackDirected' /\ MarkersAreMerged'
      BY <1>2, <1>4, <1>5 DEF GranularInv, StackDirected, MarkersAreMerged, HasDirectiveOf
<1>7. ASSUME NEW item, NEW leaf, Directs(item, leaf)
      PROVE  Directs(item, leaf)'
      BY <1>2, <1>3, <1>7 DEF Directs, IsNearest, HasDirectiveOf, Seen
<1>8. CachedAreDirected'
      BY <1>2, <1>7 DEF GranularInv, CachedAreDirected
<1>9. StackedAreDirected'
  <2>1. ASSUME NEW j \in DOMAIN stack, NEW leaf \in stack[j].value
        PROVE  Directs(stack[j], leaf)'
    <3>1. Directs(stack[j], leaf)
          BY DEF GranularInv, StackedAreDirected
    <3> QED BY <1>2, <1>3, <3>1 DEF Directs, IsNearest, HasDirectiveOf, Seen
  <2> QED BY <1>2, <2>1 DEF StackedAreDirected
<1> QED BY <1>1, <1>6, <1>8, <1>9 DEF GranularInv

LEMMA SpecGranular == Spec => [](HintsInv /\ (SplitBelowMerge \/ GranularInv))
<1> DEFINE Inv == HintsInv /\ (SplitBelowMerge \/ GranularInv)
<1>1. Init => Inv
      BY InitHints, InitGranular
<1>2. Inv /\ [Next]_vars => Inv'
  <2> SUFFICES ASSUME Inv, [Next]_vars PROVE Inv'
      OBVIOUS
  <2>1. UNCHANGED given
        BY DEF Next, ProcessHint, Finish, Terminated, vars
  <2>2. SplitBelowMerge' = SplitBelowMerge
        BY <2>1, SameHints
  <2>3. CASE \E c \in HintPaths : ProcessHint(c)
        BY <2>2, <2>3, VisitHints, VisitGranular
  <2>4. CASE Finish
        BY <2>2, <2>4, FinishHints, FinishGranular
  <2>5. CASE Terminated \/ UNCHANGED vars
        BY <2>2, <2>5, StutterHints, StutterGranular DEF Terminated
  <2> QED BY <2>3, <2>4, <2>5 DEF Next
<1> QED BY <1>1, <1>2, PTL DEF Spec

(* Unless a hint lies below one that is merged, compress_cache_hints caches  *)
(* each leaf with the age and the scope of its nearest hint, whatever the    *)
(* response, the hints and the paths, and at every moment of the loop.       *)
THEOREM LeavesKeepTheirDirective == Spec => []GranularUnlessSplit
<1>1. HintsInv /\ GranularInv => Granular
  <2> SUFFICES ASSUME HintsInv, GranularInv, NEW leaf \in Data, NEW item \in Cached(leaf)
               PROVE  item.age = AgeOf(leaf) /\ item.scope = ScopeOf(leaf)
      BY DEF Granular
  <2>1. item \in compressed /\ leaf \in item.value /\ item \in Item /\ TypeOK /\ InPathOrder
        BY DEF Cached, HintsInv, TypeOK, GranularInv
  <2>2. PICK p \in Seen : IsNearest(p, leaf) /\ IsPrefix(item.path, p) /\ HasDirectiveOf(item, p)
        BY <2>1 DEF GranularInv, CachedAreDirected, Directs
  <2>3. HintsTypedHere /\ leaf \in Seq(Nat) /\ item.path \in Seq(Nat) /\ p \in DOMAIN given
        BY <2>1, GivenArePaths, PathsAreNames, ItemFields DEF Seen
  <2>4. ASSUME NEW q \in DOMAIN given, IsPrefix(q, leaf)
        PROVE  IsPrefix(q, p)
    <3>1. CASE q \in Seen
          BY <2>2, <2>4, <3>1 DEF IsNearest
    <3>2. CASE q \notin Seen
      <4>1. q \in hints
            BY <3>2 DEF Seen
      <4>2. IsStrictPrefix(p, q)
            BY <2>1, <2>2, <2>3, <2>4, <4>1, SeenIsAbove DEF IsNearest
      <4>3. IsPrefix(item.path, q)
            BY <2>2, <2>3, <4>2, PrefixIsTransitive DEF HintsTypedHere, IsStrictPrefix
      <4> QED BY <2>1, <4>1, <4>3 DEF GranularInv, CachedAreClosed, Open
    <3> QED BY <3>1, <3>2
  <2>5. AgeOf(leaf) = AgeOf(p) /\ ScopeOf(leaf) = ScopeOf(p)
        BY <2>2, <2>3, <2>4, DirectiveOfNearest DEF IsNearest
  <2> QED BY <2>2, <2>5 DEF HasDirectiveOf
<1>2. HintsInv /\ (SplitBelowMerge \/ GranularInv) => GranularUnlessSplit
      BY <1>1 DEF GranularUnlessSplit
<1> QED BY <1>2, SpecGranular, PTL
=============================================================================

-------------------------- MODULE CacheHintsProofs --------------------------
(* Theorems about CacheHints, for any response, any hints and any paths: no  *)
(* leaf below a hint is lost, and none is cached that no hint covers.        *)
EXTENDS CacheHints, SequenceTheorems, WellFoundedInduction, TLAPS

-----------------------------------------------------------------------------
(* The last of a set of indices.                                             *)
LEMMA SmallestExists ==
    ASSUME NEW T, T \subseteq Nat, T # {}
    PROVE  \E x \in T : \A y \in T : x <= y
<1> DEFINE R == OpToRel(<, Nat)
<1>1. IsWellFoundedOn(R, Nat)
      BY NatLessThanWellFounded
<1>2. \A x, y \in Nat : x < y => <<x, y>> \in R
      BY Zenon DEF OpToRel
<1> HIDE DEF R
<1>3. PICK x \in T : \A y \in T : ~ (<<y, x>> \in R)
      BY <1>1, WFMin
<1>4. ASSUME NEW y \in T
      PROVE  x <= y
  <2>1. x \in Nat /\ y \in Nat
        OBVIOUS
  <2>2. ~ (y < x)
        BY <1>2, <1>3, <2>1
  <2> QED BY <2>1, <2>2
<1> QED BY <1>4

LEMMA InnermostIsLast ==
    ASSUME NEW n \in Nat, NEW I, I \subseteq 1 .. n
    PROVE  /\ Innermost(I) \in I \cup {0}
           /\ Innermost(I) \in 0 .. n
           /\ \A j \in I : j <= Innermost(I)
<1> DEFINE J == I \cup {0}
           T == {n - i : i \in J}
<1>1. J \subseteq 0 .. n
      OBVIOUS
<1>2. T \subseteq Nat
  <2>1. \A i \in J : n - i \in Nat
        BY <1>1
  <2> QED BY <2>1
<1>3. n - 0 \in T
      OBVIOUS
<1>4. PICK x \in T : \A y \in T : x <= y
      BY <1>2, <1>3, SmallestExists
<1>5. PICK m \in J : x = n - m
      OBVIOUS
<1>6. ASSUME NEW j \in J
      PROVE  m >= j
  <2>1. x <= n - j
        BY <1>4
  <2> QED BY <1>1, <1>5, <2>1
<1>7. Max(J) \in J /\ \A j \in J : Max(J) >= j
      BY <1>5, <1>6 DEF Max
<1>8. Innermost(I) = Max(J)
      BY DEF Innermost
<1> HIDE DEF J
<1>9. Innermost(I) \in 0 .. n
      BY <1>1, <1>7, <1>8
<1>10. ASSUME NEW j \in I
       PROVE  j <= Innermost(I)
  <2>1. j \in J /\ j \in Nat
        BY DEF J
  <2> QED BY <1>7, <1>8, <1>9, <2>1
<1> QED BY <1>7, <1>8, <1>9, <1>10 DEF J

-----------------------------------------------------------------------------
(* Prefixes, an element at a time.                                           *)
LEMMA PrefixIsPointwise ==
    ASSUME NEW s \in Seq(Nat), NEW t \in Seq(Nat)
    PROVE  IsPrefix(s, t) <=> Len(s) <= Len(t) /\ \A i \in 1 .. Len(s) : s[i] = t[i]
<1>1. SUFFICES ASSUME Len(s) <= Len(t)
               PROVE  SubSeq(s, 1, Len(s)) = SubSeq(t, 1, Len(s))
                          <=> \A i \in 1 .. Len(s) : s[i] = t[i]
      BY DEF IsPrefix
<1> DEFINE a == SubSeq(s, 1, Len(s))
           b == SubSeq(t, 1, Len(s))
<1>2. a \in Seq(Nat) /\ Len(a) = Len(s) /\ \A i \in 1 .. Len(s) : a[i] = s[i]
      OBVIOUS
<1>3. b \in Seq(Nat) /\ Len(b) = Len(s) /\ \A i \in 1 .. Len(s) : b[i] = t[i]
      BY <1>1
<1> HIDE DEF a, b
<1>4. a = b <=> \A i \in 1 .. Len(s) : a[i] = b[i]
      BY <1>2, <1>3, SeqEqual
<1>5. a = b <=> \A i \in 1 .. Len(s) : s[i] = t[i]
      BY <1>2, <1>3, <1>4
<1> QED BY <1>5 DEF a, b

LEMMA PrefixIsTransitive ==
    ASSUME NEW s \in Seq(Nat), NEW t \in Seq(Nat), NEW u \in Seq(Nat),
           IsPrefix(s, t), IsPrefix(t, u)
    PROVE  IsPrefix(s, u)
<1>1. Len(s) <= Len(t) /\ \A i \in 1 .. Len(s) : s[i] = t[i]
      BY PrefixIsPointwise
<1>2. Len(t) <= Len(u) /\ \A i \in 1 .. Len(t) : t[i] = u[i]
      BY PrefixIsPointwise
<1>3. Len(s) <= Len(u) /\ \A i \in 1 .. Len(s) : s[i] = u[i]
      BY <1>1, <1>2
<1> QED BY <1>3, PrefixIsPointwise

-----------------------------------------------------------------------------
(* The stack.                                                                *)
LEMMA ItemFields ==
    ASSUME NEW item \in Item
    PROVE  /\ item.path \in HintPaths /\ item.path \in Seq(Nat)
           /\ item.value \subseteq Data
           /\ item.marker \in BOOLEAN
           /\ item.age \in Ages \cup {0}
           /\ item.scope \in Scopes \cup {"PUBLIC"}
BY PathsAreNames DEF Item

LEMMA ItemWith ==
    ASSUME NEW item \in Item, NEW v \in SUBSET Data
    PROVE  /\ [item EXCEPT !.value = v] \in Item
           /\ [item EXCEPT !.value = v].path = item.path
           /\ [item EXCEPT !.value = v].value = v
           /\ [item EXCEPT !.value = v].marker = item.marker
BY DEF Item

LEMMA ItemMarked ==
    ASSUME NEW item \in Item, NEW v \in SUBSET Data, NEW m \in BOOLEAN
    PROVE  /\ [item EXCEPT !.value = v, !.marker = m] \in Item
           /\ [item EXCEPT !.value = v, !.marker = m].path = item.path
           /\ [item EXCEPT !.value = v, !.marker = m].value = v
           /\ [item EXCEPT !.value = v, !.marker = m].marker = m
BY DEF Item

LEMMA EnclosingIsLast ==
    ASSUME TypeOK, NEW path
    PROVE  /\ Enclosing(path) \in 0 .. Len(stack)
           /\ Enclosing(path) # 0 => IsPrefix(stack[Enclosing(path)].path, path)
<1> DEFINE I == {i \in DOMAIN stack : IsPrefix(stack[i].path, path)}
<1>1. I \subseteq 1 .. Len(stack) /\ Len(stack) \in Nat
      BY DEF TypeOK
<1>2. Innermost(I) \in I \cup {0} /\ Innermost(I) \in 0 .. Len(stack)
      BY <1>1, InnermostIsLast
<1> QED BY <1>2 DEF Enclosing

LEMMA WithoutTakes ==
    ASSUME NEW value \in SUBSET Data, NEW path
    PROVE  /\ Without(value, path) \in SUBSET Data
           /\ Without(value, path) \subseteq value
           /\ \A leaf \in value : ~IsPrefix(path, leaf) => leaf \in Without(value, path)
BY DEF Without, Under

(* What Kept(path) leaves of the stack: the items that enclose the path, as  *)
(* they were but for what is below the path, and but for a marker.           *)
StillThere(old, new, path) ==
    /\ new.path = old.path
    /\ new.marker = old.marker
    /\ new.value \subseteq old.value
    /\ \A leaf \in old.value : ~IsPrefix(path, leaf) => leaf \in new.value

LEMMA KeptStack ==
    ASSUME TypeOK, StackIsChain, NEW path
    PROVE  /\ Kept(path) \in Seq(Item)
           /\ Len(Kept(path)) <= Enclosing(path)
           /\ \A j \in 1 .. Len(Kept(path)) :
                  /\ StillThere(stack[j], Kept(path)[j], path)
                  /\ ~Kept(path)[j].marker
           /\ \A j \in 1 .. Enclosing(path) :
                  j \in 1 .. Len(Kept(path)) \/ stack[j].marker
<1> DEFINE i == Enclosing(path)
           front == SubSeq(stack, 1, i - 1)
           last == [stack[i] EXCEPT !.value = Without(@, path)]
<1>1. stack \in Seq(Item) /\ Len(stack) \in Nat /\ i \in 0 .. Len(stack)
      BY EnclosingIsLast DEF TypeOK
<1>2. CASE i = 0
  <2>1. Kept(path) = <<>>
        BY <1>2 DEF Kept
  <2>2. Kept(path) \in Seq(Item) /\ Len(Kept(path)) = 0
        BY <2>1
  <2> QED BY <1>2, <2>2
<1>3. CASE i # 0
  <2>1. i \in 1 .. Len(stack)
        BY <1>1, <1>3
  <2>2. front \in Seq(Item) /\ Len(front) = i - 1 /\ \A j \in 1 .. i - 1 : front[j] = stack[j]
        BY <1>1, <2>1, SubSeqProperties
  <2>3. \A j \in 1 .. i - 1 : ~stack[j].marker
        BY <1>1, <2>1 DEF StackIsChain
  <2>4. \A item : StillThere(item, item, path)
        BY DEF StillThere
  <2>5. CASE stack[i].marker
    <3>1. Kept(path) = front
          BY <1>3, <2>5 DEF Kept
    <3> HIDE DEF i, front
    <3> QED BY <1>1, <2>1, <2>2, <2>3, <2>4, <2>5, <3>1 DEF i
  <2>6. CASE ~stack[i].marker
    <3>1. Kept(path) = front \o <<last>>
          BY <1>3, <2>6 DEF Kept
    <3>2. stack[i] \in Item
          BY <1>1, <2>1
    <3>3. stack[i].value \in SUBSET Data
          BY <3>2, ItemFields
    <3>4. /\ Without(stack[i].value, path) \in SUBSET Data
          /\ Without(stack[i].value, path) \subseteq stack[i].value
          /\ \A leaf \in stack[i].value :
                ~IsPrefix(path, leaf) => leaf \in Without(stack[i].value, path)
          BY <3>3, WithoutTakes
    <3>5. last = [stack[i] EXCEPT !.value = Without(stack[i].value, path)]
          BY <3>2 DEF Item
    <3>6. /\ last \in Item
          /\ last.path = stack[i].path
          /\ last.value = Without(stack[i].value, path)
          /\ last.marker = stack[i].marker
          BY <3>2, <3>4, <3>5, ItemWith
    <3>7. StillThere(stack[i], last, path) /\ ~last.marker
          BY <2>6, <3>4, <3>6 DEF StillThere
    <3> HIDE DEF i, front, last
    <3>8. /\ Kept(path) \in Seq(Item)
          /\ Len(Kept(path)) = i
          /\ \A j \in 1 .. i - 1 : Kept(path)[j] = front[j]
          /\ Kept(path)[i] = last
          BY <2>1, <2>2, <3>1, <3>6
    <3>9. \A j \in 1 .. i - 1 : Kept(path)[j] = stack[j]
          BY <2>2, <3>8
    <3>10. \A j \in 1 .. i : StillThere(stack[j], Kept(path)[j], path) /\ ~Kept(path)[j].marker
      <4> TAKE j \in 1 .. i
      <4>1. CASE j = i
            BY <4>1, <3>7, <3>8
      <4>2. CASE j # i
        <5>1. j \in 1 .. i - 1
              BY <2>1, <4>2
        <5> QED BY <5>1, <2>3, <2>4, <3>9
      <4> QED BY <4>1, <4>2
    <3> QED BY <2>1, <3>8, <3>10 DEF i
  <2> QED BY <2>5, <2>6
<1> QED BY <1>2, <1>3

(* What adding an item makes of the others: one of them may get its value.   *)
LEMMA AddedStack ==
    ASSUME NEW items \in Seq(Item), NEW new \in Item, ~new.marker
    PROVE  LET added == Added(items, new)
               n == Len(items) IN
           /\ added \in Seq(Item)
           /\ Len(added) = n + 1
           /\ \A j \in 1 .. n :
                  /\ added[j].path = items[j].path
                  /\ added[j].marker => items[j].marker
                  /\ items[j].value \subseteq added[j].value
                  /\ added[j].value \subseteq items[j].value \cup new.value
           /\ added[n + 1].path = new.path
           /\ added[n + 1].value \subseteq new.value
           /\ added[n + 1].marker => added[n + 1].value = {}
           /\ \E j \in 1 .. n + 1 : new.value \subseteq added[j].value
<1> DEFINE I == {j \in DOMAIN items : items[j].age = new.age /\ items[j].scope = new.scope}
           i == Innermost(I)
           n == Len(items)
<1>1. I \subseteq 1 .. n /\ n \in Nat
      OBVIOUS
<1>2. i \in 0 .. n
      BY <1>1, InnermostIsLast
<1>3. new.value \in SUBSET Data
      BY ItemFields
<1>4. CASE i = 0
  <2>1. Added(items, new) = Append(items, new)
        BY <1>4 DEF Added
  <2>2. /\ Added(items, new) \in Seq(Item)
        /\ Len(Added(items, new)) = n + 1
        /\ \A j \in 1 .. n : Added(items, new)[j] = items[j]
        /\ Added(items, new)[n + 1] = new
        BY <2>1
  <2>3. n + 1 \in 1 .. n + 1
        BY <1>1
  <2> QED BY <2>2, <2>3
<1>5. CASE i # 0
  <2> DEFINE merged == [items[i] EXCEPT !.value = items[i].value \cup new.value, !.marker = FALSE]
             others == [items EXCEPT ![i] = merged]
             marker == [new EXCEPT !.value = {}, !.marker = TRUE]
  <2>1. items[i] \in Item /\ i \in 1 .. n
        BY <1>2, <1>5
  <2>2. items[i].value \cup new.value \in SUBSET Data
        BY <2>1, <1>3, ItemFields
  <2>3. /\ merged \in Item /\ merged.path = items[i].path /\ ~merged.marker
        /\ merged.value = items[i].value \cup new.value
        BY <2>1, <2>2, ItemMarked
  <2>4. marker \in Item /\ marker.path = new.path /\ marker.value = {} /\ marker.marker
        BY ItemMarked
  <2>5. Added(items, new) = Append(others, marker)
    <3>1. [items EXCEPT ![i].value = @ \cup new.value, ![i].marker = FALSE] = others
          BY <2>1 DEF Item
    <3> QED BY <1>5, <3>1 DEF Added
  <2> HIDE DEF merged, marker, i
  <2>6. /\ others \in Seq(Item) /\ Len(others) = n
        /\ others[i] = merged
        /\ \A j \in 1 .. n : j # i => others[j] = items[j]
        BY <2>1, <2>3
  <2> HIDE DEF others
  <2>7. /\ Added(items, new) \in Seq(Item)
        /\ Len(Added(items, new)) = n + 1
        /\ \A j \in 1 .. n : Added(items, new)[j] = others[j]
        /\ Added(items, new)[n + 1] = marker
        BY <2>4, <2>5, <2>6
  <2>8. \A j \in 1 .. n :
            /\ others[j].path = items[j].path
            /\ others[j].marker => items[j].marker
            /\ items[j].value \subseteq others[j].value
            /\ others[j].value \subseteq items[j].value \cup new.value
    <3> TAKE j \in 1 .. n
    <3>1. CASE j = i
          BY <3>1, <2>3, <2>6
    <3>2. CASE j # i
          BY <3>2, <2>6
    <3> QED BY <3>1, <3>2
  <2>9. new.value \subseteq Added(items, new)[i].value /\ i \in 1 .. n + 1
        BY <2>1, <2>3, <2>6, <2>7
  <2> QED BY <2>4, <2>7, <2>8, <2>9
<1> QED BY <1>4, <1>5

-----------------------------------------------------------------------------
(* What a visit makes of the stack: an outer part of the old one, as it was  *)
(* but for what is below the path, then the new hint if its path has a       *)
(* value.                                                                    *)
Visited(old, new, n, path, value) ==
    /\ n \in Nat /\ n <= Len(old) /\ n <= Len(new)
    /\ \A j \in 1 .. n :
           /\ new[j].path = old[j].path
           /\ ~new[j].marker
           /\ new[j].value \subseteq old[j].value \cup value
           /\ \A leaf \in old[j].value : leaf \in new[j].value \/ leaf \in value
    /\ \A j \in 1 .. Len(new) : j \notin 1 .. n =>
           /\ new[j].path = path
           /\ new[j].value \subseteq value
           /\ new[j].marker => new[j].value = {}
           /\ j = n + 1
    /\ \A leaf \in value : \E j \in 1 .. Len(new) : leaf \in new[j].value

LEMMA OptionTyped ==
    ASSUME NEW S, NEW option \in S \cup {None}, NEW default
    PROVE  Or(option, default) \in S \cup {default}
BY DEF Or

LEMMA VisitStack ==
    ASSUME TypeOK, StackIsChain, NEW path \in HintPaths, ProcessHint(path)
    PROVE  /\ stack' \in Seq(Item)
           /\ Visited(stack, stack', Len(Kept(path)), path, Under(Data, path))
<1> DEFINE kept == Kept(path)
           value == Under(Data, path)
           i == Enclosing(path)
           age == Or(given[path].age, IF i = 0 THEN 0 ELSE stack[i].age)
           scope == Or(given[path].scope, IF i = 0 THEN "PUBLIC" ELSE stack[i].scope)
           new == [path |-> path, value |-> value, marker |-> FALSE, age |-> age, scope |-> scope]
<1>1. i \in 0 .. Len(stack) /\ stack \in Seq(Item) /\ Len(stack) \in Nat
      BY EnclosingIsLast DEF TypeOK
<1>2. path \in hints /\ path \in DOMAIN given /\ given[path] \in Directive
      BY DEF ProcessHint, IsFirst, TypeOK
<1>3. i # 0 => stack[i] \in Item
      BY <1>1
<1>4. age \in Ages \cup {0}
  <2>1. given[path].age \in Ages \cup {None}
        BY <1>2 DEF Directive
  <2>2. (IF i = 0 THEN 0 ELSE stack[i].age) \in Ages \cup {0}
        BY <1>3, ItemFields
  <2> QED BY <2>1, <2>2, OptionTyped
<1>5. scope \in Scopes \cup {"PUBLIC"}
  <2>1. given[path].scope \in Scopes \cup {None}
        BY <1>2 DEF Directive
  <2>2. (IF i = 0 THEN "PUBLIC" ELSE stack[i].scope) \in Scopes \cup {"PUBLIC"}
        BY <1>3, ItemFields
  <2> QED BY <2>1, <2>2, OptionTyped
<1>6. value \in SUBSET Data /\ \A leaf \in Data : leaf \in value <=> IsPrefix(path, leaf)
      BY DEF Under
<1>7. stack' = IF value = {} THEN kept ELSE Added(kept, new)
      BY DEF ProcessHint
<1> HIDE DEF age, scope, value
<1>8. new \in Item /\ new.path = path /\ new.value = value /\ ~new.marker
      BY <1>4, <1>5, <1>6 DEF Item
<1>9. /\ kept \in Seq(Item)
      /\ Len(kept) <= i
      /\ \A j \in 1 .. Len(kept) : StillThere(stack[j], kept[j], path) /\ ~kept[j].marker
      BY KeptStack
<1> HIDE DEF new, kept, i
<1>10. Len(kept) \in Nat /\ Len(kept) <= Len(stack)
      BY <1>1, <1>9
<1>11. ASSUME NEW j \in 1 .. Len(kept)
       PROVE  /\ kept[j].path = stack[j].path /\ ~kept[j].marker
              /\ kept[j].value \subseteq stack[j].value
              /\ \A leaf \in stack[j].value : leaf \in kept[j].value \/ leaf \in value
  <2>1. j \in 1 .. Len(stack)
        BY <1>10
  <2>2. stack[j].value \subseteq Data
        BY <1>1, <2>1, ItemFields
  <2> QED BY <1>6, <1>9, <2>2 DEF StillThere
<1>12. CASE value = {}
  <2>1. stack' = kept
        BY <1>7, <1>12
  <2>2. Visited(stack, kept, Len(kept), path, value)
        BY <1>10, <1>11, <1>12 DEF Visited
  <2> QED BY <1>9, <2>1, <2>2 DEF kept, value
<1>13. CASE value # {}
  <2> DEFINE added == Added(kept, new)
             n == Len(kept)
  <2>1. stack' = added
        BY <1>7, <1>13
  <2>0. /\ added \in Seq(Item)
        /\ Len(added) = n + 1
        /\ \A j \in 1 .. n :
               /\ added[j].path = kept[j].path
               /\ added[j].marker => kept[j].marker
               /\ kept[j].value \subseteq added[j].value
               /\ added[j].value \subseteq kept[j].value \cup new.value
        /\ added[n + 1].path = new.path
        /\ added[n + 1].value \subseteq new.value
        /\ added[n + 1].marker => added[n + 1].value = {}
        /\ \E j \in 1 .. n + 1 : new.value \subseteq added[j].value
    <3>1. kept \in Seq(Item) /\ new \in Item /\ ~new.marker
          BY <1>8, <1>9
    <3> HIDE <1>8, <1>9
    <3> QED BY <3>1, AddedStack
  <2>2. /\ added \in Seq(Item)
        /\ Len(added) = n + 1
        /\ \A j \in 1 .. n :
               /\ added[j].path = kept[j].path
               /\ added[j].marker => kept[j].marker
               /\ kept[j].value \subseteq added[j].value
               /\ added[j].value \subseteq kept[j].value \cup value
        /\ added[n + 1].path = path
        /\ added[n + 1].value \subseteq value
        /\ added[n + 1].marker => added[n + 1].value = {}
        /\ \E j \in 1 .. n + 1 : value \subseteq added[j].value
        BY <1>8, <2>0
  <2> HIDE DEF added
  <2>3. \A j \in 1 .. n :
           /\ added[j].path = stack[j].path
           /\ ~added[j].marker
           /\ added[j].value \subseteq stack[j].value \cup value
           /\ \A leaf \in stack[j].value : leaf \in added[j].value \/ leaf \in value
        BY <1>11, <2>2
  <2>4. \A j \in 1 .. Len(added) : j \notin 1 .. n => j = n + 1
        BY <1>10, <2>2
  <2>5. \A leaf \in value : \E j \in 1 .. Len(added) : leaf \in added[j].value
        BY <2>2
  <2>6. n <= Len(added)
        BY <1>10, <2>2
  <2>7. Visited(stack, added, n, path, value)
        BY <1>10, <2>2, <2>3, <2>4, <2>5, <2>6 DEF Visited
  <2> QED BY <2>1, <2>2, <2>7 DEF kept, value
<1> QED BY <1>12, <1>13

-----------------------------------------------------------------------------
(* The stack holds hints that have been visited, a marker holds no value,    *)
(* and the work is done when nothing is left to visit or to hand over.       *)
StackIsVisited == \A j \in DOMAIN stack : stack[j].path \in DOMAIN given \ hints
MarkersAreEmpty == \A j \in DOMAIN stack : stack[j].marker => stack[j].value = {}
DoneIsOver == done => hints = {} /\ stack = <<>>

(* Every leaf below a visited hint is in a value, on the stack or handed     *)
(* over, and every leaf of a value is below a hint.                          *)
Held(leaf) == (\E j \in DOMAIN stack : leaf \in stack[j].value) \/ Cached(leaf) # {}
VisitedAreHeld ==
    \A p \in DOMAIN given \ hints : \A leaf \in Data : IsPrefix(p, leaf) => Held(leaf)
HeldAreHinted == \A leaf \in Data : Held(leaf) => Hinted(leaf) # {}

HintsInv ==
    /\ TypeOK /\ StackIsChain
    /\ StackIsVisited /\ MarkersAreEmpty /\ DoneIsOver
    /\ VisitedAreHeld /\ HeldAreHinted

LEMMA InitHints == Init => HintsInv
<1> SUFFICES ASSUME Init PROVE HintsInv
    OBVIOUS
<1>1. /\ hints = DOMAIN given /\ stack = <<>> /\ compressed = {} /\ done = FALSE
      BY DEF Init
<1>2. DOMAIN given \subseteq HintPaths /\ \A p \in DOMAIN given : given[p] \in Directive
      BY DEF Init
<1>3. DOMAIN stack = {} /\ stack \in Seq(Item)
      BY <1>1
<1>4. TypeOK
      BY <1>1, <1>2, <1>3 DEF TypeOK
<1>5. StackIsChain /\ StackIsVisited /\ MarkersAreEmpty /\ DoneIsOver
      BY <1>1, <1>3 DEF StackIsChain, StackIsVisited, MarkersAreEmpty, DoneIsOver
<1>6. \A leaf : ~Held(leaf)
      BY <1>1, <1>3 DEF Held, Cached
<1>7. VisitedAreHeld /\ HeldAreHinted
      BY <1>1, <1>6 DEF VisitedAreHeld, HeldAreHinted
<1> QED BY <1>4, <1>5, <1>7 DEF HintsInv

LEMMA LeftItems ==
    ASSUME NEW path, NEW j \in Enclosing(path) + 1 .. Len(stack), ~stack[j].marker
    PROVE  stack[j] \in Left(path)
BY DEF Left, IsValue

LEMMA VisitHints ==
    ASSUME HintsInv, NEW path \in HintPaths, ProcessHint(path)
    PROVE  HintsInv'
<1> DEFINE value == Under(Data, path)
           n == Len(Kept(path))
           i == Enclosing(path)
<1> USE DEF HintsInv
<1>1. /\ path \in hints /\ path \in DOMAIN given /\ hints' = hints \ {path}
      /\ compressed' = compressed \cup Left(path)
      /\ UNCHANGED given /\ UNCHANGED done
      BY DEF ProcessHint, IsFirst, TypeOK
<1>2. stack' \in Seq(Item) /\ Visited(stack, stack', n, path, value)
      BY VisitStack
<1>3. stack \in Seq(Item) /\ Len(stack) \in Nat /\ Len(stack') \in Nat
      BY <1>2 DEF TypeOK
<1>4. /\ i \in 0 .. Len(stack)
      /\ i # 0 => IsPrefix(stack[i].path, path)
      BY EnclosingIsLast
<1>5. /\ n <= i
      /\ \A j \in 1 .. i : j \in 1 .. n \/ stack[j].marker
      BY KeptStack
<1>6. Left(path) \subseteq Item
      /\ \A item \in Left(path) : \E j \in 1 .. Len(stack) : item = stack[j]
  <2>1. \A item \in Left(path) : \E j \in i + 1 .. Len(stack) : item = stack[j]
        BY DEF Left
  <2>2. \A j \in i + 1 .. Len(stack) : j \in 1 .. Len(stack)
        BY <1>3, <1>4
  <2>4. \A item \in Left(path) : \E j \in 1 .. Len(stack) : item = stack[j]
        BY <2>1, <2>2
  <2>5. Left(path) \subseteq Item
        BY <1>3, <2>4
  <2> QED BY <2>4, <2>5
<1>7. value \in SUBSET Data /\ \A leaf \in Data : leaf \in value <=> IsPrefix(path, leaf)
      BY DEF Under
<1> HIDE DEF value, n, i
<1>8. TypeOK'
  <2>1. hints' \subseteq DOMAIN given
        BY <1>1 DEF TypeOK
  <2>2. compressed' \subseteq Item
        BY <1>1, <1>6 DEF TypeOK
  <2> QED BY <1>1, <1>2, <2>1, <2>2 DEF TypeOK
<1>9. /\ n \in Nat /\ n <= Len(stack) /\ n <= Len(stack')
      /\ \A j \in 1 .. n :
            /\ stack'[j].path = stack[j].path
            /\ ~stack'[j].marker
            /\ stack'[j].value \subseteq stack[j].value \cup value
            /\ \A leaf \in stack[j].value : leaf \in stack'[j].value \/ leaf \in value
      /\ \A j \in 1 .. Len(stack') : j \notin 1 .. n =>
            /\ stack'[j].path = path
            /\ stack'[j].value \subseteq value
            /\ stack'[j].marker => stack'[j].value = {}
            /\ j = n + 1
      /\ \A leaf \in value : \E j \in 1 .. Len(stack') : leaf \in stack'[j].value
      BY <1>2 DEF Visited
<1>10. DOMAIN stack = 1 .. Len(stack) /\ DOMAIN stack' = 1 .. Len(stack')
      BY <1>2, <1>3
<1>11. \A j \in 1 .. n : j \in 1 .. Len(stack)
      BY <1>3, <1>9
<1>12. StackIsChain'
  <2>1. ASSUME NEW j \in 1 .. n
        PROVE  IsStrictPrefix(stack[j].path, path)
    <3>1. j \in 1 .. Len(stack) /\ i \in 1 .. Len(stack) /\ j <= i
          BY <1>3, <1>4, <1>5, <1>9
    <3>2. stack[j].path \in Seq(Nat) /\ stack[i].path \in Seq(Nat) /\ path \in Seq(Nat)
      <4>1. stack[j] \in Item /\ stack[i] \in Item
            BY <1>3, <3>1
      <4> QED BY <4>1, ItemFields, PathsAreNames
    <3>3. IsPrefix(stack[i].path, path)
          BY <1>4, <3>1
    <3>4. CASE j < i
      <4>1. IsPrefix(stack[j].path, stack[i].path)
            BY <1>10, <3>1, <3>4 DEF StackIsChain, IsStrictPrefix
      <4>2. IsPrefix(stack[j].path, path)
            BY <3>2, <3>3, <4>1, PrefixIsTransitive
      <4>3. stack[j].path # path
            BY <1>1, <1>10, <3>1 DEF StackIsVisited
      <4> QED BY <4>2, <4>3 DEF IsStrictPrefix
    <3>5. CASE j = i
      <4>1. stack[j].path # path
            BY <1>1, <1>10, <3>1 DEF StackIsVisited
      <4> QED BY <3>3, <3>5, <4>1 DEF IsStrictPrefix
    <3> QED BY <3>1, <3>4, <3>5
  <2>2. ASSUME NEW j \in 1 .. Len(stack'), NEW k \in 1 .. Len(stack'), j < k
        PROVE  IsStrictPrefix(stack'[j].path, stack'[k].path) /\ ~stack'[j].marker
    <3>1. j \in 1 .. n
          BY <1>3, <1>9, <2>2
    <3>2. CASE k \in 1 .. n
      <4>1. IsStrictPrefix(stack[j].path, stack[k].path)
            BY <1>10, <1>11, <2>2, <3>1, <3>2 DEF StackIsChain
      <4> QED BY <1>9, <3>1, <3>2, <4>1
    <3>3. CASE k \notin 1 .. n
          BY <1>9, <2>1, <3>1, <3>3
    <3> QED BY <3>2, <3>3
  <2> QED BY <1>10, <2>2 DEF StackIsChain
<1>13. StackIsVisited'
  <2>1. ASSUME NEW j \in 1 .. Len(stack')
        PROVE  stack'[j].path \in DOMAIN given \ hints'
    <3>1. CASE j \in 1 .. n
          BY <1>1, <1>9, <1>10, <1>11, <3>1 DEF StackIsVisited
    <3>2. CASE j \notin 1 .. n
          BY <1>1, <1>9, <3>2
    <3> QED BY <3>1, <3>2
  <2> QED BY <1>1, <1>10, <2>1 DEF StackIsVisited
<1>14. MarkersAreEmpty'
      BY <1>9, <1>10 DEF MarkersAreEmpty
<1>15. DoneIsOver'
      BY <1>1 DEF DoneIsOver
<1>16. VisitedAreHeld'
  <2>1. ASSUME NEW p \in DOMAIN given \ hints', NEW leaf \in Data, IsPrefix(p, leaf)
        PROVE  Held(leaf)'
    <3>1. CASE leaf \in value
          BY <1>9, <1>10, <3>1 DEF Held
    <3>2. CASE leaf \notin value
      <4>1. p # path
            BY <1>7, <2>1, <3>2
      <4>2. Held(leaf)
            BY <1>1, <2>1, <4>1 DEF VisitedAreHeld
      <4>3. CASE Cached(leaf) # {}
            BY <1>1, <4>3 DEF Held, Cached
      <4>4. CASE \E j \in DOMAIN stack : leaf \in stack[j].value
        <5>1. PICK j \in 1 .. Len(stack) : leaf \in stack[j].value
              BY <1>10, <4>4
        <5>2. ~stack[j].marker
              BY <1>10, <5>1 DEF MarkersAreEmpty
        <5>3. CASE j \in 1 .. n
          <6>1. leaf \in stack'[j].value /\ j \in 1 .. Len(stack')
                BY <1>3, <1>9, <3>2, <5>1, <5>3
          <6> QED BY <1>10, <6>1 DEF Held
        <5>4. CASE j \notin 1 .. n
          <6>1. j \in i + 1 .. Len(stack)
                BY <1>3, <1>4, <1>5, <5>2, <5>4
          <6>2. stack[j] \in Left(path)
                BY <5>2, <6>1, LeftItems DEF i
          <6>3. stack[j] \in compressed'
                BY <1>1, <6>2
          <6> QED BY <5>1, <6>3 DEF Held, Cached
        <5> QED BY <5>3, <5>4
      <4> QED BY <4>2, <4>3, <4>4 DEF Held
    <3> QED BY <3>1, <3>2
  <2> QED BY <1>1, <2>1 DEF VisitedAreHeld
<1>17. HeldAreHinted'
  <2>1. ASSUME NEW leaf \in Data, Held(leaf)'
        PROVE  Held(leaf) \/ leaf \in value
    <3>1. CASE \E j \in DOMAIN stack' : leaf \in stack'[j].value
      <4>1. PICK j \in 1 .. Len(stack') : leaf \in stack'[j].value
            BY <1>10, <3>1
      <4>2. CASE j \in 1 .. n
            BY <1>9, <1>10, <1>11, <4>1, <4>2 DEF Held
      <4>3. CASE j \notin 1 .. n
            BY <1>9, <4>1, <4>3
      <4> QED BY <4>2, <4>3
    <3>2. CASE Cached(leaf)' # {}
      <4>1. PICK item \in compressed' : leaf \in item.value
            BY <3>2 DEF Cached
      <4>2. CASE item \in compressed
            BY <4>1, <4>2 DEF Held, Cached
      <4>3. CASE item \in Left(path)
        <5>1. PICK j \in 1 .. Len(stack) : item = stack[j]
              BY <1>6, <4>3
        <5> QED BY <1>10, <4>1, <5>1 DEF Held
      <4> QED BY <1>1, <4>1, <4>2, <4>3
    <3> QED BY <2>1, <3>1, <3>2 DEF Held
  <2>2. \A leaf \in value : Hinted(leaf) # {}
        BY <1>1, <1>7 DEF Hinted
  <2>3. \A leaf \in Data : Held(leaf)' => Hinted(leaf) # {}
        BY <2>1, <2>2 DEF HeldAreHinted
  <2> QED BY <1>1, <2>3 DEF HeldAreHinted, Hinted
<1> QED BY <1>8, <1>12, <1>13, <1>14, <1>15, <1>16, <1>17

LEMMA FinishHints ==
    ASSUME HintsInv, Finish
    PROVE  HintsInv'
<1> USE DEF HintsInv
<1>1. /\ hints = {} /\ stack' = <<>> /\ done' = TRUE
      /\ compressed' = compressed \cup {item \in ToSet(stack) : HasValue(item)}
      /\ UNCHANGED given /\ UNCHANGED hints
      BY DEF Finish
<1>2. DOMAIN stack' = {} /\ stack' \in Seq(Item)
      BY <1>1
<1>3. ToSet(stack) \subseteq Item
      /\ \A item : item \in ToSet(stack) <=> \E j \in DOMAIN stack : item = stack[j]
      BY DEF TypeOK, ToSet
<1>4. TypeOK'
  <2>1. compressed' \subseteq Item
        BY <1>1, <1>3 DEF TypeOK
  <2> QED BY <1>1, <1>2, <2>1 DEF TypeOK
<1>5. StackIsChain' /\ StackIsVisited' /\ MarkersAreEmpty' /\ DoneIsOver'
      BY <1>1, <1>2 DEF StackIsChain, StackIsVisited, MarkersAreEmpty, DoneIsOver
<1>6. ASSUME NEW leaf \in Data
      PROVE  Held(leaf)' <=> Held(leaf)
  <2>1. ASSUME Held(leaf)
        PROVE  Held(leaf)'
    <3>1. CASE Cached(leaf) # {}
          BY <1>1, <3>1 DEF Held, Cached
    <3>2. CASE \E j \in DOMAIN stack : leaf \in stack[j].value
          BY <1>1, <1>3, <3>2 DEF Held, Cached, HasValue
    <3> QED BY <2>1, <3>1, <3>2 DEF Held
  <2>2. ASSUME Held(leaf)'
        PROVE  Held(leaf)
    <3>1. PICK item \in compressed' : leaf \in item.value
          BY <1>2, <2>2 DEF Held, Cached
    <3> QED BY <1>1, <1>3, <3>1 DEF Held, Cached
  <2> QED BY <2>1, <2>2
<1>7. VisitedAreHeld'
      BY <1>1, <1>6 DEF VisitedAreHeld
<1>8. HeldAreHinted'
  <2>1. \A leaf \in Data : Held(leaf)' => Hinted(leaf) # {}
        BY <1>6 DEF HeldAreHinted
  <2> QED BY <1>1, <2>1 DEF HeldAreHinted, Hinted
<1> QED BY <1>4, <1>5, <1>7, <1>8

LEMMA StutterHints ==
    ASSUME HintsInv, UNCHANGED vars
    PROVE  HintsInv'
BY DEF HintsInv, TypeOK, StackIsChain, StackIsVisited, MarkersAreEmpty, DoneIsOver,
       VisitedAreHeld, HeldAreHinted, Held, Cached, Hinted, vars

LEMMA SpecHints == Spec => []HintsInv
<1>1. HintsInv /\ [Next]_vars => HintsInv'
  <2> SUFFICES ASSUME HintsInv, [Next]_vars PROVE HintsInv'
      OBVIOUS
  <2>1. CASE \E path \in HintPaths : ProcessHint(path)
        BY <2>1, VisitHints
  <2>2. CASE Finish
        BY <2>2, FinishHints
  <2>3. CASE Terminated \/ UNCHANGED vars
        BY <2>3, StutterHints DEF Terminated
  <2> QED BY <2>1, <2>2, <2>3 DEF Next
<1> QED BY <1>1, InitHints, PTL DEF Spec

-----------------------------------------------------------------------------
(* What is stacked and what is cached are values of the response, each with  *)
(* an age and a scope.                                                       *)
THEOREM HintsTyped == Spec => []TypeOK
<1>1. HintsInv => TypeOK
      BY DEF HintsInv
<1> QED BY <1>1, SpecHints, PTL

(* However the hints lie, each stacked one encloses the next, and only the   *)
(* innermost can be a marker: add_to_stack merges no value into a Null.      *)
THEOREM StackIsAlwaysChain == Spec => []StackIsChain
<1>1. HintsInv => StackIsChain
      BY DEF HintsInv
<1> QED BY <1>1, SpecHints, PTL

(* A leaf below a hint is in a cached value when the work is done, through   *)
(* all the taking apart and merging of compress_cache_hints.                 *)
THEOREM NothingIsLost == Spec => []Complete
<1>1. HintsInv => Complete
  <2> SUFFICES ASSUME HintsInv, done, NEW leaf \in Data, Hinted(leaf) # {}
               PROVE  Cached(leaf) # {}
      BY DEF Complete
  <2>1. hints = {} /\ stack = <<>>
        BY DEF HintsInv, DoneIsOver
  <2>2. PICK p \in DOMAIN given : IsPrefix(p, leaf)
        BY DEF Hinted
  <2>3. Held(leaf)
        BY <2>1, <2>2 DEF HintsInv, VisitedAreHeld
  <2> QED BY <2>1, <2>3 DEF Held
<1> QED BY <1>1, SpecHints, PTL

(* Nothing is cached that no hint allows to be cached.                       *)
THEOREM OnlyHintedIsCached == Spec => []OnlyHintedCached
<1>1. HintsInv => OnlyHintedCached
      BY DEF HintsInv, HeldAreHinted, Held, OnlyHintedCached
<1> QED BY <1>1, SpecHints, PTL
=============================================================================

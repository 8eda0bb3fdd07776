----------------------------- MODULE ParserProofs -----------------------------
(* The proofs about Parser: for documents of every length and brackets of    *)
(* every depth (MaxDepth plays no part in them).                             *)
EXTENDS Parser, SequenceTheorems, TLAPS

(* What reading a token does to the calls and the stack.                     *)
Turn ==
    \/ Fail
    \/ \E pc \in Pc : frames # <<>> /\ Move(pc)
    \/ \E where \in Item : frames = <<>> /\ MoveItem(where)
    \/ \E back, pc \in Pc, fn \in Function : frames # <<>> /\ Call(back, fn, pc)
    \/ \E where \in Item, fn \in Function, pc \in Pc :
          frames = <<>> /\ CallFromItem(where, fn, pc)
    \/ \E t \in Token : frames # <<>> /\ Closes(t) /\ Return(t)
    \/ \E t \in Token : frames # <<>> /\ ObjectName(t)
    \/ /\ frames = <<>>
       /\ item' = "keyword" /\ shorthand' = FALSE
       /\ UNCHANGED <<frames, hierarchy, operations, outcome, history>>

(* Every handler takes one of those turns.                                   *)
LEMMA HandlerTurns ==
    ASSUME TypeOK, NEW t \in Token, Parse(t)
    PROVE  outcome = "running" /\ Turn
<1>1. CASE Document(t)
  BY <1>1 DEF Document, AtItem, Turn, Item, Function, Pc
<1>2. CASE Operation(t)
  BY <1>2 DEF Operation, AtItem, Turn, Item, Function, Pc
<1>3. CASE FragmentDefinition(t)
  BY <1>3 DEF FragmentDefinition, AtItem, Turn, Item, Function, Pc
<1>4. CASE Variables(t)
  BY <1>4 DEF Variables, NextVariable, At, Turn, Function, Pc
<1>5. CASE Fields(t)
  BY <1>5 DEF Fields, FieldStart, FieldEnd, Subfields, Parameterized, At, Turn, Function, Pc
<1>6. CASE Parameters(t)
  BY <1>6 DEF Parameters, At, Turn, Function, Pc
<1>7. CASE Object(t)
  BY <1>7 DEF Object, At, Turn, Function, Pc
<1>8. CASE ListItems(t)
  BY <1>8 DEF ListItems, At, Turn, Function, Pc
<1> QED
  BY <1>1, <1>2, <1>3, <1>4, <1>5, <1>6, <1>7, <1>8 DEF Parse

-----------------------------------------------------------------------------
(* Dropping the last element.                                                *)
LEMMA FrontOfSeq ==
    ASSUME NEW S, NEW s \in Seq(S)
    PROVE  /\ Front(s) \in Seq(S)
           /\ s # <<>> => /\ Len(Front(s)) = Len(s) - 1
                          /\ \A i \in 1 .. Len(s) - 1 : Front(s)[i] = s[i]
                          /\ Last(s) \in S
<1>1. Len(s) \in Nat
  OBVIOUS
<1>2. \A i \in 1 .. Len(s) - 1 : s[i] \in S
  OBVIOUS
<1>3. s # <<>> => Len(s) # 0 /\ Last(s) \in S
  BY <1>1 DEF Last
<1> DEFINE m == Len(s) - 1
<1>4. m \in Int
  BY <1>1
<1>5. /\ SubSeq(s, 1, m) \in Seq(S)
      /\ Len(SubSeq(s, 1, m)) = IF 1 <= m THEN m - 1 + 1 ELSE 0
      /\ \A i \in 1 .. m - 1 + 1 : SubSeq(s, 1, m)[i] = s[1 + i - 1]
  BY <1>2, <1>4, SubSeqProperties
<1>6. ASSUME NEW i \in 1 .. m PROVE SubSeq(s, 1, m)[i] = s[i]
  <2>1. i \in 1 .. m - 1 + 1 /\ 1 + i - 1 = i
    BY <1>4
  <2> QED
    BY <1>5, <2>1
<1>7. s # <<>> => Len(SubSeq(s, 1, m)) = m
  <2>1. s # <<>> => m \in Nat
    BY <1>1, <1>3
  <2>2. \A k \in Nat : k = IF 1 <= k THEN k - 1 + 1 ELSE 0
    OBVIOUS
  <2> QED
    BY <1>5, <2>1, <2>2
<1> QED
  BY <1>3, <1>5, <1>6, <1>7 DEF Front

Frame == [fn : Function, pc : Pc]

(* A caller that goes on elsewhere is still the same call.                   *)
LEMMA FrameMoved ==
    ASSUME NEW s \in Seq(Frame), s # <<>>, NEW pc \in Pc
    PROVE  LET r == [s EXCEPT ![Len(s)].pc = pc]
           IN  /\ r \in Seq(Frame)
               /\ Len(r) = Len(s)
               /\ \A i \in 1 .. Len(s) : r[i].fn = s[i].fn
<1> DEFINE n == Len(s)
           x == [s[n] EXCEPT !.pc = pc]
           r == [s EXCEPT ![n] = x]
<1>1. n \in Nat /\ n # 0 /\ n \in 1 .. n
  OBVIOUS
<1>2. s[n] \in Frame
  BY <1>1
<1>3. x \in Frame /\ x.fn = s[n].fn
  BY <1>2 DEF Frame
<1>4. r \in Seq(Frame) /\ Len(r) = Len(s)
  <2> HIDE DEF x
  <2> QED
    BY <1>1, <1>3, ExceptSeq
<1>5. ASSUME NEW i \in 1 .. Len(s) PROVE r[i].fn = s[i].fn
  <2> HIDE DEF x
  <2> DOMAIN s = 1 .. Len(s)
    OBVIOUS
  <2>1. r[i] = IF i = n THEN x ELSE s[i]
    OBVIOUS
  <2> QED
    BY <1>3, <2>1
<1> QED
  BY <1>4, <1>5

-----------------------------------------------------------------------------
(* Either no "]" has been read as a name and the stack is what is open, or   *)
(* the stack is short of the calls in progress for good: the document will   *)
(* not be accepted.                                                          *)
LockStep == hierarchy = opened /\ balanced /\ Len(opened) = Len(frames)
Short == Len(hierarchy) < Len(frames)
Descent == (LockStep \/ Short) /\ (outcome = "accepted" => frames = <<>>)

IInv == TypeOK /\ Descent

LEMMA InitIInv == Init => IInv /\ StackIsDescent
<1> SUFFICES ASSUME Init PROVE IInv /\ StackIsDescent
  OBVIOUS
<1>1. TypeOK
  <2>1. <<>> \in Seq(Frame) /\ <<>> \in Seq(Opening)
    OBVIOUS
  <2>2. /\ frames \in Seq(Frame) /\ hierarchy \in Seq(Opening)
        /\ opened \in Seq(Opening)
    BY <2>1 DEF Init
  <2>3. /\ shorthand \in BOOLEAN /\ balanced \in BOOLEAN
        /\ misnamed \in BOOLEAN
    BY DEF Init
  <2>4. item \in Item /\ operations \in 0 .. 2 /\ outcome \in {"running", "accepted", "error"}
    BY DEF Init, Item
  <2> QED
    BY <2>2, <2>3, <2>4 DEF TypeOK, Frame
<1>2. Descent
  BY DEF Init, Descent, LockStep
<1>3. StackIsDescent
  BY DEF Init, StackIsDescent
<1> QED
  BY <1>1, <1>2, <1>3 DEF IInv

(* Types.                                                                    *)
LEMMA TurnTyped == ASSUME TypeOK, outcome = "running", Turn PROVE TypeOK'
<1> USE DEF history
<1> /\ item \in Item /\ frames \in Seq(Frame) /\ hierarchy \in Seq(Opening)
    /\ shorthand \in BOOLEAN /\ operations \in 0 .. 2
    /\ opened \in Seq(Opening) /\ balanced \in BOOLEAN
    /\ misnamed \in BOOLEAN
  BY DEF TypeOK, Frame
<1> \A fn \in Function : Bracket(fn) \in Opening
  BY DEF Function, Bracket, Opening
<1> SUFFICES /\ item' \in Item /\ frames' \in Seq(Frame) /\ hierarchy' \in Seq(Opening)
             /\ shorthand' \in BOOLEAN /\ operations' \in 0 .. 2
             /\ outcome' \in {"running", "accepted", "error"}
             /\ opened' \in Seq(Opening) /\ balanced' \in BOOLEAN
             /\ misnamed' \in BOOLEAN
  BY DEF TypeOK, Frame
<1>1. CASE Fail
  BY <1>1 DEF Fail
<1>2. CASE \E pc \in Pc : frames # <<>> /\ Move(pc)
  <2> PICK pc \in Pc : frames # <<>> /\ Move(pc)
    BY <1>2
  <2>1. [frames EXCEPT ![Len(frames)].pc = pc] \in Seq(Frame)
    BY FrameMoved
  <2> QED
    BY <2>1 DEF Move
<1>3. CASE \E where \in Item : frames = <<>> /\ MoveItem(where)
  BY <1>3 DEF MoveItem
<1>4. CASE \E back, pc \in Pc, fn \in Function : frames # <<>> /\ Call(back, fn, pc)
  <2> PICK back \in Pc, pc \in Pc, fn \in Function : frames # <<>> /\ Call(back, fn, pc)
    BY <1>4
  <2>1. [frames EXCEPT ![Len(frames)].pc = back] \in Seq(Frame)
    BY FrameMoved
  <2>2. Append([frames EXCEPT ![Len(frames)].pc = back], [fn |-> fn, pc |-> pc]) \in Seq(Frame)
    BY <2>1 DEF Frame
  <2> QED
    BY <2>2 DEF Call, Called, Pushed
<1>5. CASE \E where \in Item, fn \in Function, pc \in Pc :
              frames = <<>> /\ CallFromItem(where, fn, pc)
  <2> PICK where \in Item, fn \in Function, pc \in Pc :
             frames = <<>> /\ CallFromItem(where, fn, pc)
    BY <1>5
  <2>1. Append(<<>>, [fn |-> fn, pc |-> pc]) \in Seq(Frame)
    BY DEF Frame
  <2> QED
    BY <2>1 DEF CallFromItem, Called, Pushed
<1>6. CASE \E t \in Token : frames # <<>> /\ Closes(t) /\ Return(t)
  <2>1. Front(frames) \in Seq(Frame)
    BY <1>6, FrontOfSeq
  <2>2. Front(hierarchy) \in Seq(Opening) /\ Front(opened) \in Seq(Opening)
    BY FrontOfSeq
  <2>3. /\ item' \in Item /\ operations' \in 0 .. 2
        /\ outcome' \in {"running", "accepted", "error"}
    <3>1. AfterItem \/ UNCHANGED <<operations, item, outcome>>
      BY <1>6 DEF Return
    <3>2. CASE AfterItem
      <4>1. operations' \in 0 .. 2
        BY <3>2 DEF AfterItem
      <4>2. item' \in Item
        BY <3>2 DEF AfterItem, Item
      <4>3. outcome' \in {"running", "accepted", "error"}
        BY <3>2 DEF AfterItem
      <4> QED
        BY <4>1, <4>2, <4>3
    <3> QED
      BY <3>1, <3>2
  <2>4. shorthand' \in BOOLEAN /\ misnamed' \in BOOLEAN
    BY <1>6 DEF Return
  <2>5. balanced' \in BOOLEAN
    BY <1>6 DEF Return
  <2>6. /\ frames' \in Seq(Frame) /\ hierarchy' \in Seq(Opening)
        /\ opened' \in Seq(Opening)
    BY <1>6, <2>1, <2>2 DEF Return
  <2> QED
    BY <2>3, <2>4, <2>5, <2>6
<1>7. CASE \E t \in Token : frames # <<>> /\ ObjectName(t)
  <2> PICK t \in Token : frames # <<>> /\ ObjectName(t)
    BY <1>7
  <2>1. [frames EXCEPT ![Len(frames)].pc = "colon"] \in Seq(Frame)
    BY "colon" \in Pc, FrameMoved DEF Pc
  <2>2. hierarchy # <<>> => Front(hierarchy) \in Seq(Opening)
    BY FrontOfSeq
  <2> QED
    BY <2>1, <2>2 DEF ObjectName
<1>8. CASE /\ frames = <<>>
           /\ item' = "keyword" /\ shorthand' = FALSE
           /\ UNCHANGED <<frames, hierarchy, operations, outcome, history>>
  BY <1>8 DEF Item
<1> QED
  BY <1>1, <1>2, <1>3, <1>4, <1>5, <1>6, <1>7, <1>8 DEF Turn

(* A turn keeps the stack in step, or short.                                 *)
LEMMA TurnDescends == ASSUME TypeOK, Descent, outcome = "running", Turn PROVE Descent'
<1> USE DEF history
<1> /\ frames \in Seq(Frame) /\ hierarchy \in Seq(Opening) /\ opened \in Seq(Opening)
  BY DEF TypeOK, Frame
<1> LockStep \/ Short
  BY DEF Descent
<1>1. CASE Fail
  BY <1>1 DEF Fail, Descent, LockStep, Short
<1>2. CASE \E pc \in Pc : frames # <<>> /\ Move(pc)
  <2> PICK pc \in Pc : frames # <<>> /\ Move(pc)
    BY <1>2
  <2>1. Len(frames') = Len(frames)
    BY FrameMoved DEF Move
  <2> QED
    BY <2>1 DEF Move, Descent, LockStep, Short
<1>3. CASE \E where \in Item : frames = <<>> /\ MoveItem(where)
  BY <1>3 DEF MoveItem, Descent, LockStep, Short
<1>4. CASE \E back, pc \in Pc, fn \in Function : frames # <<>> /\ Call(back, fn, pc)
  <2> PICK back \in Pc, pc \in Pc, fn \in Function : frames # <<>> /\ Call(back, fn, pc)
    BY <1>4
  <2> DEFINE moved == [frames EXCEPT ![Len(frames)].pc = back]
  <2>1. moved \in Seq(Frame) /\ Len(moved) = Len(frames)
    BY FrameMoved
  <2>2. frames' = Append(moved, [fn |-> fn, pc |-> pc])
    BY DEF Call, Called
  <2> HIDE DEF moved
  <2>3. Len(frames') = Len(frames) + 1
    BY <2>1, <2>2
  <2>4. /\ Len(hierarchy') = Len(hierarchy) + 1
        /\ Len(opened') = Len(opened) + 1
        /\ hierarchy = opened => hierarchy' = opened'
    BY DEF Call, Pushed
  <2> QED
    BY <2>3, <2>4 DEF Call, Descent, LockStep, Short
<1>5. CASE \E where \in Item, fn \in Function, pc \in Pc :
              frames = <<>> /\ CallFromItem(where, fn, pc)
  <2> PICK where \in Item, fn \in Function, pc \in Pc :
             frames = <<>> /\ CallFromItem(where, fn, pc)
    BY <1>5
  <2>1. ~Short
    BY DEF Short
  <2>2. Len(frames') = 1
    BY DEF CallFromItem, Called
  <2>3. Len(opened') = 1 /\ hierarchy' = opened'
    BY <2>1 DEF CallFromItem, Pushed, LockStep
  <2> QED
    BY <2>1, <2>2, <2>3 DEF CallFromItem, Descent, LockStep
<1>6. CASE \E t \in Token : frames # <<>> /\ Closes(t) /\ Return(t)
  <2> PICK t \in Token : frames # <<>> /\ Closes(t) /\ Return(t)
    BY <1>6
  <2>1. Len(frames') = Len(frames) - 1 /\ Len(hierarchy') = Len(hierarchy) - 1
    BY FrontOfSeq DEF Return, Closes
  <2>2. CASE LockStep
    <3>1. Len(opened') = Len(opened) - 1 /\ hierarchy' = opened'
      BY <2>2, FrontOfSeq DEF LockStep, Return
    <3>2. balanced'
      BY <2>2 DEF LockStep, Return, Closes, Matching
    <3> QED
      BY <2>1, <2>2, <3>1, <3>2 DEF LockStep, Descent, Return, AfterItem
  <2>3. CASE Short
    BY <2>1, <2>3 DEF Short, Descent, Return, AfterItem
  <2> QED
    BY <2>2, <2>3
<1>7. CASE \E t \in Token : frames # <<>> /\ ObjectName(t)
  <2> PICK t \in Token : frames # <<>> /\ ObjectName(t)
    BY <1>7
  <2>1. Len(frames') = Len(frames)
    BY "colon" \in Pc, FrameMoved DEF ObjectName, Pc
  <2>2. CASE hierarchy' = hierarchy
    BY <2>1, <2>2 DEF ObjectName, Descent, LockStep, Short
  <2>3. CASE hierarchy # <<>> /\ hierarchy' = Front(hierarchy)
    <3>1. Len(hierarchy') = Len(hierarchy) - 1
      BY <2>3, FrontOfSeq
    <3> QED
      BY <2>1, <3>1 DEF ObjectName, Descent, LockStep, Short
  <2> QED
    BY <2>2, <2>3 DEF ObjectName
<1>8. CASE /\ frames = <<>>
           /\ item' = "keyword" /\ shorthand' = FALSE
           /\ UNCHANGED <<frames, hierarchy, operations, outcome, history>>
  BY <1>8 DEF Descent, LockStep, Short
<1> QED
  BY <1>1, <1>2, <1>3, <1>4, <1>5, <1>6, <1>7, <1>8 DEF Turn

(* A turn keeps the stack that of the calls, unless it misreads a name.      *)
LEMMA TurnStacks ==
    ASSUME TypeOK, StackIsDescent, outcome = "running", Turn
    PROVE  StackIsDescent'
<1> USE DEF history
<1> SUFFICES ASSUME outcome' = "running", ~misnamed'
             PROVE  hierarchy' = [i \in DOMAIN frames' |-> Bracket(frames'[i].fn)]
  BY DEF StackIsDescent
<1> /\ frames \in Seq(Frame) /\ hierarchy \in Seq(Opening) /\ misnamed \in BOOLEAN
  BY DEF TypeOK, Frame
<1>0. ~misnamed => /\ Len(hierarchy) = Len(frames)
                   /\ \A i \in 1 .. Len(frames) : hierarchy[i] = Bracket(frames[i].fn)
  BY DEF StackIsDescent
(* It is enough to compare the two element by element.                       *)
<1>a. ASSUME frames' \in Seq(Frame), hierarchy' \in Seq(Opening),
             Len(hierarchy') = Len(frames'),
             \A i \in 1 .. Len(frames') : hierarchy'[i] = Bracket(frames'[i].fn)
      PROVE  hierarchy' = [i \in DOMAIN frames' |-> Bracket(frames'[i].fn)]
  BY <1>a
<1> TypeOK'
  BY TurnTyped
<1>b. frames' \in Seq(Frame) /\ hierarchy' \in Seq(Opening)
  BY DEF TypeOK, Frame
<1> SUFFICES /\ Len(hierarchy') = Len(frames')
             /\ \A i \in 1 .. Len(frames') : hierarchy'[i] = Bracket(frames'[i].fn)
  BY <1>a, <1>b
<1>1. CASE Fail
  BY <1>1 DEF Fail
<1>2. CASE \E pc \in Pc : frames # <<>> /\ Move(pc)
  <2> PICK pc \in Pc : frames # <<>> /\ Move(pc)
    BY <1>2
  <2>1. Len(frames') = Len(frames) /\ \A i \in 1 .. Len(frames) : frames'[i].fn = frames[i].fn
    BY FrameMoved DEF Move
  <2> QED
    BY <1>0, <2>1 DEF Move
<1>3. CASE \E where \in Item : frames = <<>> /\ MoveItem(where)
  BY <1>0, <1>3 DEF MoveItem
<1>4. CASE \E back, pc \in Pc, fn \in Function : frames # <<>> /\ Call(back, fn, pc)
  <2> PICK back \in Pc, pc \in Pc, fn \in Function : frames # <<>> /\ Call(back, fn, pc)
    BY <1>4
  <2> DEFINE moved == [frames EXCEPT ![Len(frames)].pc = back]
             called == [fn |-> fn, pc |-> pc]
  <2>1. /\ moved \in Seq(Frame) /\ Len(moved) = Len(frames)
        /\ \A i \in 1 .. Len(frames) : moved[i].fn = frames[i].fn
    BY FrameMoved
  <2>2. frames' = Append(moved, called) /\ called.fn = fn
    BY DEF Call, Called
  <2>3. hierarchy' = Append(hierarchy, Bracket(fn)) /\ ~misnamed
    BY DEF Call, Pushed
  <2> HIDE DEF moved, called
  <2>4. /\ Len(frames') = Len(frames) + 1
        /\ \A i \in 1 .. Len(frames) : frames'[i] = moved[i]
        /\ frames'[Len(frames) + 1] = called
    BY <2>1, <2>2
  <2>5. /\ Len(hierarchy') = Len(frames) + 1
        /\ \A i \in 1 .. Len(frames) : hierarchy'[i] = hierarchy[i]
        /\ hierarchy'[Len(frames) + 1] = Bracket(fn)
    BY <1>0, <2>3
  <2> QED
    BY <1>0, <2>1, <2>2, <2>3, <2>4, <2>5
<1>5. CASE \E where \in Item, fn \in Function, pc \in Pc :
              frames = <<>> /\ CallFromItem(where, fn, pc)
  <2> PICK where \in Item, fn \in Function, pc \in Pc :
             frames = <<>> /\ CallFromItem(where, fn, pc)
    BY <1>5
  <2>1. frames' = <<[fn |-> fn, pc |-> pc]>>
    BY DEF CallFromItem, Called
  <2>2. hierarchy' = <<Bracket(fn)>>
    <3>1. ~misnamed
      BY DEF CallFromItem
    <3>2. hierarchy = <<>>
      BY <1>0, <3>1
    <3> QED
      BY <3>2 DEF CallFromItem, Pushed
  <2> QED
    BY <2>1, <2>2
<1>6. CASE \E t \in Token : frames # <<>> /\ Closes(t) /\ Return(t)
  <2> PICK t \in Token : frames # <<>> /\ Closes(t) /\ Return(t)
    BY <1>6
  <2>1. /\ Len(frames') = Len(frames) - 1
        /\ \A i \in 1 .. Len(frames) - 1 : frames'[i] = frames[i]
    BY FrontOfSeq DEF Return
  <2>2. /\ Len(hierarchy') = Len(hierarchy) - 1
        /\ \A i \in 1 .. Len(hierarchy) - 1 : hierarchy'[i] = hierarchy[i]
    BY FrontOfSeq DEF Return, Closes
  <2>3. ~misnamed
    BY DEF Return
  <2> QED
    BY <1>0, <2>1, <2>2, <2>3
<1>7. CASE \E t \in Token : frames # <<>> /\ ObjectName(t)
  <2> PICK t \in Token : frames # <<>> /\ ObjectName(t)
    BY <1>7
  <2>1. /\ Len(frames') = Len(frames)
        /\ \A i \in 1 .. Len(frames) : frames'[i].fn = frames[i].fn
    <3>1. "colon" \in Pc
      BY DEF Pc
    <3>2. frames' = [frames EXCEPT ![Len(frames)].pc = "colon"]
      BY DEF ObjectName
    <3> QED
      BY <3>1, <3>2, FrameMoved
  <2>2. ~misnamed /\ hierarchy' = hierarchy
    <3>1. "]" \notin Value \cup Type
      BY DEF Value, Type, Name
    <3> QED
      BY <3>1 DEF ObjectName
  <2> QED
    BY <1>0, <2>1, <2>2
<1>8. CASE /\ frames = <<>>
           /\ item' = "keyword" /\ shorthand' = FALSE
           /\ UNCHANGED <<frames, hierarchy, operations, outcome, history>>
  BY <1>0, <1>8
<1> QED
  BY <1>1, <1>2, <1>3, <1>4, <1>5, <1>6, <1>7, <1>8 DEF Turn

-----------------------------------------------------------------------------
(* Every step keeps all of it.                                               *)
LEMMA NextIInv ==
    ASSUME IInv, StackIsDescent, [Next]_vars
    PROVE  IInv' /\ StackIsDescent'
<1>1. ASSUME NEW t \in Token, Parse(t) PROVE IInv' /\ StackIsDescent'
  BY <1>1, HandlerTurns, TurnTyped, TurnDescends, TurnStacks DEF IInv
<1>2. CASE EndOfString
  <2>1. UNCHANGED <<item, frames, hierarchy, shorthand, operations, history>>
    BY <1>2 DEF EndOfString
  <2>2. outcome' \in {"accepted", "error"} /\ (outcome' = "accepted" => frames = <<>>)
    BY <1>2 DEF EndOfString
  <2>3. TypeOK'
    BY <2>1, <2>2 DEF history, TypeOK, IInv
  <2>4. Descent'
    BY <2>1, <2>2 DEF history, IInv, Descent, LockStep, Short
  <2>5. StackIsDescent'
    BY <2>2 DEF StackIsDescent
  <2> QED
    BY <2>3, <2>4, <2>5 DEF IInv
<1>3. CASE UNCHANGED vars
  BY <1>3 DEF vars, IInv, TypeOK, Descent, LockStep, Short, StackIsDescent
<1> QED
  BY <1>1, <1>2, <1>3 DEF Next, Terminated

(* Whatever is read, the values stay of their types.                         *)
THEOREM ParserTyped == Spec => []TypeOK
<1>1. IInv => TypeOK
  BY DEF IInv
<1> QED
  BY <1>1, InitIInv, NextIInv, PTL DEF Spec

(* A document of any length that parse_query accepts has every bracket       *)
(* closed by its like.                                                       *)
THEOREM AcceptedBalanced == Spec => []AcceptedIsBalanced
<1>1. IInv => AcceptedIsBalanced
  <2> SUFFICES ASSUME IInv, outcome = "accepted"
               PROVE  balanced /\ opened = <<>> /\ hierarchy = <<>>
    BY DEF AcceptedIsBalanced
  <2>1. /\ frames = <<>> /\ Len(frames) = 0
        /\ hierarchy \in Seq(Opening) /\ opened \in Seq(Opening)
    BY DEF IInv, Descent, TypeOK
  <2>2. ~Short
    BY <2>1 DEF Short
  <2> QED
    BY <2>1, <2>2 DEF IInv, Descent, LockStep
<1> QED
  BY <1>1, InitIInv, NextIInv, PTL DEF Spec

(* Until an object reads a punctuator as a name, the shared stack is that of *)
(* the calls in progress.                                                    *)
THEOREM StackFollowsDescent == Spec => []StackIsDescent
  BY InitIInv, NextIInv, PTL DEF Spec
=============================================================================

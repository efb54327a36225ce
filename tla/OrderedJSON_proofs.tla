------------------------ MODULE OrderedJSON_proofs -------------------------
(***************************************************************************)
(* Machine-checked proof about OrderedJSON, for every text: the stack of   *)
(* parser states always has the shape the parser relies on, so that none   *)
(* of the checks it makes of itself ever fails.                            *)
(***************************************************************************)
EXTENDS OrderedJSON, SequenceTheorems, TLAPS

IsSeq(s) == \E S : s \in Seq(S)

\* Appending to a sequence.
LEMMA Appended ==
    ASSUME NEW s, IsSeq(s), NEW e
    PROVE  /\ IsSeq(Append(s, e))
           /\ Append(s, e) # <<>>
           /\ Len(s) \in Nat /\ Len(Append(s, e)) = Len(s) + 1
           /\ \A i \in 1..Len(s) : Append(s, e)[i] = s[i]
           /\ Append(s, e)[Len(s) + 1] = e
<1>1. PICK S : s \in Seq(S)
  BY DEF IsSeq
<1>2. s \in Seq(S \union {e})
  BY <1>1
<1>3. Append(s, e) \in Seq(S \union {e})
  BY <1>2
<1> QED BY <1>2, <1>3 DEF IsSeq

\* Taking the last element away.
LEMMA Shortened ==
    ASSUME NEW s, IsSeq(s), s # <<>>
    PROVE  /\ IsSeq(SubSeq(s, 1, Len(s) - 1))
           /\ Len(s) \in Nat \ {0}
           /\ Len(SubSeq(s, 1, Len(s) - 1)) = Len(s) - 1
           /\ \A i \in 1..(Len(s) - 1) : SubSeq(s, 1, Len(s) - 1)[i] = s[i]
<1>1. PICK S : s \in Seq(S)
  BY DEF IsSeq
<1>2. Len(s) \in Nat \ {0}
  BY <1>1
<1>3. SubSeq(s, 1, Len(s) - 1) \in Seq(S)
  BY <1>1, <1>2
<1>4. IsSeq(SubSeq(s, 1, Len(s) - 1))
  BY <1>3 DEF IsSeq
<1>5. Len(SubSeq(s, 1, Len(s) - 1)) = Len(s) - 1
  <2> DEFINE n == Len(s) - 1
  <2>1. n \in Nat /\ \A i \in 1..n : s[i] \in S
    BY <1>1, <1>2
  <2> HIDE DEF n
  <2>2. Len(SubSeq(s, 1, n)) = IF 1 <= n THEN n - 1 + 1 ELSE 0
    BY <2>1, SubSeqProperties
  <2>3. Len(SubSeq(s, 1, n)) = n
    BY <2>1, <2>2
  <2> QED BY <2>3 DEF n
<1>6. \A i \in 1..(Len(s) - 1) : SubSeq(s, 1, Len(s) - 1)[i] = s[i]
  BY <1>1, <1>2
<1> QED BY <1>2, <1>4, <1>5, <1>6

\* A sequence is empty if its length is zero.
LEMMA EmptyIfNoLength ==
    ASSUME NEW s, IsSeq(s)
    PROVE  s = <<>> <=> Len(s) = 0
<1>1. PICK S : s \in Seq(S)
  BY DEF IsSeq
<1> QED BY <1>1

----------------------------------------------------------------------------
(* The shape of the stack *)

\* A key is in quotes once the colon is expected.
Quoted2(b) == Len(b) >= 2 /\ b[1] = Quote /\ b[Len(b)] = Quote

\* What each state has for itself.
Local(s) ==
    \/ s.state \in {"placeholder", "single", "list"}
    \/ s.state = "map" /\ \E kvs : s.currentMap = Map(kvs)
    \/ /\ s.state = "keyValue" /\ IsSeq(s.keyBuffer)
       /\ \/ s.part = "key" /\ (s.keyBuffer # <<>> => s.keyBuffer[1] = Quote)
          \/ s.part \in {"colon", "value"} /\ Quoted2(s.keyBuffer)

\* Which states may lie directly under which: a key lies on its map, and every
\* other value on the list or the key it belongs to.
Under(s, t) ==
    \/ s.state = "map" /\ t.state = "keyValue"
    \/ t.state # "keyValue" /\ (s.state = "list" \/ (s.state = "keyValue" /\ s.part = "value"))

WellFormed(st) ==
    /\ IsSeq(st)
    /\ \A i \in 1..Len(st) : Local(st[i])
    /\ \A i \in 1..(Len(st) - 1) : Under(st[i], st[i + 1])
    /\ st # <<>> => st[1].state # "keyValue"

\* A result waits for a list or for a key, or there is nothing left to do; and a key
\* that is back on top has got its value.
Awaited(st, result) ==
    st # <<>> =>
        LET top == st[Len(st)]
            AtValue == top.state = "keyValue" /\ top.part = "value"
        IN  /\ result # Nil => top.state = "list" \/ AtValue
            /\ AtValue => result # Nil

Shape == WellFormed(stack) /\ Awaited(stack, pending) /\ NoImpossibleState

\* A state that may lie on the top is pushed.
LEMMA WellPush ==
    ASSUME NEW st, WellFormed(st), NEW s, Local(s),
           st # <<>> => Under(st[Len(st)], s),
           st = <<>> => s.state # "keyValue"
    PROVE  /\ WellFormed(Append(st, s))
           /\ Append(st, s) # <<>>
           /\ Append(st, s)[Len(Append(st, s))] = s
<1> DEFINE new == Append(st, s)
<1>1. /\ IsSeq(new) /\ new # <<>> /\ Len(st) \in Nat /\ Len(new) = Len(st) + 1
      /\ \A i \in 1..Len(st) : new[i] = st[i]
      /\ new[Len(st) + 1] = s
  BY Appended DEF WellFormed
<1>2. st = <<>> <=> Len(st) = 0
  BY EmptyIfNoLength DEF WellFormed
<1> HIDE DEF new
<1>3. \A i \in 1..Len(new) : Local(new[i])
  BY <1>1 DEF WellFormed
<1>4. \A i \in 1..(Len(new) - 1) : Under(new[i], new[i + 1])
  BY <1>1, <1>2 DEF WellFormed
<1>5. new[1].state # "keyValue"
  BY <1>1, <1>2 DEF WellFormed
<1> QED BY <1>1, <1>3, <1>4, <1>5 DEF WellFormed, new

\* What is under the top is well formed without it.
LEMMA WellPop ==
    ASSUME NEW st, WellFormed(st), st # <<>>
    PROVE  LET new == SubSeq(st, 1, Len(st) - 1)
           IN  /\ WellFormed(new)
               /\ Len(st) \in Nat \ {0} /\ Len(new) = Len(st) - 1
               /\ new # <<>> => Len(st) > 1 /\ new[Len(new)] = st[Len(st) - 1]
               /\ new # <<>> => Under(new[Len(new)], st[Len(st)])
               /\ new = <<>> => st[Len(st)].state # "keyValue"
<1> DEFINE new == SubSeq(st, 1, Len(st) - 1)
<1>1. /\ IsSeq(new) /\ Len(st) \in Nat \ {0} /\ Len(new) = Len(st) - 1
      /\ \A i \in 1..(Len(st) - 1) : new[i] = st[i]
  BY Shortened DEF WellFormed
<1>2. new = <<>> <=> Len(new) = 0
  BY <1>1, EmptyIfNoLength
<1> HIDE DEF new
<1>3. WellFormed(new)
  BY <1>1, <1>2 DEF WellFormed
<1>4. new # <<>> => Len(st) > 1 /\ new[Len(new)] = st[Len(st) - 1] /\ Under(new[Len(new)], st[Len(st)])
  BY <1>1, <1>2 DEF WellFormed
<1>5. new = <<>> => st[Len(st)].state # "keyValue"
  <2>1. new = <<>> => Len(st) = 1
    BY <1>1, <1>2
  <2> QED BY <2>1 DEF WellFormed
<1> QED BY <1>1, <1>3, <1>4, <1>5 DEF new

\* The top is replaced by a state that is a key just where the top was one.
LEMMA WellReplace ==
    ASSUME NEW st, WellFormed(st), st # <<>>, NEW s, Local(s),
           s.state = "keyValue" <=> st[Len(st)].state = "keyValue"
    PROVE  LET new == Append(SubSeq(st, 1, Len(st) - 1), s)
           IN  WellFormed(new) /\ new # <<>> /\ new[Len(new)] = s
<1> DEFINE front == SubSeq(st, 1, Len(st) - 1)
<1>1. /\ WellFormed(front)
      /\ front # <<>> => Under(front[Len(front)], st[Len(st)])
      /\ front = <<>> => st[Len(st)].state # "keyValue"
  BY WellPop
<1> HIDE DEF front
<1>2. front # <<>> => Under(front[Len(front)], s)
  BY <1>1 DEF Under
<1>3. front = <<>> => s.state # "keyValue"
  BY <1>1
<1>4. WellFormed(Append(front, s)) /\ Append(front, s) # <<>> /\ Append(front, s)[Len(Append(front, s))] = s
  BY <1>1, <1>2, <1>3, WellPush
<1> QED BY <1>4 DEF front

----------------------------------------------------------------------------
(* The steps of the parser *)

\* A finished value is a tree, not the lack of one.
LEMMA TreesAreThere ==
    /\ \A t : Str(t) # Nil /\ Flag(t) # Nil /\ List(t) # Nil /\ Map(t) # Nil
<1>1. \A t : DOMAIN Str(t) = {"str"} /\ DOMAIN Flag(t) = {"bool"} /\ DOMAIN List(t) = {"list"} /\ DOMAIN Map(t) = {"map"}
  BY DEF Str, Flag, List, Map
<1>2. DOMAIN Nil = {"nil"}
  BY DEF Nil
<1> QED BY <1>1, <1>2

\* The first stack.
LEMMA FirstShape == WellFormed(<<AnyObjPlaceholder>>) /\ Awaited(<<AnyObjPlaceholder>>, Nil)
<1>1. IsSeq(<<>>) /\ Len(<<>>) = 0
  BY DEF IsSeq
<1>2. WellFormed(<<>>)
  BY <1>1 DEF WellFormed
<1>3. <<AnyObjPlaceholder>> = Append(<<>>, AnyObjPlaceholder)
  OBVIOUS
<1>4. WellFormed(<<AnyObjPlaceholder>>)
  BY <1>2, <1>3, WellPush DEF Local, AnyObjPlaceholder
<1> QED BY <1>4 DEF Awaited, AnyObjPlaceholder

\* The parser starts with the shape.
LEMMA InitShape == Init => Shape
  BY FirstShape DEF Init, Shape, NoImpossibleState

\* A step that leaves the stack and the result alone, and fails of a reason that may be.
LEMMA SameShape ==
    ASSUME Shape, stack' = stack, pending' = pending, NoImpossibleState'
    PROVE  Shape'
  BY DEF Shape

\* Goto with a stack whose top is no key with a value, and no result.
LEMMA GotoShape ==
    ASSUME Shape, NEW st, NEW isDone, Goto(st, isDone), WellFormed(st), pending = Nil,
           st # <<>>, ~(st[Len(st)].state = "keyValue" /\ st[Len(st)].part = "value")
    PROVE  Shape'
<1>1. stack' = st /\ pending' = Nil /\ outcome' = outcome
  BY DEF Goto
<1>2. WellFormed(stack') /\ Awaited(stack', pending')
  BY <1>1 DEF Awaited
<1>3. NoImpossibleState'
  BY <1>1 DEF Shape, NoImpossibleState
<1> QED BY <1>2, <1>3 DEF Shape

\* A value that is complete leaves the stack to the list or the key it is for.
LEMMA ReturnShape ==
    ASSUME Shape, stack # <<>>, peek.state # "keyValue", NEW result, result # Nil,
           NEW isDone, Return(result, isDone)
    PROVE  Shape'
<1>1. stack' = pop /\ pending' = result /\ outcome' = outcome
  BY DEF Return
<1>2. WellFormed(stack)
  BY DEF Shape
<1>3. WellFormed(pop) /\ (pop # <<>> => Under(pop[Len(pop)], peek))
  BY <1>2, WellPop DEF pop, peek
<1>4. Awaited(pop, result)
  BY <1>3 DEF Awaited, Under
<1>5. NoImpossibleState'
  BY <1>1 DEF Shape, NoImpossibleState
<1> QED BY <1>1, <1>3, <1>4, <1>5 DEF Shape

\* After the end of the value only white space is passed over.
LEMMA AfterTheEndShape == Shape /\ AfterTheEnd => Shape'
<1> SUFFICES ASSUME Shape, AfterTheEnd PROVE Shape'
  OBVIOUS
<1>1. stack' = stack /\ pending' = pending /\ NoImpossibleState'
  BY DEF AfterTheEnd, Ignore, Fail, Shape, NoImpossibleState
<1> QED BY <1>1, SameShape

\* A value begins: its state takes the place of the placeholder.
LEMMA PlaceholderShape == Shape /\ Placeholder => Shape'
<1> SUFFICES ASSUME Shape, Placeholder PROVE Shape'
  OBVIOUS
<1>1. stack # <<>> /\ peek.state = "placeholder" /\ WellFormed(stack) /\ pending = Nil
  BY DEF Placeholder, Reading, Shape, Awaited, peek
<1>2. CASE c \in {"]", "}", ","} /\ Fail("misplaced character")
  <2>1. stack' = stack /\ pending' = pending /\ NoImpossibleState'
    BY <1>2 DEF Fail, NoImpossibleState
  <2> QED BY <2>1, SameShape
<1>3. CASE Ignore
  <2>1. stack' = stack /\ pending' = pending /\ NoImpossibleState'
    BY <1>3 DEF Ignore, Shape, NoImpossibleState
  <2> QED BY <2>1, SameShape
<1>4. CASE \E s, isDone : /\ Goto(replaceTop(s), isDone)
                         /\ s \in {MapState(Map(<<>>)), ListState(<<>>), SingleValue(<<>>, FALSE)}
  <2>1. PICK s, isDone : /\ Goto(replaceTop(s), isDone)
                         /\ s \in {MapState(Map(<<>>)), ListState(<<>>), SingleValue(<<>>, FALSE)}
    BY <1>4
  <2>2. Local(s) /\ s.state # "keyValue"
    BY <2>1 DEF Local, MapState, ListState, SingleValue
  <2>3. /\ WellFormed(replaceTop(s)) /\ replaceTop(s) # <<>>
        /\ replaceTop(s)[Len(replaceTop(s))] = s
    BY <1>1, <2>2, WellReplace DEF replaceTop, pop, peek
  <2> QED BY <1>1, <2>1, <2>2, <2>3, GotoShape
<1> QED BY <1>1, <1>2, <1>3, <1>4 DEF Placeholder

\* A single value grows, or is complete and goes to what waits for it.
LEMMA ValueShape == Shape /\ Value => Shape'
<1> SUFFICES ASSUME Shape, Value PROVE Shape'
  OBVIOUS
<1>1. stack # <<>> /\ peek.state = "single" /\ WellFormed(stack) /\ pending = Nil
  BY DEF Value, Reading, Shape, Awaited, peek
<1>2. CASE \E buffer, escape, isDone : Goto(replaceTop(SingleValue(buffer, escape)), isDone)
  <2>1. PICK buffer, escape, isDone : Goto(replaceTop(SingleValue(buffer, escape)), isDone)
    BY <1>2
  <2> DEFINE s == SingleValue(buffer, escape)
  <2>2. Local(s) /\ s.state = "single"
    BY DEF Local, SingleValue
  <2> HIDE DEF s
  <2>3. /\ WellFormed(replaceTop(s)) /\ replaceTop(s) # <<>>
        /\ replaceTop(s)[Len(replaceTop(s))] = s
    BY <1>1, <2>2, WellReplace DEF replaceTop, pop, peek
  <2>4. \A t : Goto(replaceTop(s), t) => Shape'
    BY <1>1, <2>2, <2>3, GotoShape
  <2> QED BY <2>1, <2>4 DEF s
<1>3. CASE \E buffer, isDone : Finalize(buffer, isDone)
  <2>1. PICK buffer, isDone : Finalize(buffer, isDone)
    BY <1>3
  <2>2. CASE finalize(buffer) = Nil
    <3>1. stack' = stack /\ pending' = pending /\ NoImpossibleState'
      BY <2>1, <2>2 DEF Finalize, Fail, NoImpossibleState
    <3> QED BY <3>1, SameShape
  <2>3. CASE finalize(buffer) # Nil
    <3>1. Return(finalize(buffer), isDone)
      BY <2>1, <2>3 DEF Finalize
    <3> QED BY <1>1, <2>3, <3>1, ReturnShape
  <2> QED BY <2>2, <2>3
<1> QED BY <1>2, <1>3 DEF Value

\* A key starts with a quote, and the colon is expected once it also ends with one.
LEMMA KeyShape == Shape /\ Key => Shape'
<1> SUFFICES ASSUME Shape, Key PROVE Shape'
  OBVIOUS
<1> DEFINE keyBuffer == Append(peek.keyBuffer, c)
<1>1. /\ stack # <<>> /\ peek.state = "keyValue" /\ peek.part = "key"
      /\ WellFormed(stack) /\ pending = Nil
  BY DEF Key, Reading, Shape, Awaited, peek
<1>2. /\ IsSeq(peek.keyBuffer)
      /\ peek.keyBuffer # <<>> => peek.keyBuffer[1] = Quote
  <2>1. Len(stack) \in Nat \ {0}
    BY <1>1, Shortened DEF WellFormed
  <2>2. Local(peek)
    BY <1>1, <2>1 DEF WellFormed, peek
  <2> QED BY <1>1, <2>2 DEF Local
<1>3. CASE Ignore
  <2>1. stack' = stack /\ pending' = pending /\ NoImpossibleState'
    BY <1>3 DEF Ignore, Shape, NoImpossibleState
  <2> QED BY <2>1, SameShape
<1>4. CASE Fail("map key must start with a quote")
  <2>1. stack' = stack /\ pending' = pending /\ NoImpossibleState'
    BY <1>4 DEF Fail, NoImpossibleState
  <2> QED BY <2>1, SameShape
<1>5. ASSUME NEW part \in {"key", "colon"}, Goto(replaceTop(KeyValue(keyBuffer, part)), TRUE),
             peek.keyBuffer = <<>> => c = Quote /\ part = "key",
             part = "colon" => c = Quote
      PROVE  Shape'
  <2>1. /\ IsSeq(keyBuffer) /\ Len(keyBuffer) = Len(peek.keyBuffer) + 1 /\ Len(peek.keyBuffer) \in Nat
        /\ \A i \in 1..Len(peek.keyBuffer) : keyBuffer[i] = peek.keyBuffer[i]
        /\ keyBuffer[Len(peek.keyBuffer) + 1] = c
    BY <1>2, Appended
  <2>2. peek.keyBuffer = <<>> <=> Len(peek.keyBuffer) = 0
    BY <1>2, EmptyIfNoLength
  <2> DEFINE s == KeyValue(keyBuffer, part)
  <2>3. s.state = "keyValue" /\ s.keyBuffer = keyBuffer /\ s.part = part
    BY DEF KeyValue
  <2>0. Goto(replaceTop(s), TRUE)
    BY <1>5
  <2> HIDE DEF s, keyBuffer
  <2>4. keyBuffer[1] = Quote
    BY <1>2, <1>5, <2>1, <2>2
  <2>5. part = "colon" => Quoted2(keyBuffer)
    BY <1>5, <2>1, <2>2, <2>4 DEF Quoted2
  <2>6. Local(s)
    BY <2>1, <2>3, <2>4, <2>5 DEF Local
  <2>7. /\ WellFormed(replaceTop(s)) /\ replaceTop(s) # <<>>
        /\ replaceTop(s)[Len(replaceTop(s))] = s
    BY <1>1, <2>3, <2>6, WellReplace DEF replaceTop, pop, peek
  <2> QED BY <1>1, <2>3, <2>7, <2>0, GotoShape
<1>6. CASE peek.keyBuffer = <<>> /\ c = Quote /\ Goto(replaceTop(KeyValue(keyBuffer, "key")), TRUE)
  BY <1>5, <1>6
<1>7. CASE /\ peek.keyBuffer # <<>>
           /\ Goto(replaceTop(KeyValue(keyBuffer, IF c = Quote /\ ~Escaped THEN "colon" ELSE "key")), TRUE)
  BY <1>5, <1>7
<1> QED BY <1>3, <1>4, <1>6, <1>7 DEF Key

\* After the colon a placeholder for the value lies on the key.
LEMMA ColonShape == Shape /\ Colon => Shape'
<1> SUFFICES ASSUME Shape, Colon PROVE Shape'
  OBVIOUS
<1>1. /\ stack # <<>> /\ peek.state = "keyValue" /\ peek.part = "colon"
      /\ WellFormed(stack) /\ pending = Nil
  BY DEF Colon, Reading, Shape, Awaited, peek
<1>2. CASE Ignore
  <2>1. stack' = stack /\ pending' = pending /\ NoImpossibleState'
    BY <1>2 DEF Ignore, Shape, NoImpossibleState
  <2> QED BY <2>1, SameShape
<1>3. CASE Fail("colon expected")
  <2>1. stack' = stack /\ pending' = pending /\ NoImpossibleState'
    BY <1>3 DEF Fail, NoImpossibleState
  <2> QED BY <2>1, SameShape
<1>4. CASE Goto(Append(replaceTop(KeyValue(peek.keyBuffer, "value")), AnyObjPlaceholder), TRUE)
  <2> DEFINE s == KeyValue(peek.keyBuffer, "value")
             st == replaceTop(s)
  <2>1. Len(stack) \in Nat \ {0}
    BY <1>1, Shortened DEF WellFormed
  <2>2. Local(peek)
    BY <1>1, <2>1 DEF WellFormed, peek
  <2>3. Local(s) /\ s.state = "keyValue" /\ s.part = "value"
    BY <1>1, <2>2 DEF Local, KeyValue
  <2> HIDE DEF s
  <2>4. WellFormed(st) /\ st # <<>> /\ st[Len(st)] = s
    BY <1>1, <2>3, WellReplace DEF replaceTop, pop, peek
  <2>0. Goto(Append(st, AnyObjPlaceholder), TRUE)
    BY <1>4 DEF s
  <2> HIDE DEF st
  <2>5. Local(AnyObjPlaceholder) /\ AnyObjPlaceholder.state = "placeholder" /\ Under(s, AnyObjPlaceholder)
    BY <2>3 DEF Local, Under, AnyObjPlaceholder
  <2>6. /\ WellFormed(Append(st, AnyObjPlaceholder)) /\ Append(st, AnyObjPlaceholder) # <<>>
        /\ Append(st, AnyObjPlaceholder)[Len(Append(st, AnyObjPlaceholder))] = AnyObjPlaceholder
    BY <2>4, <2>5, WellPush
  <2> QED BY <1>1, <2>5, <2>6, <2>0, GotoShape
<1> QED BY <1>2, <1>3, <1>4 DEF Colon

\* A map is complete, or a key is pushed on it.
LEMMA MapItemShape == Shape /\ MapItem => Shape'
<1> SUFFICES ASSUME Shape, MapItem PROVE Shape'
  OBVIOUS
<1>1. stack # <<>> /\ peek.state = "map" /\ WellFormed(stack) /\ pending = Nil
  BY DEF MapItem, Reading, Shape, Awaited, peek
<1>2. CASE Ignore
  <2>1. stack' = stack /\ pending' = pending /\ NoImpossibleState'
    BY <1>2 DEF Ignore, Shape, NoImpossibleState
  <2> QED BY <2>1, SameShape
<1>3. CASE Fail("invalid map state")
  <2>1. stack' = stack /\ pending' = pending /\ NoImpossibleState'
    BY <1>3 DEF Fail, NoImpossibleState
  <2> QED BY <2>1, SameShape
<1>4. CASE Return(peek.currentMap, TRUE)
  <2>1. Len(stack) \in Nat \ {0}
    BY <1>1, Shortened DEF WellFormed
  <2>2. Local(peek)
    BY <1>1, <2>1 DEF WellFormed, peek
  <2>3. peek.currentMap # Nil
    BY <1>1, <2>2, TreesAreThere DEF Local
  <2> QED BY <1>1, <1>4, <2>3, ReturnShape
<1>5. ASSUME NEW isDone, Goto(push(KeyValue(<<>>, "key")), isDone) PROVE Shape'
  <2> DEFINE s == KeyValue(<<>>, "key")
  <2>1. IsSeq(<<>>)
    BY DEF IsSeq
  <2>2. Local(s) /\ s.state = "keyValue" /\ s.part = "key" /\ Under(stack[Len(stack)], s)
    BY <1>1, <2>1 DEF Local, Under, KeyValue, peek
  <2>0. Goto(Append(stack, s), isDone)
    BY <1>5 DEF push
  <2> HIDE DEF s
  <2>3. WellFormed(Append(stack, s)) /\ Append(stack, s) # <<>> /\ Append(stack, s)[Len(Append(stack, s))] = s
    BY <1>1, <2>2, WellPush
  <2> QED BY <1>1, <2>2, <2>3, <2>0, GotoShape
<1> QED BY <1>2, <1>3, <1>4, <1>5 DEF MapItem

\* A list with a next element, or none: it goes on without a result.
LEMMA ListItemShape == Shape /\ ListItem => Shape'
<1> SUFFICES ASSUME Shape, ListItem PROVE Shape'
  OBVIOUS
<1>1. stack # <<>> /\ peek.state = "list" /\ WellFormed(stack)
  BY DEF ListItem, Reading, Shape, peek
<1> DEFINE list == IF pending = Nil THEN peek.list ELSE Append(peek.list, pending)
           st == replaceTop(ListState(list))
<1>2. /\ WellFormed(st) /\ st # <<>> /\ st[Len(st)] = ListState(list)
      /\ ListState(list).state = "list" /\ Local(ListState(list))
  <2> DEFINE s == ListState(list)
  <2>1. s.state = "list" /\ Local(s)
    BY DEF ListState, Local
  <2> HIDE DEF s
  <2> QED BY <1>1, <2>1, WellReplace DEF replaceTop, pop, peek, s
<1>3. CASE Return(List(list), TRUE)
  BY <1>1, <1>3, TreesAreThere, ReturnShape
<1>4. CASE \E above \in {<<>>, <<AnyObjPlaceholder>>} :
             stack' = st \o above /\ pending' = Nil /\ outcome' = outcome
  <2>1. PICK above \in {<<>>, <<AnyObjPlaceholder>>} :
             stack' = st \o above /\ pending' = Nil /\ outcome' = outcome
    BY <1>4
  <2>2. NoImpossibleState'
    BY <2>1 DEF Shape, NoImpossibleState
  <2> HIDE DEF st
  <2>3. PICK S : st \in Seq(S)
    BY <1>2 DEF WellFormed, IsSeq
  <2>4. CASE above = <<>>
    <3>1. stack' = st
      BY <2>1, <2>3, <2>4
    <3>2. Awaited(st, Nil)
      BY <1>2 DEF Awaited
    <3> QED BY <1>2, <2>1, <2>2, <3>1, <3>2 DEF Shape
  <2>5. CASE above = <<AnyObjPlaceholder>>
    <3>1. st \in Seq(S \union {AnyObjPlaceholder}) /\ AnyObjPlaceholder \in S \union {AnyObjPlaceholder}
      BY <2>3
    <3>2. stack' = Append(st, AnyObjPlaceholder)
      BY <2>1, <2>5, <3>1, AppendIsConcat
    <3>3. /\ Local(AnyObjPlaceholder) /\ AnyObjPlaceholder.state = "placeholder"
          /\ Under(st[Len(st)], AnyObjPlaceholder)
      BY <1>2 DEF Local, Under, AnyObjPlaceholder
    <3>4. /\ WellFormed(stack') /\ stack' # <<>> /\ stack'[Len(stack')] = AnyObjPlaceholder
      BY <1>2, <3>2, <3>3, WellPush
    <3>5. Awaited(stack', Nil)
      BY <3>3, <3>4 DEF Awaited
    <3> QED BY <2>1, <2>2, <3>4, <3>5 DEF Shape
  <2> QED BY <2>1, <2>4, <2>5
<1> QED BY <1>3, <1>4 DEF ListItem

\* The value goes into the map below: it is there, and so are its key and the map.
LEMMA MapValueShape == Shape /\ MapValue => Shape'
<1> SUFFICES ASSUME Shape, MapValue PROVE Shape'
  OBVIOUS
<1>1. /\ stack # <<>> /\ peek.state = "keyValue" /\ peek.part = "value"
      /\ WellFormed(stack) /\ pending # Nil
  BY DEF MapValue, Reading, Shape, Awaited, peek
<1>2. /\ Len(stack) \in Nat \ {0}
      /\ WellFormed(pop) /\ Len(pop) = Len(stack) - 1
      /\ pop # <<>> /\ Len(stack) > 1 /\ pop[Len(pop)] = stack[Len(stack) - 1]
      /\ Under(stack[Len(stack) - 1], peek)
  BY <1>1, WellPop DEF pop, peek
<1>3. Local(peek) /\ Local(stack[Len(stack) - 1])
  BY <1>1, <1>2 DEF WellFormed, peek
<1> DEFINE under == stack[Len(stack) - 1]
           key == SubSeq(peek.keyBuffer, 2, Len(peek.keyBuffer) - 1)
           s == MapState(Put(under.currentMap, key, pending))
<1>4. under.state = "map" /\ \E kvs : under.currentMap = Map(kvs)
  BY <1>1, <1>2, <1>3 DEF Under, Local
<1>5. Head(peek.keyBuffer) = Quote /\ peek.keyBuffer[Len(peek.keyBuffer)] = Quote
  <2>1. IsSeq(peek.keyBuffer) /\ Quoted2(peek.keyBuffer)
    BY <1>1, <1>3 DEF Local
  <2>2. PICK S : peek.keyBuffer \in Seq(S)
    BY <2>1 DEF IsSeq
  <2>3. Head(peek.keyBuffer) = peek.keyBuffer[1]
    BY <2>1, <2>2 DEF Quoted2
  <2> QED BY <2>1, <2>3 DEF Quoted2
<1>6. /\ stack' = Append(SubSeq(pop, 1, Len(pop) - 1), s)
      /\ pending' = Nil /\ outcome' = outcome
  <2>1. ~(Len(stack) < 2 \/ under.state # "map")
    BY <1>2, <1>4
  <2>2. ~(Head(peek.keyBuffer) # Quote \/ peek.keyBuffer[Len(peek.keyBuffer)] # Quote)
    BY <1>5
  <2>3. pending # Nil
    BY <1>1
  <2>4. PutValue(under, key)
    BY <2>1, <2>2, <2>3, Zenon DEF MapValue
  <2> QED BY <2>4 DEF PutValue
<1>7. s.state = "map" /\ Local(s)
  <2>1. \E kvs : Put(under.currentMap, key, pending) = Map(kvs)
    BY <1>4 DEF Put
  <2> QED BY <2>1 DEF Local, MapState
<1> HIDE DEF s
<1>8. WellFormed(stack') /\ stack' # <<>> /\ stack'[Len(stack')] = s
  BY <1>2, <1>4, <1>6, <1>7, WellReplace
<1>9. Awaited(stack', pending')
  BY <1>6, <1>7, <1>8 DEF Awaited
<1>10. NoImpossibleState'
  BY <1>6 DEF Shape, NoImpossibleState
<1> QED BY <1>8, <1>9, <1>10 DEF Shape

\* The steps around the inner loop, and what is written and read again.
LEMMA OuterShape ==
    Shape /\ ((\E piece \in Pieces : More(piece)) \/ NextChar \/ End \/ Write) => Shape'
<1>1. ASSUME Shape, (\E piece \in Pieces : More(piece)) \/ NextChar \/ End PROVE Shape'
  <2>1. stack' = stack /\ pending' = pending /\ NoImpossibleState'
    BY <1>1 DEF More, NextChar, End, Shape, NoImpossibleState
  <2> QED BY <1>1, <2>1, SameShape
<1>2. ASSUME Write PROVE Shape'
  <2>1. stack' = <<AnyObjPlaceholder>> /\ pending' = Nil /\ outcome' = "reading"
    BY <1>2 DEF Write
  <2>2. WellFormed(<<AnyObjPlaceholder>>) /\ Awaited(<<AnyObjPlaceholder>>, Nil)
    BY FirstShape
  <2> QED BY <2>1, <2>2 DEF Shape, NoImpossibleState
<1> QED BY <1>1, <1>2

\* Every step of the parser keeps the shape of the stack.
LEMMA NextShape == Shape /\ [Next]_vars => Shape'
<1>1. Shape /\ UNCHANGED vars => Shape'
  BY SameShape DEF vars, Shape, NoImpossibleState
<1> QED BY <1>1, AfterTheEndShape, PlaceholderShape, ValueShape, ListItemShape, MapItemShape,
           KeyShape, ColonShape, MapValueShape, OuterShape DEF Next, Settle

\* The stack has the shape the parser relies on, whatever the text.
THEOREM StackShape == Spec => []Shape
  BY InitShape, NextShape, PTL DEF Spec

\* No text leads to a state the parser guards against: the result of a value is always
\* taken by the list or key that waits for it, every key is in quotes and lies on its map.
THEOREM NeverImpossible == Spec => []NoImpossibleState
<1>1. Shape => NoImpossibleState
  BY DEF Shape
<1> QED BY StackShape, <1>1, PTL
=============================================================================

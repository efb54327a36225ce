---------------------------- MODULE OrderedJSON ----------------------------
(***************************************************************************)
(* ParseOrderedJSON (ojParse.go), one character at a time over a stack of  *)
(* parser states, and JSONString (ojToJson.go), which writes the tree back *)
(* as a formatter does; what it writes is then read again.                 *)
(*                                                                         *)
(* A character is a string of length one, except that a word without       *)
(* quotes or white space is one character, and that all white space is     *)
(* " ".  Environment: a text of any pieces.  Bound: MaxPieces of them.      *)
(***************************************************************************)
EXTENDS JsonTree, Integers

CONSTANTS
    Pieces,      \* the texts an input is put together from
    MaxPieces,   \* bound: how many
    Written(_)   \* what JSONString makes of a tree

VARIABLES
    text,      \* input[0..i]: the last character is c
    done,      \* c is dealt with
    stack,     \* stateStack, the top last
    pending,   \* pendingResult
    outcome,   \* what ParseOrderedJSON returned, or "reading"
    rest,      \* the part of the input that is still to be read
    pieces,    \* how many pieces the input has
    tree       \* the tree that was written, Nil before

vars == <<text, done, stack, pending, outcome, rest, pieces, tree>>

Quote     == "\""
Backslash == "\\"
isWhitespace(ch) == ch = " "
c == text[Len(text)]
NothingEscapes == FALSE   \* Mutant: every quote ends a string.

Escaped == Len(text) > 1 /\ text[Len(text) - 1] = Backslash   \* prevChar

AnyObjPlaceholder == [state |-> "placeholder"]
SingleValue(buffer, stringEscape) == [state |-> "single", buffer |-> buffer, stringEscape |-> stringEscape]
MapState(m)  == [state |-> "map", currentMap |-> m]
KeyValue(keyBuffer, part) == [state |-> "keyValue", keyBuffer |-> keyBuffer, part |-> part]
ListState(l) == [state |-> "list", list |-> l]

push(s)       == Append(stack, s)
peek          == stack[Len(stack)]
pop           == SubSeq(stack, 1, Len(stack) - 1)
replaceTop(s) == Append(pop, s)

Init ==
    /\ text = <<>>
    /\ done = TRUE
    /\ stack = <<AnyObjPlaceholder>>
    /\ pending = Nil
    /\ outcome = "reading"
    /\ rest = <<>>
    /\ pieces = 0
    /\ tree = Nil

(***************************************************************************)
(* The outer loop.                                                         *)
(***************************************************************************)
More(piece) ==
    /\ outcome = "reading" /\ done /\ rest = <<>> /\ tree = Nil
    /\ pieces < MaxPieces
    /\ pieces' = pieces + 1
    /\ rest' = piece
    /\ UNCHANGED <<text, done, stack, pending, outcome, tree>>

NextChar ==
    /\ outcome = "reading" /\ done /\ rest # <<>>
    /\ text' = Append(text, Head(rest))
    /\ rest' = Tail(rest)
    /\ done' = FALSE
    /\ UNCHANGED <<stack, pending, outcome, pieces, tree>>

End ==
    /\ outcome = "reading" /\ done /\ rest = <<>>
    /\ outcome' = IF stack = <<>> THEN "accepted" ELSE "state stack should be empty at the end"
    /\ UNCHANGED <<text, done, stack, pending, rest, pieces, tree>>

\* The formatter writes what it has read, and ends the line; the result is read again.
Write ==
    /\ outcome = "accepted" /\ tree = Nil
    /\ tree' = pending
    /\ rest' = Append(Written(pending), " ")
    /\ text' = <<>>
    /\ done' = TRUE
    /\ stack' = <<AnyObjPlaceholder>>
    /\ pending' = Nil
    /\ outcome' = "reading"
    /\ UNCHANGED pieces

(***************************************************************************)
(* The inner loop: the state on top of the stack deals with the character, *)
(* and leaves it to the next state where it is not done.                   *)
(***************************************************************************)
Ignore == done' = TRUE /\ UNCHANGED <<text, stack, pending, outcome, rest, pieces, tree>>

Fail(reason) == outcome' = reason /\ UNCHANGED <<text, done, stack, pending, rest, pieces, tree>>

Goto(newStack, isDone) ==
    /\ stack' = newStack
    /\ done' = isDone
    /\ UNCHANGED <<text, pending, outcome, rest, pieces, tree>>

\* Mutant: the finished state stays on the stack.
ReturnWithoutPop(result, isDone) ==
    /\ pending' = result
    /\ done' = isDone
    /\ UNCHANGED <<text, stack, outcome, rest, pieces, tree>>

Return(result, isDone) ==
    /\ stack' = pop
    /\ pending' = result
    /\ done' = isDone
    /\ UNCHANGED <<text, outcome, rest, pieces, tree>>

Reading(state) == outcome = "reading" /\ ~done /\ stack # <<>> /\ peek.state = state

AfterTheEnd ==
    /\ outcome = "reading" /\ ~done /\ stack = <<>>
    /\ \/ isWhitespace(c) /\ Ignore
       \/ ~isWhitespace(c) /\ Fail("unexpected characters at the end")

Placeholder ==
    /\ Reading("placeholder")
    /\ \/ /\ pending # Nil \/ c \in {"]", "}", ","}
          /\ Fail(IF pending # Nil THEN "invalid state" ELSE "misplaced character")
       \/ pending = Nil /\ isWhitespace(c) /\ Ignore
       \/ pending = Nil /\ c = "{" /\ Goto(replaceTop(MapState(Map(<<>>))), TRUE)
       \/ pending = Nil /\ c = "[" /\ Goto(replaceTop(ListState(<<>>)), TRUE)
       \/ /\ pending = Nil /\ ~isWhitespace(c) /\ c \notin {"{", "[", "]", "}", ","}
          /\ Goto(replaceTop(SingleValue(<<>>, FALSE)), FALSE)

\* finalize: what a complete value is; Nil is an error.
finalize(buffer) ==
    CASE Head(buffer) = Quote /\ buffer[Len(buffer)] = Quote -> Str(SubSeq(buffer, 2, Len(buffer) - 1))
      [] buffer = <<"true">>  -> Flag(TRUE)
      [] buffer = <<"false">> -> Flag(FALSE)
      [] OTHER -> Nil

Finalize(buffer, isDone) ==
    IF finalize(buffer) = Nil THEN Fail("invalid value") ELSE Return(finalize(buffer), isDone)

Value ==
    /\ Reading("single")
    /\ LET buffer == Append(peek.buffer, c)
           ends == c \in {"]", "}", ","} \/ isWhitespace(c)
       IN  \/ peek.buffer = <<>> /\ Goto(replaceTop(SingleValue(buffer, c = Quote)), TRUE)
           \/ /\ peek.buffer # <<>> /\ peek.stringEscape
              /\ IF c = Quote /\ ~Escaped THEN Finalize(buffer, TRUE)
                 ELSE Goto(replaceTop(SingleValue(buffer, TRUE)), TRUE)
           \/ /\ peek.buffer # <<>> /\ ~peek.stringEscape
              /\ IF ends THEN Finalize(peek.buffer, FALSE)
                 ELSE Goto(replaceTop(SingleValue(buffer, FALSE)), TRUE)

\* After an element, everything up to the next comma or bracket is ignored.
ListItem ==
    /\ Reading("list")
    /\ LET list == IF pending = Nil THEN peek.list ELSE Append(peek.list, pending)
           next(above, isDone) ==
               /\ stack' = replaceTop(ListState(list)) \o above
               /\ pending' = Nil
               /\ done' = isDone
               /\ UNCHANGED <<text, outcome, rest, pieces, tree>>
       IN  \/ c = "]" /\ Return(List(list), TRUE)
           \/ list = <<>> /\ c # "]" /\ ~isWhitespace(c) /\ next(<<AnyObjPlaceholder>>, FALSE)
           \/ list # <<>> /\ c = "," /\ next(<<AnyObjPlaceholder>>, TRUE)
           \/ isWhitespace(c) /\ next(<<>>, TRUE)
           \/ list # <<>> /\ c \notin {"]", ","} /\ ~isWhitespace(c) /\ next(<<>>, TRUE)

MapItem ==
    /\ Reading("map")
    /\ LET empty == peek.currentMap.map = <<>>
       IN  \/ isWhitespace(c) /\ Ignore
           \/ c = "}" /\ Return(peek.currentMap, TRUE)
           \/ c = "," /\ Goto(push(KeyValue(<<>>, "key")), TRUE)
           \/ /\ ~isWhitespace(c) /\ c \notin {"}", ","}
              /\ IF empty THEN Goto(push(KeyValue(<<>>, "key")), FALSE) ELSE Fail("invalid map state")

Key ==
    /\ Reading("keyValue") /\ peek.part = "key"
    /\ LET keyBuffer == Append(peek.keyBuffer, c)
       IN  \/ peek.keyBuffer = <<>> /\ isWhitespace(c) /\ Ignore
           \/ peek.keyBuffer = <<>> /\ ~isWhitespace(c) /\ c # Quote /\ Fail("map key must start with a quote")
           \/ peek.keyBuffer = <<>> /\ c = Quote /\ Goto(replaceTop(KeyValue(keyBuffer, "key")), TRUE)
           \/ /\ peek.keyBuffer # <<>>
              /\ Goto(replaceTop(KeyValue(keyBuffer, IF c = Quote /\ ~Escaped THEN "colon" ELSE "key")), TRUE)

\* Mutant: no placeholder for the value.
ColonOnly ==
    /\ Reading("keyValue") /\ peek.part = "colon"
    /\ \/ isWhitespace(c) /\ Ignore
       \/ c = ":" /\ Goto(replaceTop(KeyValue(peek.keyBuffer, "value")), TRUE)

Colon ==
    /\ Reading("keyValue") /\ peek.part = "colon"
    /\ \/ isWhitespace(c) /\ Ignore
       \/ c = ":" /\ Goto(Append(replaceTop(KeyValue(peek.keyBuffer, "value")), AnyObjPlaceholder), TRUE)
       \/ ~isWhitespace(c) /\ c # ":" /\ Fail("colon expected")

\* The key and the state below are replaced by the map with the value in it.
PutValue(under, key) ==
    /\ stack' = Append(SubSeq(pop, 1, Len(pop) - 1), MapState(Put(under.currentMap, key, pending)))
    /\ pending' = Nil
    /\ UNCHANGED <<text, done, outcome, rest, pieces, tree>>

MapValue ==
    /\ Reading("keyValue") /\ peek.part = "value"
    /\ LET keyBuffer == peek.keyBuffer
           under == stack[Len(stack) - 1]
       IN  IF pending = Nil THEN Fail("missing value in map")
           ELSE IF Head(keyBuffer) # Quote \/ keyBuffer[Len(keyBuffer)] # Quote THEN Fail("map key should be a string")
           ELSE IF Len(stack) < 2 \/ under.state # "map" THEN Fail("no map state underneath")
           ELSE PutValue(under, SubSeq(keyBuffer, 2, Len(keyBuffer) - 1))

Settle == AfterTheEnd \/ Placeholder \/ Value \/ ListItem \/ MapItem \/ Key \/ Colon \/ MapValue

Next == (\E piece \in Pieces : More(piece)) \/ NextChar \/ End \/ Write \/ Settle

\* The inner loop goes on until it is done: nothing else runs meanwhile.
Spec == Init /\ [][Next]_vars /\ WF_vars(Settle)

(***************************************************************************)
(* The parser has checks that guard against itself: no text leads to a     *)
(* result that a placeholder finds, to a key without a value, or to a key  *)
(* with no map under it (where pop and peek would panic on the stack).     *)
(***************************************************************************)
NoImpossibleState ==
    outcome \notin {"invalid state", "missing value in map", "map key should be a string", "no map state underneath"}
=============================================================================

-------------------------------- MODULE Json --------------------------------
(***************************************************************************)
(* The JSON reader and printer (haha_json/json.cpp, jsonUtil.cpp,          *)
(* jsonValue.h, jsonValue.cpp).                                            *)
(*                                                                         *)
(* A node is a record: its type, the symbols of its value (text), the      *)
(* nodes in it (items) and, for an object, their keys.  std::map orders    *)
(* the members of an object by key; here they stay in the order they were  *)
(* added, which is layout.  A parser returns the node and the text that it *)
(* leaves; Null stands for nullptr.                                        *)
(***************************************************************************)
EXTENDS HttpText, TLC

Node(type, text) == [type |-> type, text |-> text, items |-> <<>>, keys |-> <<>>]
JsonArray(items) == [Node("Array", <<>>) EXCEPT !.items = items]
JsonObject(keys, items) == [Node("Object", <<>>) EXCEPT !.keys = keys, !.items = items]
Null == Node("nullptr", <<>>)

Result(node, rest) == [node |-> node, rest |-> rest]
Nothing == Result(Null, <<>>)

(* str[0]; behind the end of the body there is the NUL of std::string.     *)
Peeked(s) == IF s = <<>> THEN "NUL" ELSE s[1]

(* isCtrlAndSpace: char is signed, so the bytes of UTF-8 are below 32 too. *)
Blank == {" ", "TAB", "LF", "CR", "NUL", "BS", "FF", "BOM"}

RECURSIVE SkipCtrlAndSpace(_)
SkipCtrlAndSpace(s) ==
  IF s # <<>> /\ s[1] \in Blank THEN SkipCtrlAndSpace(Tail(s)) ELSE s

SkipBom(s) == IF StartsWith(s, <<"BOM">>) THEN Tail(s) ELSE s

-----------------------------------------------------------------------------
(* The characters after a backslash that stand for one character.          *)
Escaped ==
  ("\\" :> "\\") @@ ("t" :> "TAB") @@ ("n" :> "LF") @@ ("r" :> "CR")
  @@ ("0" :> "NUL") @@ ("b" :> "BS") @@ ("f" :> "FF")

(* A byte as a symbol.                                                     *)
Byte1(b) == IF b = 0 THEN "NUL" ELSE IF b = 65 THEN "A" ELSE ToString(b)

(* The first four symbols as a number, 0 if one is no hexadecimal digit.   *)
parse_hex4(s) ==
  LET four == SubSeq(s, 1, 4)
  IN IF \E i \in DOMAIN four : four[i] \notin DOMAIN hex2dec THEN 0 ELSE NumberIn(16, four)

Pow64(k) == CASE k = 0 -> 1 [] k = 1 -> 64 [] k = 2 -> 4096 [] k = 3 -> 262144

(* The UTF-8 encoding: continuation bytes carry six bits each.             *)
Utf8(codepoint) ==
  LET length == CASE codepoint < 128 -> 1 [] codepoint < 2048 -> 2
                  [] codepoint < 65536 -> 3 [] OTHER -> 4
      mark == CASE length = 1 -> 0 [] length = 2 -> 192 [] length = 3 -> 224
                [] length = 4 -> 240
  IN [k \in 1 .. length |->
        LET bits == codepoint \div Pow64(length - k)
        IN Byte1(IF k = 1 THEN mark + bits ELSE 128 + (bits % 64))]

SurrogatePair(first, second) == 65536 + (first % 1024) * 1024 + (second % 1024)

Between(n, low, high) == low <= n /\ n <= high

(* utf16_literal_to_utf8 at "\u": what it adds, <<>> for a failure.        *)
Utf16Literal(s) ==
  LET first == parse_hex4(From(s, 3))
      second == parse_hex4(From(s, 9))
      pair == Between(first, 55296, 56319)
      complete == /\ Len(s) >= 12 /\ s[7] = "\\" /\ s[8] = "u"
                  /\ Between(second, 56320, 57343)
  IN IF Len(s) < 6 \/ Between(first, 56320, 57343) \/ (pair /\ ~complete)
       THEN [out |-> <<>>, rest |-> <<>>]
     ELSE IF pair THEN [out |-> Utf8(SurrogatePair(first, second)), rest |-> From(s, 13)]
     ELSE [out |-> Utf8(first), rest |-> From(s, 7)]

(* \x takes every hexadecimal digit and adds the number in decimal.        *)
HexRun(s) ==
  LET others == {i \in DOMAIN s : s[i] \notin DOMAIN hex2dec}
  IN IF others = {} THEN s
     ELSE SubSeq(s, 1, (CHOOSE i \in others : \A j \in others : i <= j) - 1)

(* parse_string behind the opening quote.                                  *)
RECURSIVE StringRest(_, _)
StringRest(s, output) ==
  IF s = <<>> THEN Nothing
  ELSE IF s[1] = "\"" THEN Result(Node("String", output), Tail(s))
  ELSE IF s[1] # "\\" THEN StringRest(Tail(s), Append(output, s[1]))
  ELSE IF Len(s) < 2 THEN Nothing
  ELSE IF s[2] \in DOMAIN Escaped THEN StringRest(From(s, 3), Append(output, Escaped[s[2]]))
  ELSE IF s[2] = "x"
    THEN LET hexs == HexRun(From(s, 3))
         IN IF hexs = <<>> THEN Nothing
            ELSE StringRest(From(s, 3 + Len(hexs)), output \o Decimal(NumberIn(16, hexs)))
  ELSE IF s[2] = "u"
    THEN LET literal == Utf16Literal(s)
         IN IF literal.out = <<>> THEN Nothing
            ELSE StringRest(literal.rest, output \o literal.out)
  ELSE Nothing

ParseString(s) == IF Peeked(s) # "\"" THEN Nothing ELSE StringRest(Tail(s), <<>>)

-----------------------------------------------------------------------------
NumberComponent == DOMAIN DigitValue \cup {"e", "E", "-", "."}

NumberRun(s) ==
  LET others == {i \in DOMAIN s : s[i] \notin NumberComponent}
  IN IF others = {} THEN s
     ELSE SubSeq(s, 1, (CHOOSE i \in others : \A j \in others : i <= j) - 1)

(* The digits std::stod finds at i.                                        *)
RECURSIVE DigitsAt(_, _)
DigitsAt(s, i) ==
  IF i > Len(s) \/ s[i] \notin DOMAIN DigitValue THEN <<>>
  ELSE <<s[i]>> \o DigitsAt(s, i + 1)

RECURSIVE NoLeadingZero(_)
NoLeadingZero(d) == IF Len(d) > 1 /\ d[1] = "0" THEN NoLeadingZero(Tail(d)) ELSE d

(* Above INT_MAX or below INT_MIN, on the digits of the absolute value.    *)
OutOfInt(negative, d) ==
  LET limit == <<"2", "1", "4", "7", "4", "8", "3", "6", "4", IF negative THEN "8" ELSE "7">>
  IN \/ Len(d) > 10
     \/ /\ Len(d) = 10
        /\ \E i \in 1 .. 10 : /\ DigitValue[d[i]] > DigitValue[limit[i]]
                              /\ \A j \in 1 .. i - 1 : d[j] = limit[j]

(* parse_number, for numbers without an exponent: an Integer unless the    *)
(* last symbol is a point; the fraction of an Integer is cut off.          *)
ParseNumber(s) ==
  LET run == NumberRun(s)
      negative == Peeked(run) = "-"
      at == IF negative THEN 2 ELSE 1
      digits == DigitsAt(run, at)
      whole == IF digits = <<>> THEN <<"0">> ELSE NoLeadingZero(digits)
      point == at + Len(digits)
      fraction == IF point <= Len(run) /\ run[point] = "." THEN DigitsAt(run, point + 1) ELSE <<>>
      sign == IF negative THEN <<"-">> ELSE <<>>
      isInt == run[Len(run)] # "."
  IN IF digits \o fraction = <<>> THEN Nothing
     ELSE Result(IF isInt /\ ~OutOfInt(negative, whole)
                   THEN Node("Integer", (IF whole = <<"0">> THEN <<>> ELSE sign) \o whole)
                   ELSE Node("Double", sign \o whole \o <<".">> \o fraction),
                 From(s, Len(run) + 1))

-----------------------------------------------------------------------------
(* insert of a std::map: the value that came first stays.                  *)
AddMember(object, key, value) ==
  IF \E i \in DOMAIN object.keys : object.keys[i] = key THEN object
  ELSE [object EXCEPT !.keys = Append(@, key), !.items = Append(@, value)]

(* check_func: a comma goes on, unless the closing bracket follows it.     *)
GoesOn(s, closing) == Peeked(s) = "," /\ ~StartsWith(Tail(s), <<closing>>)
AfterComma(s) == IF Peeked(s) = "," THEN Tail(s) ELSE s

(* The end of an array or object.                                          *)
Closed(node, s, closing) ==
  IF Peeked(s) = closing THEN Result(node, Tail(s)) ELSE Nothing

RECURSIVE ParseValue(_), Elements(_, _), Members(_, _)

(* The loop of parse_array at the next element.                            *)
Elements(s, array) ==
  LET value == ParseValue(SkipCtrlAndSpace(s))
      added == [array EXCEPT !.items = Append(@, value.node)]
      rest == SkipCtrlAndSpace(value.rest)
  IN IF value.node = Null THEN Nothing
     ELSE IF GoesOn(rest, "]") THEN Elements(Tail(rest), added)
     ELSE Closed(added, AfterComma(rest), "]")

(* The loop of parse_object at the next member.                            *)
Members(s, object) ==
  LET key == ParseString(SkipCtrlAndSpace(s))
      colon == SkipCtrlAndSpace(key.rest)
      value == ParseValue(SkipCtrlAndSpace(Tail(colon)))
      added == AddMember(object, key.node.text, value.node)
      rest == SkipCtrlAndSpace(value.rest)
  IN IF key.node = Null \/ Peeked(colon) # ":" THEN Nothing
     ELSE IF value.node = Null THEN Nothing
     ELSE IF GoesOn(rest, "}") THEN Members(Tail(rest), added)
     ELSE Closed(added, AfterComma(rest), "}")

ParseValue(s) ==
  LET first == Peeked(s)
  IN CASE s = <<>> -> Nothing
       [] first = "{" -> IF StartsWith(Tail(s), <<"}">>)
                           THEN Result(JsonObject(<<>>, <<>>), From(s, 3))
                           ELSE Members(Tail(s), JsonObject(<<>>, <<>>))
       [] first = "[" -> IF StartsWith(Tail(s), <<"]">>)
                           THEN Result(JsonArray(<<>>), From(s, 3))
                           ELSE Elements(Tail(s), JsonArray(<<>>))
       [] first = "\"" -> ParseString(s)
       [] first \in DOMAIN DigitValue \cup {"-"} -> ParseNumber(s)
       [] first = "null" -> Result(Node("Null", <<>>), Tail(s))
       [] first \in {"true", "false"} -> Result(Node("Boolean", <<first>>), Tail(s))
       [] OTHER -> Nothing

(* What follows the value is not looked at.                                *)
fromString(s) == ParseValue(SkipCtrlAndSpace(SkipBom(s))).node

-----------------------------------------------------------------------------
(* JsonString::toString: the characters that are printed after a backslash.*)
PrintedEscape ==
  ("\\" :> "\\") @@ ("\"" :> "\"") @@ ("BS" :> "b") @@ ("FF" :> "f")
  @@ ("LF" :> "n") @@ ("CR" :> "r") @@ ("TAB" :> "t")

RECURSIVE Printed(_)
Printed(text) ==
  IF text = <<>> THEN <<>>
  ELSE (IF text[1] \in DOMAIN PrintedEscape THEN <<"\\", PrintedEscape[text[1]]>>
                                            ELSE <<text[1]>>)
       \o Printed(Tail(text))
PrintedString(text) == <<"\"">> \o Printed(text) \o <<"\"">>

(* std::to_string of a double: six digits after the point.                 *)
PrintedDouble(text) ==
  LET fraction == Len(text) - Find(text, <<".">>)
  IN IF fraction >= 6 THEN SubSeq(text, 1, Len(text) - (fraction - 6))
     ELSE text \o [k \in 1 .. 6 - fraction |-> "0"]

NewLine(fmt, depth) ==
  IF fmt = "NEWLINE" THEN <<"LF">> \o [k \in 1 .. depth |-> "TAB"] ELSE <<>>
AfterItem(fmt, last) ==
  IF last THEN <<>> ELSE IF fmt = "SPACE" THEN <<",", " ">> ELSE <<",">>

RECURSIVE toString(_, _, _), Listed(_, _, _, _)

(* The items of a node from the i-th on.                                   *)
Listed(node, i, fmt, depth) ==
  IF i > Len(node.items) THEN <<>>
  ELSE NewLine(fmt, depth + 1)
       \o (IF node.type = "Array" THEN <<>>
           ELSE PrintedString(node.keys[i])
                \o (IF fmt = "RAW" THEN <<":">> ELSE <<":", " ">>))
       \o toString(node.items[i], fmt, depth + 1)
       \o AfterItem(fmt, i = Len(node.items))
       \o Listed(node, i + 1, fmt, depth)

toString(node, fmt, depth) ==
  LET list == Listed(node, 1, fmt, depth)
              \o (IF node.items = <<>> THEN <<>> ELSE NewLine(fmt, depth))
  IN CASE node.type = "String" -> PrintedString(node.text)
       [] node.type = "Integer" -> node.text
       [] node.type = "Double" -> PrintedDouble(node.text)
       [] node.type = "Boolean" -> node.text
       [] node.type = "Null" -> <<"null">>
       [] node.type = "Array" -> <<"[">> \o list \o <<"]">>
       [] node.type = "Object" -> <<"{">> \o list \o <<"}">>

=============================================================================

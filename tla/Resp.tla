--------------------------------- MODULE Resp ---------------------------------
(***************************************************************************)
(* The RESP parser of the server (resp.cpp) and the encoder of the terminal*)
(* client (redis_client.cpp) over sequences of characters.  The parser is  *)
(* started afresh for each attempt on the bytes received so far: when they *)
(* end too early it throws, and only the text of the exception says where. *)
(* A length_error is none of the runtime_errors handle_client catches.      *)
(***************************************************************************)
EXTENDS Integers, Sequences, SequencesExt

Digits == <<"0", "1", "2", "3", "4", "5", "6", "7", "8", "9">>
CRLF == <<"CR", "LF">>

Decimal(n) == <<Digits[n + 1]>>           \* for the lengths below ten used here

\* RespValue
RespValue(type) == [type |-> type, str_val |-> <<>>, int_val |-> 0, array_val |-> <<>>]
Text(type, str) == [RespValue(type) EXCEPT !.str_val = str]
Integer(n) == [RespValue("Integer") EXCEPT !.int_val = n]
Array(elements) == [RespValue("Array") EXCEPT !.array_val = elements]

Parsed(v, p) == [err |-> "", val |-> v, pos |-> p]
Throw(message) == [err |-> message]

LengthError == "length_error"
MaxReserve == 2 ^ 30          \* elements a vector can be given room for

-----------------------------------------------------------------------------
(* The parser: b is the buffer, p the position of its next character.          *)

\* stoul and stoll of a line: the digits it starts with, after a minus sign.
\* A negative n stands for 2^64 + n where the code has a size_t.
IsNumber(line) ==
  /\ line # <<>>
  /\ line[IF line[1] = "-" /\ Len(line) > 1 THEN 2 ELSE 1] \in ToSet(Digits)
NumberOf(line) ==
  LET negative == line[1] = "-"
      digits == IF negative THEN Tail(line) ELSE line
      end == SelectInSubSeq(digits, 1, Len(digits), LAMBDA c : c \notin ToSet(Digits))
      run == IF end = 0 THEN digits ELSE SubSeq(digits, 1, end - 1)
      n == FoldLeft(LAMBDA a, c : 10 * a + (CHOOSE d \in 0 .. 9 : Digits[d + 1] = c), 0, run)
  IN  IF negative THEN -n ELSE n

\* Up to the newline, less the character before it; without one the length
\* wraps around.
read_line(b, p) ==
  LET nl == SelectInSubSeq(b, p, Len(b), LAMBDA c : c = "LF")
  IN  IF nl = 0 THEN Throw("Incomplete line")
      ELSE IF nl = p THEN Throw(LengthError)
      ELSE Parsed(SubSeq(b, p, nl - 2), nl + 1)

\* Bug: the two characters after the string are not waited for.
read_bulk_string_Early(b, p, length) ==
  IF (p - 1) + length > Len(b) THEN Throw("Incomplete bulk string")
  ELSE Parsed(SubSeq(b, p, p + length - 1), p + length + 2)

\* The sum of a negative length may wrap around to a small one.
read_bulk_string(b, p, length) ==
  LET end == (p - 1) + length + 2
  IN  IF end < 0 \/ end > Len(b) THEN Throw("Incomplete bulk string")
      ELSE IF length < 0 THEN Throw(LengthError)
      ELSE Parsed(SubSeq(b, p, p + length - 1), end + 1)

\* parse_simple_string and parse_error
parse_line(b, p, type) ==
  LET r == read_line(b, p)
      s == r.val
      str == IF s # <<>> /\ Last(s) = "CR" THEN Front(s) ELSE s
  IN  IF r.err # "" THEN r ELSE Parsed(Text(type, str), r.pos)

parse_integer(b, p) ==
  LET r == read_line(b, p)
  IN  IF r.err # "" THEN r
      ELSE IF ~IsNumber(r.val) THEN Throw("Invalid integer format")
      ELSE Parsed(Integer(NumberOf(r.val)), r.pos)

parse_bulk_string(b, p) ==
  LET r == read_line(b, p)
      str == read_bulk_string(b, r.pos, NumberOf(r.val))
  IN  IF r.err # "" THEN r
      ELSE IF r.val = <<"-", "1">> THEN Parsed(RespValue("BulkString"), r.pos)
      ELSE IF ~IsNumber(r.val) THEN Throw("Invalid bulk string length")
      ELSE IF str.err # "" THEN str
      ELSE Parsed(Text("BulkString", str.val), str.pos)

RECURSIVE parse(_, _), Elements(_, _, _, _)

parse_array(b, p) ==
  LET r == read_line(b, p)
  IN  IF r.err # "" THEN r
      ELSE IF ~IsNumber(r.val) THEN Throw("Invalid array length")
      ELSE IF NumberOf(r.val) \notin 0 .. MaxReserve THEN Throw(LengthError)
      ELSE Elements(b, r.pos, NumberOf(r.val), <<>>)

\* The loop of parse_array: n more elements.
Elements(b, p, n, array_val) ==
  IF n = 0 THEN Parsed(Array(array_val), p)
  ELSE LET e == parse(b, p)
       IN  IF e.err # "" THEN e ELSE Elements(b, e.pos, n - 1, Append(array_val, e.val))

parse(b, p) ==
  IF p > Len(b) THEN Throw("Incomplete command")
  ELSE CASE b[p] = "+" -> parse_line(b, p + 1, "SimpleString")
         [] b[p] = "-" -> parse_line(b, p + 1, "Error")
         [] b[p] = ":" -> parse_integer(b, p + 1)
         [] b[p] = "$" -> parse_bulk_string(b, p + 1)
         [] b[p] = "*" -> parse_array(b, p + 1)
         [] OTHER -> Throw("Unknown RESP type")
-----------------------------------------------------------------------------
(* The encoder. *)

\* send_command: the words of a command as an array of bulk strings.
Bulk(word) == <<"$">> \o Decimal(Len(word)) \o CRLF \o word \o CRLF
Encoded(words) ==
  <<"*">> \o Decimal(Len(words)) \o CRLF \o FlattenSeq([i \in DOMAIN words |-> Bulk(words[i])])
-----------------------------------------------------------------------------
(* What the parser has to do. *)

\* The null bulk string, for which RespValue has no value of its own.
Null == RespValue("Null")

RECURSIVE Wire(_), ReadAs(_)
\* The RESP form of a value.
Wire(v) ==
  CASE v.type = "SimpleString" -> <<"+">> \o v.str_val \o CRLF
    [] v.type = "Error"        -> <<"-">> \o v.str_val \o CRLF
    [] v.type = "Integer"      -> <<":">> \o (IF v.int_val < 0 THEN <<"-">> \o Decimal(-v.int_val)
                                              ELSE Decimal(v.int_val)) \o CRLF
    [] v.type = "BulkString"   -> Bulk(v.str_val)
    [] v.type = "Null"         -> <<"$", "-", "1">> \o CRLF
    [] v.type = "Array"        -> <<"*">> \o Decimal(Len(v.array_val)) \o CRLF
                                  \o FlattenSeq([i \in DOMAIN v.array_val |-> Wire(v.array_val[i])])

\* The value as the handlers are to see it: null is an empty string.
ReadAs(v) ==
  IF v.type = "Null" THEN RespValue("BulkString")
  ELSE [v EXCEPT !.array_val = [i \in DOMAIN @ |-> ReadAs(@[i])]]

RECURSIVE Boundaries(_)
\* The lengths of the proper beginnings of Wire(v) that end between two elements.
Boundaries(v) ==
  IF v.type # "Array" THEN {0}
  ELSE LET w(i) == Wire([v EXCEPT !.array_val = SubSeq(@, 1, i)])
       IN  {0} \cup UNION {{Len(w(i - 1)) + n : n \in Boundaries(v.array_val[i])}
                           : i \in DOMAIN v.array_val}
=============================================================================

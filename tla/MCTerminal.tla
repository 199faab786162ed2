------------------------------ MODULE MCTerminal ------------------------------
(* A small instance of Terminal: words of one letter, replies of one and of   *)
(* two lines, a value with a zero byte.  "*" is both a word and the mark of   *)
(* an array.                                                                  *)
EXTENDS Terminal

SAVE == <<<<"S">>>>
GET == <<<<"G">>, <<"k">>>>
HSET == <<<<"H">>, <<"k">>, <<"f">>, <<"v">>>>   \* too large for the buffer
MCTyped == {SAVE, GET, HSET}
MCKEYS == <<<<"K">>, <<"*">>>>
MCINFO == <<<<"I">>>>
MCReply ==
  [c \in MCTyped \cup {MCKEYS, MCINFO} |->
     CASE c = MCKEYS -> <<ERR>>                    \* handle_keys takes no pattern
       [] c = MCINFO -> <<<<"$9">>, <<"uptime:1">>>>
       [] c = SAVE   -> <<<<"+OK">>>>
       [] c = GET    -> <<<<"$3">>, <<"a", NUL, "b">>>>
       [] c = HSET   -> <<<<":1">>>>]
MCDollar == {"$9", "$3"}
MCColon == {"uptime:1"}

\* Values of every type, nested arrays among them.
Scalars ==
  {Text("SimpleString", <<"S">>), Text("Error", <<>>), Integer(7), Integer(-3),
   Null, Text("BulkString", <<>>), Text("BulkString", <<"*", "CR", "LF">>)}
Samples ==
  Scalars \cup {Array(<<>>)} \cup {Array(<<a, b>>) : a, b \in Scalars}
          \cup {Array(<<Array(<<a>>), Integer(7)>>) : a \in Scalars}

\* Evaluated before the first connection.
ParserIsExact == conns = 0 /\ tries = 0 => ParsesExactly(Samples)
=============================================================================

------------------------------ MODULE Connection ------------------------------
(***************************************************************************)
(* One connection as the server sees it: the receive loop of handle_client *)
(* (main.cpp 75-128), its buffer and its use of the RESP parser.  TCP      *)
(* delivers the bytes of the peer in order, cut anywhere.  process_command *)
(* is the function Reply from commands to the lines of their reply; a line *)
(* is a sequence of symbols here, its end another symbol.  Replies are     *)
(* short: the blocking write of one returns, or fails.                     *)
(***************************************************************************)
EXTENDS Resp

CONSTANTS BUFFER_SIZE,  \* bytes of the receive buffer (8192 in the code)
          Margin,       \* a remainder this close to the end is too large (1024)
          Reply         \* the lines of the reply to each command of the client

ASSUME ConnectionAssumption == Margin \in Nat \ {0} /\ BUFFER_SIZE \in Nat /\ BUFFER_SIZE > Margin + 1

VARIABLES out,          \* bytes on their way to the server
          in,           \* symbols on their way to the client
          buf,          \* the first buf_pos bytes of the server's buffer
          server,       \* the server's end: "none", "open", "closing", then "closed",
                        \* or "reset" when bytes were left unread
          why,          \* what the server closed its end for
          handled       \* the values given to process_command
connection == <<out, in, buf, server, why, handled>>

EndOfLine == "\\r\\n"
Line(l) == Append(l, EndOfLine)
ERR == <<"-ERR">>
WriteFailed == "write failed"

Words(v) == [i \in DOMAIN v.array_val |-> v.array_val[i].str_val]
process_command(v) ==
  IF v.type = "Array" /\ Words(v) \in DOMAIN Reply THEN Reply[Words(v)] ELSE <<ERR>>

\* What the server writes in answer to a value.
Written(v) ==
  LET lines == process_command(v) IN FlattenSeq([i \in DOMAIN lines |-> Line(lines[i])])

Closed ==
  /\ out = <<>> /\ in = <<>> /\ buf = <<>> /\ server = "none" /\ why = "" /\ handled = <<>>

\* accept and a new thread in handle_client.
Accept ==
  /\ out' = <<>> /\ in' = <<>> /\ buf' = <<>> /\ server' = "open" /\ why' = "" /\ handled' = <<>>

RECURSIVE ProcessAll(_, _)
\* Bug: one command for each read.
ProcessAll_One(rest, values) ==
  LET r == parse(rest, 1)
  IN  IF rest = <<>> THEN [rest |-> rest, values |-> values, err |-> ""]
      ELSE IF r.err # "" THEN [rest |-> rest, values |-> values, err |-> r.err]
      ELSE [rest |-> SubSeq(rest, r.pos, Len(rest)), values |-> Append(values, r.val), err |-> ""]

\* The loop over the commands in the buffer: rest is what lies from
\* processed_pos on.
ProcessAll(rest, values) ==
  LET r == parse(rest, 1)
  IN  IF rest = <<>> THEN [rest |-> rest, values |-> values, err |-> ""]
      ELSE IF r.err # "" THEN [rest |-> rest, values |-> values, err |-> r.err]
      ELSE ProcessAll(SubSeq(rest, r.pos, Len(rest)), Append(values, r.val))

\* Bug: the buffer may fill up.
Refusal_Unbounded(d) == IF d.err \in {"", "Incomplete command"} THEN "" ELSE d.err

\* The error that ends the connection after a read, if any.
Refusal(d) ==
  IF d.err \notin {"", "Incomplete command"} THEN d.err
  ELSE IF Len(d.rest) >= BUFFER_SIZE - Margin THEN "Command too large" ELSE ""

Replies(values) == FlattenSeq([i \in DOMAIN values |-> Written(values[i])])

\* The line that tells the client why.  An exception that nothing catches ends
\* the whole process, without a word.
Parting(w) == IF w \in {"", WriteFailed, LengthError} THEN <<>> ELSE Line(ERR)

\* What the loop leaves: the commands in d were handled and answered, the rest
\* is kept for the next time or refused.
Processed(d) ==
  /\ buf' = d.rest
  /\ handled' = handled \o d.values
  /\ why' = Refusal(d)
  /\ server' = IF why' = "" THEN "open" ELSE "closing"
  /\ in' = in \o Replies(d.values) \o Parting(why')

\* The reply to the m-th of them cannot be written, and the others are left.
WriteFails(d, m) ==
  /\ buf' = d.rest
  /\ handled' = handled \o SubSeq(d.values, 1, m)
  /\ why' = WriteFailed
  /\ server' = "closing"
  /\ in' = in \o Replies(SubSeq(d.values, 1, m - 1))

\* The client's descriptor is readable: read what there is room for and handle
\* what is complete.
Receive ==
  /\ server = "open"
  /\ \E n \in 1 .. Len(out) :
        /\ n <= BUFFER_SIZE - Len(buf) - 1
        /\ out' = SubSeq(out, n + 1, Len(out))
        /\ LET d == ProcessAll(buf \o SubSeq(out, 1, n), <<>>)
           IN  Processed(d) \/ \E m \in DOMAIN d.values : WriteFails(d, m)

\* The cleanup of handle_client and close.
Close ==
  /\ server = "closing"
  /\ server' = IF out = <<>> THEN "closed" ELSE "reset"
  /\ out' = <<>> /\ buf' = <<>>
  /\ UNCHANGED <<in, why, handled>>

Gone == server \in {"closed", "reset"}

\* The reset overtakes what was on its way to the client.
Reset ==
  /\ server = "reset" /\ in # <<>>
  /\ in' = <<>>
  /\ UNCHANGED <<out, buf, server, why, handled>>
-----------------------------------------------------------------------------
(* Properties. *)

\* While a connection is open there is room for another byte: read is never
\* asked for none, whose answer 0 the loop would take for the end of the
\* connection (main.cpp 76-79 against 122-127).
RoomLeft == server = "open" => Len(buf) < BUFFER_SIZE - 1

\* The form of a value is parsed to that value, a null bulk string to an empty
\* one, and no byte more is consumed, whatever follows; of a beginning of it the
\* parser says "Incomplete command", the one answer handle_client waits on,
\* exactly when it ends between two elements, and never anything but an
\* incompleteness (main.cpp 102, resp.cpp 9-121).  There is no form of the null
\* array: parse_array has none, its count ends in a length_error.
ParsesExactly(values) ==
  \A v \in values :
     LET w == Wire(v)
     IN  /\ \A u \in values : parse(w \o Wire(u), 1) = Parsed(ReadAs(v), Len(w) + 1)
         /\ \A n \in 0 .. Len(w) - 1 :
               LET err == parse(SubSeq(w, 1, n), 1).err
               IN  IF n \in Boundaries(v) THEN err = "Incomplete command"
                   ELSE err \in {"Incomplete line", "Incomplete bulk string"}

\* "Not enough data for a complete command, wait for more" (main.cpp:103): a
\* command is not refused because a part of it has not arrived.
PartsAreWaitedFor == why \notin {"Incomplete line", "Incomplete bulk string"}
=============================================================================

------------------------------- MODULE Terminal -------------------------------
(***************************************************************************)
(* The terminal client (clients/tui) and one server connection: the user   *)
(* picks a view, the client sends a command, waits once for data with a    *)
(* timeout, and takes one line out of its parser as the response.  What   *)
(* is left in the parser's buffer outlives the connection.                 *)
(***************************************************************************)
EXTENDS Connection

CONSTANTS Typed,        \* commands the user types in the command interface
          KEYS, INFO,   \* the commands of the data browser and the monitor
          Dollar, Colon,\* symbols a line with a "$" in front starts with, and
                        \* symbols that have a ":" in them
          NUL,          \* the symbol of a zero byte
          SockBuf,      \* bytes the client's socket takes before the server reads
          MaxSent,      \* commands in a behaviour
          MaxConns      \* connections in a behaviour

ASSUME TerminalAssumption ==
  /\ SockBuf \in Nat \ {0} /\ MaxSent \in Nat /\ MaxConns \in Nat
  /\ Typed \cup {KEYS, INFO} = DOMAIN Reply

VARIABLES connected,        \* RedisClient::connected
          buffer,           \* RespParser::buffer from pos on
          view,             \* the view whose get_response is running, or "menu"
          server_info,      \* what the monitor shows
          sent,             \* commands sent whole on this connection
          answers,          \* responses on this connection that were not empty
          tries, conns,     \* commands and connections so far
          short,            \* a command went out in part
          left,             \* what an earlier connection had left in buffer
          cut,              \* a zero byte hid what came after it
          drift             \* something after which lines and commands need not match
client ==
  <<connected, buffer, view, server_info, sent, answers, tries, conns, short, left, cut, drift>>
vars == <<connection, client>>

Init ==
  /\ Closed
  /\ connected = FALSE /\ buffer = <<>> /\ view = "menu"
  /\ server_info = {}
  /\ sent = <<>> /\ answers = <<>> /\ tries = 0 /\ conns = 0 /\ short = FALSE
  /\ left = <<>> /\ cut = FALSE /\ drift = FALSE

-----------------------------------------------------------------------------
(* handle_connection *)

connect ==
  /\ view = "menu" /\ ~connected /\ conns < MaxConns
  /\ why # LengthError                      \* the server still runs
  /\ Accept
  /\ connected' = TRUE
  /\ sent' = <<>> /\ answers' = <<>> /\ conns' = conns + 1
  /\ short' = FALSE /\ left' = buffer /\ cut' = FALSE /\ drift' = (buffer # <<>>)
  /\ UNCHANGED <<buffer, view, server_info, tries>>

\* The server's end is not followed any further.
stop ==
  /\ view = "menu" /\ connected
  /\ out' = <<>> /\ in' = <<>> /\ buf' = <<>> /\ server' = "none" /\ handled' = <<>>
  /\ why' = IF why = LengthError THEN why ELSE ""
  /\ connected' = FALSE /\ sent' = <<>> /\ answers' = <<>>
  /\ UNCHANGED <<buffer, view, server_info, tries, conns, short, left, cut, drift>>

handle_connection == connect \/ stop
-----------------------------------------------------------------------------
(* send_command *)

\* The socket does not block: it takes what fits, and a command that went out
\* in part is reported as an error.  A server that closed its end gets nothing
\* and answers with a reset.
send_command(cmd) ==
  LET bytes == Encoded(cmd)
      n == IF Len(bytes) <= SockBuf - Len(out) THEN Len(bytes) ELSE SockBuf - Len(out)
  IN  IF Gone
      THEN in' \in {in, <<>>} /\ UNCHANGED <<sent, short, out, buf, server, why, handled>>
      ELSE /\ out' = out \o SubSeq(bytes, 1, n)
           /\ sent' = IF n = Len(bytes) THEN Append(sent, cmd) ELSE sent
           /\ short' = (short \/ n \in 1 .. (Len(bytes) - 1))
           /\ UNCHANGED <<in, buf, server, why, handled>>

\* Bug: it is sent without a look at connected.
SendFails_Blind(cmd) == server = "open" /\ Len(Encoded(cmd)) > SockBuf - Len(out)

SendFails(cmd) == ~connected \/ (server = "open" /\ Len(Encoded(cmd)) > SockBuf - Len(out))

\* From the menu into view v: nothing more happens when the command cannot be
\* sent, otherwise get_response begins.
Ask(v, cmd) ==
  /\ view = "menu" /\ tries < MaxSent
  /\ tries' = tries + 1
  /\ IF connected THEN send_command(cmd) ELSE UNCHANGED <<connection, sent, short>>
  /\ view' = IF SendFails(cmd) THEN "menu" ELSE v
  /\ drift' = (drift \/ SendFails(cmd) \/ Len(Reply[cmd]) > 1)
  /\ UNCHANGED <<connected, buffer, answers, conns, left, cut>>

\* (The histories are kept for display.)
handle_command_interface(cmd) == Ask("command", cmd) /\ UNCHANGED server_info

refresh_data == Ask("data", KEYS) /\ UNCHANGED server_info

fetch_server_info == Ask("monitor", INFO) /\ server_info' = {}
-----------------------------------------------------------------------------
(* get_response *)

\* Bug: the line stays in front.
NextMessage_Again(b) ==
  [msg |-> SubSeq(b, 1, SelectInSeq(b, LAMBDA s : s = EndOfLine)), rest |-> b]

\* RespParser::get_next_message: up to the next end of line, if there is one.
NextMessage(b) ==
  LET end == SelectInSeq(b, LAMBDA s : s = EndOfLine)
  IN  [msg |-> SubSeq(b, 1, end), rest |-> SubSeq(b, end + 1, Len(b))]

\* The keys in a reply to KEYS: what follows a line that starts with "$".
KeysOf(msg) ==
  LET begins == {1} \cup {i + 1 : i \in {j \in DOMAIN msg : msg[j] = EndOfLine}}
      end(i) == SelectInSubSeq(msg, i, Len(msg), LAMBDA s : s = EndOfLine)
  IN  {msg[end(i) + 1] : i \in {j \in begins \cap DOMAIN msg : msg[j] \in Dollar
                                                             /\ end(j) \in 1 .. (Len(msg) - 1)}}

\* The view goes on with the response and returns to the menu.  Only the data
\* browser would ask for more, the values of the keys in it: a response is one
\* line, so it finds none, and those GETs are never sent.
Answered(msg) ==
  /\ view' = IF view = "data" /\ KeysOf(msg) # {} THEN "values" ELSE "menu"
  /\ server_info' = IF view = "monitor" THEN ToSet(msg) \cap Colon ELSE server_info
  /\ answers' = IF msg = <<>> THEN answers ELSE Append(answers, msg)
  /\ drift' = (drift \/ msg = <<>> \/ cut')
  /\ UNCHANGED <<sent, tries, conns, short, left>>

\* Nothing arrives in time.
Timeout ==
  /\ view # "menu"
  /\ Answered(<<>>)
  /\ UNCHANGED <<connection, connected, buffer, cut>>

\* A chunk as the C string it is appended as.
CString(chunk) == SubSeq(chunk, 1, SelectInSeq(Append(chunk, NUL), LAMBDA s : s = NUL) - 1)

\* recv takes what has arrived.
Recv ==
  /\ view # "menu"
  /\ \E n \in 1 .. Len(in) :
        LET chunk == SubSeq(in, 1, n)
            m == NextMessage(buffer \o CString(chunk))
        IN  /\ in' = SubSeq(in, n + 1, Len(in))
            /\ buffer' = m.rest
            /\ cut' = (cut \/ CString(chunk) # chunk)
            /\ Answered(m.msg)
  /\ UNCHANGED <<out, buf, server, why, handled, connected>>

\* recv meets the end of the connection.
RecvEnd ==
  /\ view # "menu" /\ Gone /\ in = <<>>
  /\ connected' = FALSE
  /\ Answered(<<>>)
  /\ UNCHANGED <<connection, buffer, cut>>
-----------------------------------------------------------------------------
\* The server's last two steps on a connection are taken as one: the client
\* cannot tell when the second happens.
Next ==
  \/ server = "closing" /\ Close /\ UNCHANGED client
  \/ /\ server # "closing"
     /\ \/ handle_connection
        \/ \E cmd \in Typed : handle_command_interface(cmd)
        \/ refresh_data \/ fetch_server_info
        \/ Timeout \/ Recv \/ RecvEnd
        \/ (Receive \/ Reset) /\ UNCHANGED client

Spec == Init /\ [][Next]_vars

\* select returns in the server's thread when there is something to read: weak
\* fairness of Receive, written with its guard and with what it does to out.
FairSpec ==
  Spec /\ ([]<>(server # "open" \/ out = <<>>) \/ []<><<Len(out') < Len(out)>>_vars)
-----------------------------------------------------------------------------
(* Properties. *)

\* The values of the variables; a view waits for a response on a connection only.
TypeOK ==
  /\ connected \in BOOLEAN /\ short \in BOOLEAN /\ cut \in BOOLEAN /\ drift \in BOOLEAN
  /\ server \in {"none", "open", "closing", "closed", "reset"} /\ (connected => server # "none")
  /\ view \in {"menu", "command", "data", "values", "monitor"} /\ (view # "menu" => connected)
  /\ server_info \subseteq Colon
  /\ Len(sent) <= tries /\ tries <= MaxSent /\ conns <= MaxConns

Value(cmd) == Array([i \in DOMAIN cmd |-> Text("BulkString", cmd[i])])
BytesOf(k) == Len(FlattenSeq([i \in 1 .. k |-> Encoded(sent[i])]))

\* However TCP cuts the stream, the server has handled exactly the commands all
\* of whose bytes it has read, each once, in order and with the words that were
\* typed; also when it is about to refuse the rest (main.cpp 84-119).  After a
\* reply that could not be written it has handled the first of them.  A command
\* that the client sent in part spoils what follows.
HandledExactly ==
  server \in {"open", "closing"} /\ ~short =>
     LET read == BytesOf(Len(sent)) - Len(out)
         whole == CHOOSE k \in 0 .. Len(sent) :
                     BytesOf(k) <= read /\ \A j \in k + 1 .. Len(sent) : BytesOf(j) > read
         commands == [i \in 1 .. whole |-> Value(sent[i])]
     IN  IF why = WriteFailed THEN IsPrefix(handled, commands) ELSE handled = commands

\* The responses the user sees on a connection are what an earlier connection
\* had left in the parser and then the lines the server wrote, from the first,
\* none skipped and none twice, however late they come and however TCP cuts
\* them (redis_client.cpp 67-102).  That ends with a zero byte in a reply: the
\* client drops it and what came with it (redis_client.cpp 87).
ShownInOrder ==
  server # "none" /\ ~cut =>
     IsPrefix(FlattenSeq(answers), left \o Replies(handled) \o Parting(why))

\* As long as each reply had one line, without a zero byte, each came in time and
\* whole, and nothing of an earlier connection was left, the response shown for a command is the reply to it,
\* or the error with which the server closed (redis_tui.cpp 92-103).
OwnReply ==
  ~drift => \A i \in DOMAIN answers :
               \/ answers[i] = Line(ERR)
               \/ i \in DOMAIN sent /\ answers[i] = Line(Reply[sent[i]][1])

\* A command sent whole is handled in the end, unless the connection ends or the
\* client sends a part of another (main.cpp 84-119).  Replies are short here: one
\* the client does not take in time would hold the server in its write.
NoCommandStuck ==
  (server = "open" /\ Len(handled) < Len(sent))
     ~> (server # "open" \/ short \/ Len(handled) = Len(sent))
=============================================================================

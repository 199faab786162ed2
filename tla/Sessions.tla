------------------------------ MODULE Sessions ------------------------------
(***************************************************************************)
(* Connections that share one Database (main.cpp starts a thread for each, *)
(* commands.cpp processes its commands).  Nothing locks the Database, so    *)
(* the threads interleave between the Database calls a handler makes: pc[c] *)
(* is the call the thread of connection c makes next, and every call is one *)
(* action.  A call is taken as atomic; that the code does not make it so is *)
(* a matter of its own (see the README).                                    *)
(*                                                                         *)
(* The commands are MULTI, EXEC, DISCARD, WATCH, UNWATCH and, for the data, *)
(* one of each pattern of calls: SET (write, count), SADD (write, count if  *)
(* changed), LPUSH, LPOP (write, test, count), GET (three reads), EXISTS    *)
(* (one read), DEL (test, count, erase), PEXPIRE (test and write, count)    *)
(* and EVAL of a script that calls SET (write, no count).  HSET, which can  *)
(* return an error between a write and its count, is in module Commands.    *)
(***************************************************************************)
EXTENDS Keyspace

CONSTANTS Client,       \* connections
          Served,       \* keys whose slots belong to this node
          Request,      \* data commands the clients send
          MaxRequests,  \* bound on the commands the clients send
          MaxNow        \* bound on the clock

Op == {"SET", "GET", "DEL", "EXISTS", "LPUSH", "LPOP", "SADD", "PEXPIRE", "EVAL"}

ASSUME SessionsAssumption ==
  /\ Served \subseteq Key
  /\ Request \subseteq [op : Op, key : Key, arg : String]
  /\ MaxRequests \in Nat /\ MaxNow \in Nat \ {0}

VARIABLES
  data,            \* Database::data
  now,             \* the system clock (ms)
  pc,              \* next Database call of the thread
  cmd,             \* the command being handled
  ret,             \* the reply it will make
  in_transaction, transaction_queue, watched_keys,   \* CommandProcessor
  to_check,        \* watched keys EXEC has still to compare
  results,         \* replies EXEC has collected
  reply,           \* [op, val] of the last command that did not fail to parse
  sent,            \* commands the clients have sent
  \* history:
  writes,          \* acknowledged writes of a key
  seen,            \* writes of a key when the connection last watched it
  kept             \* keys watched, and since then neither removed from data
                   \* nor written by a script

server == <<data, now>>
session == <<in_transaction, watched_keys, to_check>>
running == <<pc, cmd, ret, transaction_queue, results, reply>>
history == <<writes, seen, kept>>
vars == <<server, session, running, sent, history>>

\* Replies.
Nil == <<"nil">>
OK == <<"status", "OK">>
Err == <<"err">>
Moved == <<"moved">>
Bulk(s) == <<"bulk", s>>
Int64(n) == <<"int", n>>
Array(rs) == <<"array", rs>>
ExecAbort == <<"execabort">>

\* The call the handler of op makes first, and the one it makes first when it
\* runs from the queue: the dispatch of a queued command (commands.cpp 38-123)
\* knows fewer commands than the immediate one.  CONTROL stands for MULTI,
\* WATCH and UNWATCH, which are queued like any other command.
FirstCall(op) ==
  CASE op = "SET" -> "set"     [] op = "LPUSH" -> "lpush"
    [] op \in {"GET", "EXISTS"} -> "exists"  [] op = "LPOP" -> "lpop"
    [] op = "DEL" -> "del_exists" [] op = "SADD" -> "sadd"
    [] op = "PEXPIRE" -> "pexpire" [] op = "EVAL" -> "eval"
QueuedCall(op) ==
  IF op \in {"PEXPIRE", "EVAL", "CONTROL"} THEN "unknown" ELSE FirstCall(op)

Queueable == Request \cup [op : {"CONTROL"}, key : Key, arg : {EmptyString}]

Sends(c) ==
  /\ pc[c] = "idle" /\ sent < MaxRequests
  /\ sent' = sent + 1

\* The reply that ends a command which made no Database call.
Say(c, op, r) == reply' = [reply EXCEPT ![c] = [op |-> op, val |-> r]]

-----------------------------------------------------------------------------
(* Commands that only touch the connection's own state *)

\* Bug: only reads are routed.
Redirected_ReadsOnly(r) == r.op = "GET" /\ r.key \notin Served

\* The cluster table, which main fills in, gives the key to another node; only
\* these commands ask it.
Routable == {"SET", "GET", "DEL", "EXISTS"}
Redirected(r) == r.op \in Routable /\ r.key \notin Served

\* process_command outside a transaction: run the handler.
Dispatch(c, r) ==
  /\ Sends(c) /\ ~in_transaction[c] /\ ~Redirected(r)
  /\ pc' = [pc EXCEPT ![c] = FirstCall(r.op)]
  /\ cmd' = [cmd EXCEPT ![c] = r]
  /\ UNCHANGED <<server, session, ret, transaction_queue, results, reply, history>>

\* An answer outside a transaction that leaves everything as it is.
AnswerAtOnce(c, op, v) ==
  /\ Sends(c) /\ ~in_transaction[c]
  /\ Say(c, op, v)
  /\ UNCHANGED <<server, session, pc, cmd, ret, transaction_queue, results, history>>

Redirect(c, r) == Redirected(r) /\ AnswerAtOnce(c, r.op, Moved)

\* EXEC and DISCARD outside a transaction are errors.
WithoutMulti(c, op) == AnswerAtOnce(c, op, Err)

\* process_command inside a transaction, for anything but EXEC and DISCARD: the
\* table is not asked, neither now nor when the command runs.
Enqueue(c, r) ==
  /\ Sends(c) /\ in_transaction[c]
  /\ transaction_queue' = [transaction_queue EXCEPT ![c] = Append(@, r)]
  /\ Say(c, r.op, <<"status", "QUEUED">>)
  /\ UNCHANGED <<server, session, pc, cmd, ret, results, history>>

handle_multi(c) ==
  /\ Sends(c) /\ ~in_transaction[c]
  /\ in_transaction' = [in_transaction EXCEPT ![c] = TRUE]
  /\ transaction_queue' = [transaction_queue EXCEPT ![c] = <<>>]
  /\ Say(c, "MULTI", OK)
  /\ UNCHANGED <<server, watched_keys, to_check, pc, cmd, ret, results, history>>

\* Bug: DISCARD leaves the queue.
handle_discard_KeepsQueue(c) ==
  /\ Sends(c) /\ in_transaction[c]
  /\ in_transaction' = [in_transaction EXCEPT ![c] = FALSE]
  /\ Say(c, "DISCARD", OK)
  /\ UNCHANGED <<server, watched_keys, to_check, pc, cmd, ret, transaction_queue,
                 results, history>>

\* The watched keys stay watched.
handle_discard(c) ==
  /\ Sends(c) /\ in_transaction[c]
  /\ in_transaction' = [in_transaction EXCEPT ![c] = FALSE]
  /\ transaction_queue' = [transaction_queue EXCEPT ![c] = <<>>]
  /\ Say(c, "DISCARD", OK)
  /\ UNCHANGED <<server, watched_keys, to_check, pc, cmd, ret, results, history>>

\* WATCH of one key (of several keys: one after the other), a single call.
handle_watch(c, k) ==
  /\ Sends(c) /\ ~in_transaction[c]
  /\ watched_keys' = [watched_keys EXCEPT ![c] = Put(@, k, get_mod_count(data, k))]
  /\ seen' = [seen EXCEPT ![c][k] = writes[k]]
  /\ kept' = [kept EXCEPT ![c] = @ \cup {k}]
  /\ Say(c, "WATCH", OK)
  /\ UNCHANGED <<server, in_transaction, to_check, pc, cmd, ret,
                 transaction_queue, results, writes>>

handle_unwatch(c) ==
  /\ Sends(c) /\ ~in_transaction[c]
  /\ watched_keys' = [watched_keys EXCEPT ![c] = EmptyMap]
  /\ Say(c, "UNWATCH", OK)
  /\ UNCHANGED <<server, in_transaction, to_check, pc, cmd, ret,
                 transaction_queue, results, history>>

-----------------------------------------------------------------------------
(* EXEC *)

handle_exec(c) ==
  /\ Sends(c) /\ in_transaction[c]
  /\ to_check' = [to_check EXCEPT ![c] = DOMAIN watched_keys[c]]
  /\ results' = [results EXCEPT ![c] = <<>>]
  /\ pc' = [pc EXCEPT ![c] = "check"]
  /\ UNCHANGED <<server, in_transaction, watched_keys, cmd, ret,
                 transaction_queue, reply, history>>

\* One turn of the loop over watched_keys, in the order of the hash table.
ExecCheck(c, k) ==
  /\ pc[c] = "check" /\ k \in to_check[c]
  /\ get_mod_count(data, k) = watched_keys[c][k]
  /\ to_check' = [to_check EXCEPT ![c] = @ \ {k}]
  /\ UNCHANGED <<server, in_transaction, watched_keys, running, sent, history>>

\* The transaction is over: leave it and forget the watches.
EndTransaction(c, r) ==
  /\ transaction_queue' = [transaction_queue EXCEPT ![c] = <<>>]
  /\ in_transaction' = [in_transaction EXCEPT ![c] = FALSE]
  /\ watched_keys' = [watched_keys EXCEPT ![c] = EmptyMap]
  /\ to_check' = [to_check EXCEPT ![c] = {}]
  /\ pc' = [pc EXCEPT ![c] = "idle"]
  /\ Say(c, "EXEC", r)
  /\ UNCHANGED <<server, cmd, ret, results, sent, history>>

ExecAborts(c, k) ==
  /\ pc[c] = "check" /\ k \in to_check[c]
  /\ get_mod_count(data, k) # watched_keys[c][k]
  /\ EndTransaction(c, ExecAbort)

ExecChecked(c) ==
  /\ pc[c] = "check" /\ to_check[c] = {}
  /\ pc' = [pc EXCEPT ![c] = "next"]
  /\ UNCHANGED <<server, session, cmd, ret, transaction_queue, results, reply,
                 sent, history>>

\* The command at the head of the queue starts; Finish takes it off.
ExecNext(c) ==
  /\ pc[c] = "next" /\ transaction_queue[c] # <<>>
  /\ cmd' = [cmd EXCEPT ![c] = Head(transaction_queue[c])]
  /\ pc' = [pc EXCEPT ![c] = QueuedCall(Head(transaction_queue[c]).op)]
  /\ UNCHANGED <<server, session, ret, transaction_queue, results, reply, sent,
                 history>>

ExecEnds(c) ==
  /\ pc[c] = "next" /\ transaction_queue[c] = <<>>
  /\ EndTransaction(c, Array(results[c]))

-----------------------------------------------------------------------------
(* The Database calls of the data commands *)

\* The reply r of op reports a change of the key.
Acknowledges(op, r) ==
  \/ op \in {"SET", "LPUSH"}
  \/ op = "EVAL" /\ r = OK
  \/ op = "LPOP" /\ r # Nil
  \/ op \in {"SADD", "DEL", "PEXPIRE"} /\ r = Int64(1)

\* Bug: EXEC never pops the command it ran.
Finish_NoPop(c, r) ==
  /\ IF in_transaction[c]
     THEN pc' = [pc EXCEPT ![c] = "next"] /\ UNCHANGED reply
     ELSE pc' = [pc EXCEPT ![c] = "idle"] /\ Say(c, cmd[c].op, r)
  /\ ret' = [ret EXCEPT ![c] = Nil]
  /\ UNCHANGED <<results, transaction_queue, writes>>

\* The handler returns r: to the client, or to the loop of EXEC.
Finish(c, r) ==
  /\ IF in_transaction[c]
     THEN /\ results' = [results EXCEPT ![c] = Append(@, r)]
          /\ transaction_queue' = [transaction_queue EXCEPT ![c] = Tail(@)]
          /\ pc' = [pc EXCEPT ![c] = "next"]
          /\ UNCHANGED reply
     ELSE /\ Say(c, cmd[c].op, r)
          /\ pc' = [pc EXCEPT ![c] = "idle"]
          /\ UNCHANGED <<results, transaction_queue>>
  /\ writes' = [writes EXCEPT ![cmd[c].key] = IF Acknowledges(cmd[c].op, r) THEN @ + 1 ELSE @]
  /\ ret' = [ret EXCEPT ![c] = Nil]

\* The handler goes on to call l and will answer r.
GoOn(c, l, r) ==
  /\ pc' = [pc EXCEPT ![c] = l]
  /\ ret' = [ret EXCEPT ![c] = r]
  /\ UNCHANGED <<transaction_queue, results, reply, writes>>

\* The keys whose counter does not tell of the call that leaves d: the ones it
\* removes, and the one a script writes to.
Unseen(c, l, d) == (DOMAIN data \ DOMAIN d) \cup (IF l = "eval" THEN {cmd[c].key} ELSE {})

\* The thread of c, at call l, leaves the keyspace d.
Call(c, l, d) ==
  /\ pc[c] = l
  /\ data' = d
  /\ kept' = [x \in Client |-> kept[x] \ Unseen(c, l, d)]
  /\ UNCHANGED <<now, session, cmd, sent, seen>>

CallSet(c) ==
  /\ Call(c, "set", set(data, cmd[c].key, cmd[c].arg))
  /\ GoOn(c, "count", OK)

CallLpush(c) ==
  LET d == lpush(data, cmd[c].key, <<cmd[c].arg>>)
  IN  /\ Call(c, "lpush", d)
      /\ GoOn(c, "count", Int64(Len(d[cmd[c].key].list_val)))

\* Bug: SADD answers without counting.
CallSadd_Uncounted(c) ==
  /\ Call(c, "sadd", sadd(data, cmd[c].key, {cmd[c].arg}))
  /\ Finish(c, Int64(SAdded(data, cmd[c].key, {cmd[c].arg})))

CallSadd(c) ==
  LET n == SAdded(data, cmd[c].key, {cmd[c].arg})
  IN  /\ Call(c, "sadd", sadd(data, cmd[c].key, {cmd[c].arg}))
      /\ IF n > 0 THEN GoOn(c, "count", Int64(n)) ELSE Finish(c, Int64(0))

CallLpop(c) ==
  LET s == LPopped(data, cmd[c].key)
  IN  /\ Call(c, "lpop", lpop(data, cmd[c].key))
      /\ GoOn(c, IF s = EmptyString THEN "lpop_exists" ELSE "count", Bulk(s))

CallLpopExists(c) ==
  /\ Call(c, "lpop_exists", Reap(data, cmd[c].key, now))
  /\ IF exists(data, cmd[c].key, now) THEN GoOn(c, "count", ret[c])
                                      ELSE Finish(c, Nil)

CallPexpire(c) ==
  /\ Call(c, "pexpire", pexpire(data, cmd[c].key, now, cmd[c].arg))
  /\ IF exists(data, cmd[c].key, now) THEN GoOn(c, "count", Int64(1))
                                      ELSE Finish(c, Int64(0))

\* db.increment_mod_count(key), the last call of every writer.
CallCount(c) ==
  /\ Call(c, "count", increment_mod_count(data, cmd[c].key))
  /\ Finish(c, ret[c])

\* redis_pcall of a script's SET, which ends the script: no count.
CallEval(c) ==
  /\ Call(c, "eval", set(data, cmd[c].key, cmd[c].arg))
  /\ Finish(c, OK)

\* The whole of EXISTS, the beginning of GET.
CallExists(c) ==
  LET found == exists(data, cmd[c].key, now)
  IN  /\ Call(c, "exists", Reap(data, cmd[c].key, now))
      /\ CASE cmd[c].op = "EXISTS" -> Finish(c, Int64(IF found THEN 1 ELSE 0))
           [] cmd[c].op # "EXISTS" /\ found -> GoOn(c, "type", Nil)
           [] OTHER -> Finish(c, Nil)

CallType(c) ==
  /\ Call(c, "type", Reap(data, cmd[c].key, now))
  /\ IF type(data, cmd[c].key, now) = "String" THEN GoOn(c, "get", Nil)
                                               ELSE Finish(c, Nil)

CallGet(c) ==
  /\ Call(c, "get", ReapIf(data, cmd[c].key, "String", now))
  /\ Finish(c, Bulk(get(data, cmd[c].key, now)))

CallDelExists(c) ==
  /\ Call(c, "del_exists", Reap(data, cmd[c].key, now))
  /\ GoOn(c, IF exists(data, cmd[c].key, now) THEN "del_count" ELSE "del", Nil)

CallDelCount(c) ==
  /\ Call(c, "del_count", increment_mod_count(data, cmd[c].key))
  /\ GoOn(c, "del", Nil)

CallDel(c) ==
  LET k == cmd[c].key
      n == IF k \in DOMAIN data THEN 1 ELSE 0
  IN  /\ Call(c, "del", del(data, k))
      /\ Finish(c, Int64(n))

\* A queued command the dispatch of EXEC does not know: no call.
Unknown(c) == Call(c, "unknown", data) /\ Finish(c, Err)

-----------------------------------------------------------------------------
NoRequest == [op |-> "CONTROL", key |-> CHOOSE k \in Key : TRUE, arg |-> EmptyString]

Init ==
  /\ data = EmptyMap /\ now = 1
  /\ pc = [c \in Client |-> "idle"]
  /\ cmd = [c \in Client |-> NoRequest]
  /\ ret = [c \in Client |-> Nil]
  /\ in_transaction = [c \in Client |-> FALSE]
  /\ transaction_queue = [c \in Client |-> <<>>]
  /\ watched_keys = [c \in Client |-> EmptyMap]
  /\ to_check = [c \in Client |-> {}]
  /\ results = [c \in Client |-> <<>>]
  /\ reply = [c \in Client |-> [op |-> "none", val |-> Nil]]
  /\ sent = 0
  /\ writes = [k \in Key |-> 0]
  /\ seen = [c \in Client |-> [k \in Key |-> 0]]
  /\ kept = [c \in Client |-> {}]

Tick ==
  /\ now < MaxNow /\ now' = now + 1
  /\ UNCHANGED <<data, session, running, sent, history>>

Receive(c) ==
  \/ \E r \in Request : Dispatch(c, r) \/ Redirect(c, r)
  \/ \E r \in Queueable : Enqueue(c, r)
  \/ \E k \in Key : handle_watch(c, k)
  \/ \E op \in {"EXEC", "DISCARD"} : WithoutMulti(c, op)
  \/ handle_multi(c) \/ handle_discard(c) \/ handle_unwatch(c) \/ handle_exec(c)

Exec(c) ==
  \/ \E k \in Key : ExecCheck(c, k) \/ ExecAborts(c, k)
  \/ ExecChecked(c) \/ ExecNext(c) \/ ExecEnds(c)

Writer(c) ==
  \/ CallSet(c) \/ CallLpush(c) \/ CallSadd(c) \/ CallLpop(c) \/ CallLpopExists(c)
  \/ CallPexpire(c) \/ CallEval(c) \/ CallCount(c)

Reader(c) == CallExists(c) \/ CallType(c) \/ CallGet(c) \/ Unknown(c)

Deleter(c) == CallDelExists(c) \/ CallDelCount(c) \/ CallDel(c)

Work(c) == Exec(c) \/ Writer(c) \/ Reader(c) \/ Deleter(c)

Next == Tick \/ \E c \in Client : Receive(c) \/ Work(c)

Spec == Init /\ [][Next]_vars

\* A thread that has something to do is scheduled again and again.
FairSpec == Spec /\ \A c \in Client : WF_vars(pc[c] # "idle" /\ Work(c))

-----------------------------------------------------------------------------
(* Properties *)

Label == {"idle", "check", "next", "unknown", "count", "set", "lpush", "sadd", "lpop",
          "lpop_exists", "pexpire", "eval", "exists", "type", "get", "del_exists",
          "del_count", "del"}

\* w maps each connection to a map from keys to counts.
IsWatch(w) ==
  /\ w = [c \in Client |-> w[c]]
  /\ \A c \in Client : \E X \in SUBSET Key : w[c] \in [X -> Nat]

\* Every component of the state keeps its type.
TypeOK ==
  /\ IsKeyspace(data) /\ now \in Nat \ {0}
  /\ pc \in [Client -> Label]
  /\ cmd \in [Client -> Queueable \cup {NoRequest}]
  /\ in_transaction \in [Client -> BOOLEAN]
  /\ transaction_queue \in [Client -> Seq(Queueable)]
  /\ IsWatch(watched_keys)
  /\ to_check \in [Client -> SUBSET Key]
  /\ sent \in 0..MaxRequests
  /\ writes \in [Key -> Nat] /\ seen \in [Client -> [Key -> Nat]]
  /\ kept \in [Client -> SUBSET Key]

\* The state of a transaction is consistent at every step of every thread: a
\* queue and an EXEC exist only inside a transaction, a queued command runs
\* under EXEC's own dispatch, EXEC compares only keys that are watched, and the
\* command that runs is the head of the queue (commands.cpp 33-127, 1108-1159).
TransactionShape ==
  \A c \in Client :
    /\ transaction_queue[c] # <<>> => in_transaction[c]
    /\ pc[c] \in {"check", "next", "unknown"} => in_transaction[c]
    /\ pc[c] # "check" => to_check[c] = {}
    /\ to_check[c] \subseteq DOMAIN watched_keys[c]
    /\ in_transaction[c] /\ pc[c] \notin {"idle", "check", "next"}
         => transaction_queue[c] # <<>> /\ cmd[c] = Head(transaction_queue[c])

\* The keys EXEC lets pass in this step: compared, and the transaction goes on.
Passed(c) == IF pc'[c] = "idle" THEN {} ELSE to_check[c] \ to_check'[c]

\* EXEC lets a watched key pass its check only if no change of the key has been
\* acknowledged since the WATCH, unless since then the key has been removed,
\* which restarts the counter kept in the value, or a script has written to it,
\* which does not count (commands.cpp 1117-1129, db.cpp 138-156).  ConflictSeen
\* is the same without the two exceptions.
WatchSound ==
  [][\A c \in Client : \A k \in Passed(c) \cap kept[c] : seen[c][k] = writes[k]]_vars

\* EXEC detects every conflict: a key it lets pass has not been changed since the
\* WATCH ("Check if any watched keys have been modified", commands.cpp:1117;
\* "WATCH/UNWATCH conflict detection", .grok/technical.md:16).
ConflictSeen ==
  [][\A c \in Client : \A k \in Passed(c) : seen[c][k] = writes[k]]_vars

\* No other connection changes the data between two commands of one EXEC
\* ("Execute all queued commands atomically", commands.cpp:1131).
ExecIsolated ==
  [][\A c \in Client :
        /\ results[c] # <<>> /\ pc[c] = "next" /\ transaction_queue[c] # <<>>
        /\ pc'[c] = pc[c]
        => data' = data]_vars

\* The step changes the entry of k.
Touched(k) ==
  \/ (k \in DOMAIN data') # (k \in DOMAIN data)
  \/ k \in DOMAIN data \cap DOMAIN data' /\ data'[k] # data[k]

\* A key of another node changes only under a transaction, whose commands are
\* not routed, or by a command process_command never routes (commands.cpp
\* 129-144 come after the queueing of 33-127).
RoutedOutsideExec ==
  [][\A k \in Key \ Served :
        Touched(k) => \E c \in Client :
                         /\ pc[c] # "idle" /\ cmd[c].key = k
                         /\ in_transaction[c] \/ cmd[c].op \notin Routable]_vars

\* Every command a connection starts is answered: the loops of EXEC end, and no
\* handler of a data command waits for another connection (PUBLISH may: PubSub).
CommandsComplete == \A c \in Client : pc[c] # "idle" ~> pc[c] = "idle"
=============================================================================

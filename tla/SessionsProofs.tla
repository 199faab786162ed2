--------------------------- MODULE SessionsProofs ---------------------------
(***************************************************************************)
(* Proofs about Sessions, for any number of connections and keys and any    *)
(* set of commands: the types, the shape of a transaction, and what the     *)
(* check of EXEC guarantees.                                                *)
(***************************************************************************)
EXTENDS Sessions, KeyspaceProofs

\* The commands that can be at a call: what process_command dispatches there.
OpAt(l) ==
  CASE l = "set" -> {"SET"}  [] l = "lpush" -> {"LPUSH"}  [] l = "sadd" -> {"SADD"}
    [] l \in {"lpop", "lpop_exists"} -> {"LPOP"}
    [] l = "pexpire" -> {"PEXPIRE"}  [] l = "eval" -> {"EVAL"}
    [] l = "exists" -> {"GET", "EXISTS"}  [] l \in {"type", "get"} -> {"GET"}
    [] l \in {"del_exists", "del_count", "del"} -> {"DEL"}
    [] l = "unknown" -> {"PEXPIRE", "EVAL", "CONTROL"}
    [] OTHER -> Op \cup {"CONTROL"}

\* A thread at a Database call handles a command that makes that call.
AtCall ==
  \A c \in Client : pc[c] \notin {"idle", "check", "next"} =>
    cmd[c] \in Queueable /\ cmd[c].op \in OpAt(pc[c])

Shape == TypeOK /\ TransactionShape /\ AtCall

\* Since a connection watched a key that has been neither removed nor written by
\* a script, the counter of the key has grown at least as much as the number of
\* acknowledged changes.
Covered ==
  \A c \in Client : \A k \in kept[c] \cap DOMAIN watched_keys[c] :
    /\ writes[k] - seen[c][k] >= 0
    /\ get_mod_count(data, k) - watched_keys[c][k] >= writes[k] - seen[c][k]

-----------------------------------------------------------------------------
\* What a queued command is made of.
LEMMA QueueableType ==
  /\ \A q \in Queueable : /\ q.key \in Key /\ q.arg \in String
                          /\ q.op \in Op \cup {"CONTROL"}
  /\ \A q \in Request : q \in Queueable /\ q.op \in Op
  BY SessionsAssumption, StringAssumption DEF Queueable, EmptyString

\* The dispatch of a command, immediate or queued, leads to one of its calls.
LEMMA DispatchType ==
  /\ \A op \in Op : /\ FirstCall(op) \in Label \ {"idle", "check", "next", "unknown"}
                    /\ op \in OpAt(FirstCall(op))
  /\ \A op \in Op \cup {"CONTROL"} :
       /\ QueuedCall(op) \in Label \ {"idle", "check", "next"}
       /\ op \in OpAt(QueuedCall(op))
  <1>1. \A op \in Op : /\ FirstCall(op) \in Label \ {"idle", "check", "next", "unknown"}
                       /\ op \in OpAt(FirstCall(op))
    BY DEF FirstCall, OpAt, Op, Label
  <1>2. OpAt("unknown") = {"PEXPIRE", "EVAL", "CONTROL"}
    BY DEF OpAt
  <1>3. \A op \in Op \cup {"CONTROL"} : op \notin {"PEXPIRE", "EVAL", "CONTROL"} => op \in Op
    OBVIOUS
  <1> QED
    BY <1>1, <1>2, <1>3 DEF QueuedCall, Label

\* Adding a key to a map, and the empty map.
LEMMA MapType ==
  /\ EmptyMap \in Map(Key, Nat)
  /\ \A w \in Map(Key, Nat), k \in Key, n \in Nat : Put(w, k, n) \in Map(Key, Nat)
  <1>1. EmptyMap \in [{} -> Nat]
    BY DEF EmptyMap
  <1>2. ASSUME NEW w \in Map(Key, Nat), NEW k \in Key, NEW n \in Nat
        PROVE  Put(w, k, n) \in Map(Key, Nat)
    <2>1. PICK X \in SUBSET Key : w \in [X -> Nat]
      BY <1>2 DEF Map
    <2>2. Put(w, k, n) \in [X \cup {k} -> Nat] /\ X \cup {k} \in SUBSET Key
      BY <2>1 DEF Put
    <2> QED
      BY <2>2 DEF Map
  <1> QED
    BY <1>1, <1>2 DEF Map

\* IsWatch as a set of functions.
LEMMA WatchType == \A w : IsWatch(w) <=> w \in [Client -> Map(Key, Nat)]
  <1>1. \A v : v \in Map(Key, Nat) <=> \E X \in SUBSET Key : v \in [X -> Nat]
    BY DEF Map
  <1> QED
    BY <1>1, Zenon DEF IsWatch

\* Forgetting the watched keys of a connection.
LEMMA UnwatchType ==
  ASSUME NEW w, IsWatch(w), NEW c \in Client
  PROVE  IsWatch([w EXCEPT ![c] = EmptyMap])
  <1>1. w \in [Client -> Map(Key, Nat)]
    BY WatchType
  <1>2. [w EXCEPT ![c] = EmptyMap] \in [Client -> Map(Key, Nat)]
    BY <1>1, MapType
  <1> QED
    BY <1>2, WatchType, Zenon

\* The counter of a key of a keyspace is a natural number.
LEMMA ModCountType ==
  ASSUME NEW d, IsKeyspace(d), NEW k
  PROVE  get_mod_count(d, k) \in Nat
  BY DEF get_mod_count, IsKeyspace, RedisValue

-----------------------------------------------------------------------------
(* The types and the shape of a transaction *)

\* A connection-local command preserves the shape.
LEMMA ReceiveShape ==
  ASSUME Shape, NEW c \in Client, Receive(c)
  PROVE  Shape'
  <1> USE DEF Shape
  <1>1. ASSUME NEW r \in Request, Dispatch(c, r)
        PROVE  Shape'
    <2>1. FirstCall(r.op) \in Label \ {"idle", "check", "next", "unknown"}
          /\ r.op \in OpAt(FirstCall(r.op)) /\ r \in Queueable
      BY QueueableType, DispatchType
    <2>2. TypeOK'
      BY <1>1, <2>1, SessionsAssumption DEF TypeOK, Dispatch, Sends, server, session, history
    <2>3. TransactionShape'
      BY <1>1, <2>1 DEF TypeOK, TransactionShape, Dispatch, Sends, server, session, history
    <2>4. AtCall'
      BY <1>1, <2>1 DEF TypeOK, AtCall, Dispatch
    <2> QED
      BY <2>2, <2>3, <2>4
  <1>2. ASSUME NEW r \in Queueable, Enqueue(c, r)
        PROVE  Shape'
    <2>1. TypeOK'
      BY <1>2, SessionsAssumption DEF TypeOK, Enqueue, Sends, server, session, history
    <2>2. TransactionShape'
      BY <1>2 DEF TypeOK, TransactionShape, Enqueue, Sends, server, session, history
    <2>3. AtCall'
      BY <1>2 DEF AtCall, Enqueue
    <2> QED
      BY <2>1, <2>2, <2>3
  <1>3. ASSUME NEW k \in Key, handle_watch(c, k)
        PROVE  Shape'
    <2>1. get_mod_count(data, k) \in Nat
      BY ModCountType DEF TypeOK
    <2>a. watched_keys \in [Client -> Map(Key, Nat)]
      BY WatchType DEF TypeOK
    <2>b. watched_keys' \in [Client -> Map(Key, Nat)]
      BY <1>3, <2>1, <2>a, MapType DEF handle_watch
    <2>c. IsWatch(watched_keys')
      BY <2>b, WatchType
    <2>2. TypeOK'
      BY <1>3, <2>c, SessionsAssumption DEF TypeOK, handle_watch, Sends, server
    <2>3. TransactionShape'
      BY <1>3 DEF TypeOK, TransactionShape, handle_watch, Sends, server, Put
    <2>4. AtCall'
      BY <1>3 DEF AtCall, handle_watch
    <2> QED
      BY <2>2, <2>3, <2>4
  <1>4. ASSUME NEW op, NEW v, AnswerAtOnce(c, op, v)
        PROVE  Shape'
    <2>1. TypeOK'
      BY <1>4, SessionsAssumption DEF TypeOK, AnswerAtOnce, Sends, server, session, history
    <2>2. TransactionShape' /\ AtCall'
      BY <1>4 DEF TransactionShape, AtCall, AnswerAtOnce, Sends, server, session, history
    <2> QED
      BY <2>1, <2>2
  <1>5. ASSUME handle_multi(c) \/ handle_discard(c)
        PROVE  Shape'
    <2>1. TypeOK'
      <3>1. CASE handle_multi(c)
        BY <3>1, SessionsAssumption DEF TypeOK, handle_multi, Sends, server, history
      <3>2. CASE handle_discard(c)
        BY <3>2, SessionsAssumption DEF TypeOK, handle_discard, Sends, server, history
      <3> QED
        BY <1>5, <3>1, <3>2
    <2>2. TransactionShape'
      BY <1>5, Zenon DEF TypeOK, TransactionShape, handle_multi, handle_discard, Sends, server
    <2>3. AtCall'
      BY <1>5 DEF AtCall, handle_multi, handle_discard
    <2> QED
      BY <2>1, <2>2, <2>3
  <1>6. ASSUME handle_unwatch(c)
        PROVE  Shape'
    <2>a. IsWatch(watched_keys')
      BY <1>6, UnwatchType, Zenon DEF TypeOK, handle_unwatch
    <2>1. TypeOK'
      BY <1>6, <2>a, SessionsAssumption DEF TypeOK, handle_unwatch, Sends, server, history
    <2>2. TransactionShape'
      BY <1>6 DEF TypeOK, TransactionShape, handle_unwatch, Sends, server
    <2>3. AtCall'
      BY <1>6 DEF AtCall, handle_unwatch
    <2> QED
      BY <2>1, <2>2, <2>3
  <1>7. ASSUME handle_exec(c)
        PROVE  Shape'
    <2>1. DOMAIN watched_keys[c] \subseteq Key
      BY DEF TypeOK, IsWatch
    <2>2. TypeOK'
      BY <1>7, <2>1, SessionsAssumption DEF TypeOK, handle_exec, Sends, server, history, Label
    <2>3. TransactionShape'
      BY <1>7 DEF TypeOK, TransactionShape, handle_exec, Sends, server
    <2>4. AtCall'
      BY <1>7 DEF TypeOK, AtCall, handle_exec
    <2> QED
      BY <2>2, <2>3, <2>4
  <1> QED
    BY <1>1, <1>2, <1>3, <1>4, <1>5, <1>6, <1>7 DEF Receive, Redirect, WithoutMulti

\* The steps of EXEC itself preserve the shape.
LEMMA ExecShape ==
  ASSUME Shape, NEW c \in Client, Exec(c)
  PROVE  Shape'
  <1> USE DEF Shape
  <1>1. ASSUME NEW k \in Key, ExecCheck(c, k)
        PROVE  Shape'
    <2>1. TypeOK'
      BY <1>1 DEF TypeOK, ExecCheck, server, running, history
    <2>2. TransactionShape' /\ AtCall'
      BY <1>1 DEF TypeOK, TransactionShape, AtCall, ExecCheck, running
    <2> QED
      BY <2>1, <2>2
  <1>2. ASSUME NEW r, EndTransaction(c, r)
        PROVE  Shape'
    <2>a. IsWatch(watched_keys')
      BY <1>2, UnwatchType, Zenon DEF TypeOK, EndTransaction
    <2>1. TypeOK'
      BY <1>2, <2>a DEF TypeOK, EndTransaction, server, history, Label
    <2>2. TransactionShape' /\ AtCall'
      BY <1>2 DEF TypeOK, TransactionShape, AtCall, EndTransaction
    <2> QED
      BY <2>1, <2>2
  <1>3. ASSUME ExecChecked(c)
        PROVE  Shape'
    <2>1. TypeOK'
      BY <1>3 DEF TypeOK, ExecChecked, server, session, history, Label
    <2>2. TransactionShape' /\ AtCall'
      BY <1>3 DEF TypeOK, TransactionShape, AtCall, ExecChecked, session
    <2> QED
      BY <2>1, <2>2
  <1>4. ASSUME ExecNext(c)
        PROVE  Shape'
    <2> DEFINE q == Head(transaction_queue[c])
    <2>1. q \in Queueable
      BY <1>4 DEF ExecNext, TypeOK
    <2>2. QueuedCall(q.op) \in Label \ {"idle", "check", "next"} /\ q.op \in OpAt(QueuedCall(q.op))
      BY <2>1, QueueableType, DispatchType
    <2>3. /\ pc' = [pc EXCEPT ![c] = QueuedCall(q.op)] /\ cmd' = [cmd EXCEPT ![c] = q]
          /\ pc[c] = "next" /\ transaction_queue[c] # <<>>
          /\ UNCHANGED <<server, session, transaction_queue, sent, history>>
      BY <1>4 DEF ExecNext
    <2>4. TypeOK'
      BY <2>1, <2>2, <2>3 DEF TypeOK, server, session, history
    <2>5. AtCall'
      BY <2>1, <2>2, <2>3 DEF TypeOK, AtCall
    <2>6. TransactionShape'
      BY <2>2, <2>3 DEF TypeOK, TransactionShape, session
    <2> QED
      BY <2>4, <2>5, <2>6
  <1> QED
    BY <1>1, <1>2, <1>3, <1>4 DEF Exec, ExecAborts, ExecEnds

\* A Database call that leaves a keyspace preserves the shape, whether its
\* handler returns or goes on to a call of the same command.
LEMMA CallShape ==
  ASSUME Shape, NEW c \in Client, NEW l, NEW d, NEW r, NEW m, Call(c, l, d), IsKeyspace(d),
         l \notin {"idle", "check", "next"},
         \/ Finish(c, r)
         \/ /\ GoOn(c, m, r) /\ cmd[c].op \in OpAt(m)
            /\ m \in Label \ {"idle", "check", "next", "unknown"}
  PROVE  Shape'
  <1> USE DEF Shape
  <1>0. cmd[c] \in Queueable /\ cmd[c].key \in Key
    BY QueueableType DEF Call, AtCall
  <1>1. /\ pc[c] = l /\ data' = d /\ now' = now /\ cmd' = cmd /\ sent' = sent /\ seen' = seen
        /\ in_transaction' = in_transaction /\ watched_keys' = watched_keys
        /\ to_check' = to_check /\ kept' \in [Client -> SUBSET Key]
    BY DEF Call, session, TypeOK
  <1>2. CASE Finish(c, r)
    <2>1. writes' \in [Key -> Nat]
      BY <1>2, <1>0 DEF Finish, TypeOK
    <2>2. CASE in_transaction[c]
      <3>1. transaction_queue[c] # <<>> /\ transaction_queue[c] \in Seq(Queueable)
        BY <1>1, <2>2 DEF TransactionShape, TypeOK
      <3>2. /\ transaction_queue' = [transaction_queue EXCEPT ![c] = Tail(transaction_queue[c])]
            /\ pc' = [pc EXCEPT ![c] = "next"] /\ Tail(transaction_queue[c]) \in Seq(Queueable)
        BY <1>2, <2>2, <3>1 DEF Finish
      <3>3. TypeOK'
        BY <1>1, <2>1, <3>2 DEF TypeOK, Label
      <3>4. TransactionShape' /\ AtCall'
        BY <1>1, <2>2, <3>2 DEF TypeOK, TransactionShape, AtCall
      <3> QED
        BY <3>3, <3>4
    <2>3. CASE ~in_transaction[c]
      <3>1. transaction_queue' = transaction_queue /\ pc' = [pc EXCEPT ![c] = "idle"]
        BY <1>2, <2>3 DEF Finish
      <3>2. TypeOK'
        BY <1>1, <2>1, <3>1 DEF TypeOK, Label
      <3>3. TransactionShape' /\ AtCall'
        BY <1>1, <2>3, <3>1 DEF TypeOK, TransactionShape, AtCall
      <3> QED
        BY <3>2, <3>3
    <2> QED
      BY <2>2, <2>3
  <1>3. CASE GoOn(c, m, r) /\ cmd[c].op \in OpAt(m)
             /\ m \in Label \ {"idle", "check", "next", "unknown"}
    <2>1. /\ pc' = [pc EXCEPT ![c] = m] /\ transaction_queue' = transaction_queue
          /\ writes' = writes
      BY <1>3 DEF GoOn
    <2>2. TypeOK'
      BY <1>1, <1>3, <2>1 DEF TypeOK
    <2>3. AtCall'
      BY <1>0, <1>1, <1>3, <2>1 DEF TypeOK, AtCall
    <2>4. TransactionShape'
      BY <1>1, <1>3, <2>1 DEF TypeOK, TransactionShape
    <2> QED
      BY <2>2, <2>3, <2>4
  <1> QED
    BY <1>2, <1>3

-----------------------------------------------------------------------------
(* The counters cover the acknowledged changes *)

Inv == Shape /\ Covered

\* A Database call that lowers the counter of no key it keeps, and raises that
\* of its own key if the handler acknowledges a change the counters should tell
\* of, preserves the invariant.
LEMMA CallInv ==
  ASSUME Inv, NEW c \in Client, NEW l, NEW d, NEW r, NEW m, NEW n \in {0, 1},
         Call(c, l, d), IsKeyspace(d), l \notin {"idle", "check", "next"},
         \/ /\ Finish(c, r)
            /\ Acknowledges(cmd[c].op, r)
                 => n = 1 \/ cmd[c].key \in Unseen(c, l, d)
         \/ /\ GoOn(c, m, r) /\ cmd[c].op \in OpAt(m)
            /\ m \in Label \ {"idle", "check", "next", "unknown"},
         \A x \in Key : x \notin DOMAIN data \ DOMAIN d =>
           get_mod_count(d, x) >= get_mod_count(data, x) + (IF x = cmd[c].key THEN n ELSE 0)
  PROVE  Inv'
  <1>1. Shape'
    BY CallShape, Zenon DEF Inv
  <1>2. cmd[c].key \in Key
    BY QueueableType DEF Call, AtCall, Inv, Shape
  <1>3. \A x \in Key : x \notin Unseen(c, l, d) =>
          writes'[x] = writes[x] \/ (writes'[x] = writes[x] + 1 /\ x = cmd[c].key /\ n = 1)
    <2>1. CASE Finish(c, r)
      BY <1>2, <2>1 DEF Finish, GoOn, Inv, Shape, TypeOK
    <2>2. CASE GoOn(c, m, r)
      BY <2>2 DEF GoOn
    <2> QED
      BY <2>1, <2>2
  <1>4. Covered'
    <2> SUFFICES ASSUME NEW e \in Client, NEW k \in kept'[e] \cap DOMAIN watched_keys'[e]
                 PROVE  /\ writes'[k] - seen'[e][k] >= 0
                        /\ get_mod_count(data', k) - watched_keys'[e][k]
                             >= writes'[k] - seen'[e][k]
      BY DEF Covered
    <2>1. /\ watched_keys' = watched_keys /\ seen' = seen /\ data' = d
          /\ k \in kept[e] /\ k \notin Unseen(c, l, d)
      BY DEF Call, session, Inv, Shape, TypeOK
    <2>a. k \notin DOMAIN data \ DOMAIN d
      BY <2>1 DEF Unseen
    <2>2. /\ k \in Key /\ writes[k] \in Nat /\ seen[e][k] \in Nat
          /\ watched_keys[e][k] \in Nat
      <3>1. k \in DOMAIN watched_keys[e]
        BY <2>1
      <3>2. k \in Key /\ watched_keys[e][k] \in Nat
        BY <3>1 DEF Inv, Shape, TypeOK, IsWatch
      <3> QED
        BY <3>2 DEF Inv, Shape, TypeOK
    <2>3. get_mod_count(d, k) \in Nat /\ get_mod_count(data, k) \in Nat
      BY ModCountType DEF Inv, Shape, TypeOK
    <2>4. /\ writes[k] - seen[e][k] >= 0
          /\ get_mod_count(data, k) - watched_keys[e][k] >= writes[k] - seen[e][k]
      BY <2>1 DEF Inv, Covered
    <2>5. get_mod_count(d, k) >= get_mod_count(data, k) + (IF k = cmd[c].key THEN n ELSE 0)
      BY <2>a, <2>2
    <2>6. writes'[k] = writes[k] \/ (writes'[k] = writes[k] + 1 /\ k = cmd[c].key /\ n = 1)
      BY <1>3, <2>1, <2>2
    <2>7. CASE writes'[k] = writes[k]
      BY <2>1, <2>2, <2>3, <2>4, <2>5, <2>7
    <2>8. CASE writes'[k] = writes[k] + 1 /\ k = cmd[c].key /\ n = 1
      BY <2>1, <2>2, <2>3, <2>4, <2>5, <2>8
    <2> QED
      BY <2>6, <2>7, <2>8
  <1> QED
    BY <1>1, <1>4 DEF Inv

\* The two ways a call that raises no counter ends: the handler goes on, ...
LEMMA GoOnInv ==
  ASSUME Inv, NEW c \in Client, NEW l, NEW d, NEW r, NEW m,
         Call(c, l, d), IsKeyspace(d), l \notin {"idle", "check", "next"},
         GoOn(c, m, r), cmd[c].op \in OpAt(m), m \in Label \ {"idle", "check", "next", "unknown"},
         \A x \in Key : x \notin DOMAIN data \ DOMAIN d =>
           get_mod_count(d, x) >= get_mod_count(data, x)
  PROVE  Inv'
  <1>1. \A x \in Key : get_mod_count(data, x) \in Nat
    BY ModCountType DEF Inv, Shape, TypeOK
  <1>2. \A x \in Key : x \notin DOMAIN data \ DOMAIN d =>
          get_mod_count(d, x) >= get_mod_count(data, x) + (IF x = cmd[c].key THEN 0 ELSE 0)
    BY <1>1
  <1> QED
    BY <1>2, CallInv

\* ... or it returns without acknowledging a change the counters should tell of.
LEMMA FinishInv ==
  ASSUME Inv, NEW c \in Client, NEW l, NEW d, NEW r,
         Call(c, l, d), IsKeyspace(d), l \notin {"idle", "check", "next"}, Finish(c, r),
         ~Acknowledges(cmd[c].op, r) \/ cmd[c].key \in Unseen(c, l, d),
         \A x \in Key : x \notin DOMAIN data \ DOMAIN d =>
           get_mod_count(d, x) >= get_mod_count(data, x)
  PROVE  Inv'
  <1>1. \A x \in Key : get_mod_count(data, x) \in Nat
    BY ModCountType DEF Inv, Shape, TypeOK
  <1>2. \A x \in Key : x \notin DOMAIN data \ DOMAIN d =>
          get_mod_count(d, x) >= get_mod_count(data, x) + (IF x = cmd[c].key THEN 0 ELSE 0)
    BY <1>1
  <1> QED
    BY <1>2, CallInv, Zenon

\* Lazy deletion yields a keyspace and leaves the counters of the keys it keeps.
LEMMA ReapKeeps ==
  ASSUME NEW d, IsKeyspace(d), NEW k, NEW t
  PROVE  /\ IsKeyspace(Reap(d, k, t))
         /\ \A x \in Key : x \notin DOMAIN d \ DOMAIN Reap(d, k, t) =>
              get_mod_count(Reap(d, k, t), x) >= get_mod_count(d, x)
  <1>1. IsKeyspace(Reap(d, k, t))
    BY ReapType
  <1>2. \A x \in Key : get_mod_count(d, x) \in Nat
    BY ModCountType
  <1>3. \A x \in Key : x \notin DOMAIN d \ DOMAIN Reap(d, k, t) =>
              get_mod_count(Reap(d, k, t), x) = get_mod_count(d, x)
    BY EraseCount DEF Reap
  <1> QED
    BY <1>1, <1>2, <1>3

\* What a thread at a Database call knows.
LEMMA CallFacts ==
  ASSUME Inv, NEW c \in Client, pc[c] \notin {"idle", "check", "next"}
  PROVE  /\ IsKeyspace(data) /\ now \in Nat
         /\ cmd[c].key \in Key /\ cmd[c].arg \in String
         /\ cmd[c].op \in OpAt(pc[c])
         /\ \A x \in Key : get_mod_count(data, x) \in Nat
  BY QueueableType, ModCountType DEF Inv, Shape, TypeOK, AtCall

\* OpAt and Acknowledges, evaluated.
LEMMA OpFacts ==
  /\ OpAt("sadd") = {"SADD"} /\ OpAt("lpop") = {"LPOP"} /\ OpAt("lpop_exists") = {"LPOP"}
  /\ OpAt("pexpire") = {"PEXPIRE"} /\ OpAt("eval") = {"EVAL"}
  /\ OpAt("unknown") = {"PEXPIRE", "EVAL", "CONTROL"}
  /\ OpAt("exists") = {"GET", "EXISTS"} /\ OpAt("type") = {"GET"} /\ OpAt("get") = {"GET"}
  /\ OpAt("del_exists") = {"DEL"} /\ OpAt("del_count") = {"DEL"} /\ OpAt("del") = {"DEL"}
  /\ OpAt("set") = {"SET"} /\ OpAt("lpush") = {"LPUSH"}
  /\ OpAt("count") = Op \cup {"CONTROL"}
  BY DEF OpAt

\* The replies that report a change, command by command.
LEMMA AcknowledgesFacts ==
  /\ ~Acknowledges("SADD", Int64(0)) /\ ~Acknowledges("PEXPIRE", Int64(0))
  /\ ~Acknowledges("DEL", Int64(0)) /\ ~Acknowledges("LPOP", Nil)
  /\ ~Acknowledges("PEXPIRE", Err) /\ ~Acknowledges("CONTROL", Err)
  /\ ~Acknowledges("EVAL", Err)
  /\ \A r : ~Acknowledges("GET", r) /\ ~Acknowledges("EXISTS", r)
  BY DEF Acknowledges, Int64, Nil, Err, OK

\* SET, LPUSH, SADD, LPOP: the write; and a script's SET, which is acknowledged
\* without a count, and whose key is kept no longer.
LEMMA WriteInv ==
  ASSUME Inv, NEW c \in Client,
         CallSet(c) \/ CallLpush(c) \/ CallSadd(c) \/ CallLpop(c) \/ CallEval(c)
  PROVE  Inv'
  <1> DEFINE k == cmd[c].key
             s == cmd[c].arg
  <1>0. pc[c] \in {"set", "lpush", "sadd", "lpop", "eval"}
    BY DEF CallSet, CallLpush, CallSadd, CallLpop, CallEval, Call
  <1>1. /\ IsKeyspace(data) /\ k \in Key /\ s \in String /\ cmd[c].op \in OpAt(pc[c])
        /\ \A x \in Key : get_mod_count(data, x) \in Nat
    BY <1>0, CallFacts
  <1>2. cmd[c].op \in OpAt("count")
    BY <1>0, <1>1, OpFacts DEF Op
  <1>3. /\ IsKeyspace(set(data, k, s)) /\ IsKeyspace(lpush(data, k, <<s>>))
        /\ IsKeyspace(sadd(data, k, {s})) /\ IsKeyspace(lpop(data, k))
    BY <1>1, SetType, LpushType, SaddType, LpopType
  <1>4. \A x \in Key :
          /\ get_mod_count(set(data, k, s), x) >= get_mod_count(data, x)
          /\ get_mod_count(lpush(data, k, <<s>>), x) >= get_mod_count(data, x)
          /\ get_mod_count(sadd(data, k, {s}), x) >= get_mod_count(data, x)
          /\ get_mod_count(lpop(data, k), x) >= get_mod_count(data, x)
    BY <1>1, WriteCount
  <1>5. CASE CallSet(c)
    BY <1>2, <1>3, <1>4, <1>5, GoOnInv DEF CallSet, Label
  <1>6. CASE CallLpush(c)
    BY <1>2, <1>3, <1>4, <1>6, GoOnInv DEF CallLpush, Label
  <1>7. CASE CallSadd(c)
    <2>1. Call(c, "sadd", sadd(data, k, {s})) /\ cmd[c].op = "SADD"
      BY <1>1, <1>7, OpFacts, Zenon DEF CallSadd, Call
    <2>2. CASE Finish(c, Int64(0))
      <3>1. ~Acknowledges(cmd[c].op, Int64(0))
        BY <2>1, AcknowledgesFacts
      <3>2. "sadd" \notin {"idle", "check", "next"}
        OBVIOUS
      <3> DEFINE d == sadd(data, k, {s})
      <3>3. /\ IsKeyspace(d) /\ Call(c, "sadd", d)
            /\ \A x \in Key : x \notin DOMAIN data \ DOMAIN d =>
                 get_mod_count(d, x) >= get_mod_count(data, x)
        BY <1>3, <1>4, <2>1
      <3> HIDE DEF d
      <3> QED
        BY <2>2, <3>1, <3>2, <3>3, FinishInv
    <2>3. ASSUME NEW r, GoOn(c, "count", r)
          PROVE  Inv'
      BY <1>2, <1>3, <1>4, <2>1, <2>3, GoOnInv DEF Label
    <2> QED
      BY <1>7, <2>2, <2>3 DEF CallSadd
  <1>8. CASE CallLpop(c)
    <2>1. Call(c, "lpop", lpop(data, k)) /\ cmd[c].op \in OpAt("lpop_exists")
      BY <1>1, <1>8, OpFacts, Zenon DEF CallLpop, Call
    <2>2. ASSUME NEW r, NEW m \in {"count", "lpop_exists"}, GoOn(c, m, r)
          PROVE  Inv'
      BY <1>2, <1>3, <1>4, <2>1, <2>2, GoOnInv DEF Label
    <2> QED
      BY <1>8, <2>2 DEF CallLpop
  <1>9. CASE CallEval(c)
    <2> DEFINE d == set(data, k, s)
    <2>1. Call(c, "eval", d) /\ Finish(c, OK) /\ k \in Unseen(c, "eval", d)
      BY <1>9 DEF CallEval, Unseen
    <2>2. /\ IsKeyspace(d)
          /\ \A x \in Key : x \notin DOMAIN data \ DOMAIN d =>
               get_mod_count(d, x) >= get_mod_count(data, x)
      BY <1>3, <1>4
    <2> HIDE DEF d
    <2> QED
      BY <2>1, <2>2, FinishInv
  <1> QED
    BY <1>5, <1>6, <1>7, <1>8, <1>9

\* PEXPIRE: the write.
LEMMA PexpireInv ==
  ASSUME Inv, NEW c \in Client, CallPexpire(c)
  PROVE  Inv'
  <1> DEFINE k == cmd[c].key
             d == pexpire(data, k, now, cmd[c].arg)
  <1>1. Call(c, "pexpire", d) /\ pc[c] = "pexpire"
    BY DEF CallPexpire, Call
  <1>2. /\ IsKeyspace(data) /\ k \in Key /\ cmd[c].arg \in String /\ now \in Nat
        /\ cmd[c].op = "PEXPIRE" /\ \A x \in Key : get_mod_count(data, x) \in Nat
    BY <1>1, CallFacts, OpFacts
  <1>3. IsKeyspace(d)
    BY <1>2, PexpireType
  <1>4. \A x \in Key : x \notin DOMAIN data \ DOMAIN d =>
          get_mod_count(d, x) >= get_mod_count(data, x)
    BY <1>2, PexpireCount
  <1>5. CASE GoOn(c, "count", Int64(1))
    <2> HIDE DEF d
    <2> QED
      BY <1>1, <1>2, <1>3, <1>4, <1>5, OpFacts, GoOnInv DEF Label, Op
  <1>6. CASE Finish(c, Int64(0))
    <2> HIDE DEF d
    <2> QED
      BY <1>1, <1>2, <1>3, <1>4, <1>6, AcknowledgesFacts, FinishInv
  <1> QED
    BY <1>5, <1>6, Zenon DEF CallPexpire

\* The counter goes up before the reply.
LEMMA CountInv ==
  ASSUME Inv, NEW c \in Client, CallCount(c) \/ CallDelCount(c)
  PROVE  Inv'
  <1> DEFINE k == cmd[c].key
             d == increment_mod_count(data, k)
  <1>1. pc[c] \in {"count", "del_count"} /\ Call(c, pc[c], d)
    BY Zenon DEF CallCount, CallDelCount, Call
  <1>2. /\ IsKeyspace(data) /\ k \in Key /\ cmd[c].op \in OpAt(pc[c])
        /\ \A x \in Key : get_mod_count(data, x) \in Nat
    BY <1>1, CallFacts
  <1>3. IsKeyspace(d)
    BY <1>2, CountType
  <1>4. \A x \in Key : get_mod_count(d, x) >= get_mod_count(data, x) + (IF x = cmd[c].key THEN 1 ELSE 0)
    BY <1>2, CountCount
  <1>5. \A x \in Key : get_mod_count(d, x) >= get_mod_count(data, x)
    <2>1. \A x \in Key : get_mod_count(d, x) \in Nat
      BY <1>3, ModCountType
    <2> HIDE DEF d
    <2> QED
      BY <1>2, <1>4, <2>1
  <1> HIDE DEF d
  <1>6. CASE CallCount(c)
    BY <1>1, <1>2, <1>3, <1>4, <1>6, CallInv DEF CallCount
  <1>7. CASE CallDelCount(c)
    <2>1. GoOn(c, "del", Nil) /\ pc[c] = "del_count"
      BY <1>7, Zenon DEF CallDelCount, Call
    <2>2. cmd[c].op \in OpAt("del") /\ Call(c, "del_count", d)
      BY <1>1, <1>2, <2>1, OpFacts
    <2>3. /\ "del" \in Label \ {"idle", "check", "next", "unknown"}
          /\ "del_count" \notin {"idle", "check", "next"}
      BY DEF Label
    <2> QED
      BY <1>3, <1>5, <2>1, <2>2, <2>3, GoOnInv
  <1> QED
    BY <1>6, <1>7

\* Every other call answers, or reaps an expired key, or erases its key.
LEMMA ReadInv ==
  ASSUME Inv, NEW c \in Client, Reader(c) \/ CallLpopExists(c) \/ CallDelExists(c)
  PROVE  Inv'
  <1> DEFINE d == Reap(data, cmd[c].key, now)
  <1>0. pc[c] \in {"exists", "type", "get", "unknown", "lpop_exists", "del_exists"}
    BY Zenon DEF Reader, CallExists, CallType, CallGet, Unknown, CallLpopExists, CallDelExists, Call
  <1>1. /\ IsKeyspace(data) /\ cmd[c].op \in OpAt(pc[c])
        /\ \A x \in Key : get_mod_count(data, x) >= get_mod_count(data, x)
    <2>1. /\ IsKeyspace(data) /\ cmd[c].op \in OpAt(pc[c])
          /\ \A x \in Key : get_mod_count(data, x) \in Nat
      BY <1>0, CallFacts
    <2>2. \A n \in Nat : n >= n
      OBVIOUS
    <2> QED
      BY <2>1, <2>2, Zenon
  <1>2. /\ IsKeyspace(d)
        /\ \A x \in Key : x \notin DOMAIN data \ DOMAIN d =>
              get_mod_count(d, x) >= get_mod_count(data, x)
    BY <1>1, ReapKeeps, Zenon
  <1> HIDE DEF d
  <1>3. ASSUME NEW l \in {"exists", "type", "get", "unknown", "lpop_exists", "del_exists"}, NEW r,
               Call(c, l, d) \/ Call(c, l, data), Finish(c, r), ~Acknowledges(cmd[c].op, r)
        PROVE  Inv'
    BY <1>1, <1>2, <1>3, FinishInv, Zenon
  <1>4. ASSUME NEW l \in {"exists", "type", "get", "unknown", "lpop_exists", "del_exists"}, NEW r,
               Call(c, l, d), NEW m \in Label \ {"idle", "check", "next", "unknown"},
               GoOn(c, m, r), cmd[c].op \in OpAt(m)
        PROVE  Inv'
    BY <1>2, <1>4, GoOnInv
  <1>5. CASE CallExists(c)
    <2>1. Call(c, "exists", d) /\ cmd[c].op \in {"GET", "EXISTS"}
      BY <1>1, <1>5, OpFacts, Zenon DEF CallExists, Call, d
    <2>2. CASE GoOn(c, "type", Nil) /\ cmd[c].op # "EXISTS"
      BY <1>4, <2>1, <2>2, OpFacts DEF Label
    <2>3. ASSUME NEW r, Finish(c, r)
          PROVE  Inv'
      BY <1>3, <2>1, <2>3, AcknowledgesFacts
    <2> QED
      BY <1>5, <2>2, <2>3, Zenon DEF CallExists
  <1>6. CASE CallType(c)
    <2>1. Call(c, "type", d) /\ cmd[c].op = "GET"
      BY <1>1, <1>6, OpFacts, Zenon DEF CallType, Call, d
    <2>2. CASE GoOn(c, "get", Nil)
      BY <1>4, <2>1, <2>2, OpFacts DEF Label
    <2>3. CASE Finish(c, Nil)
      BY <1>3, <2>1, <2>3, AcknowledgesFacts
    <2> QED
      BY <1>6, <2>2, <2>3 DEF CallType
  <1>7. CASE CallGet(c)
    <2>1. cmd[c].op = "GET"
      BY <1>1, <1>7, OpFacts DEF CallGet, Call
    <2>2. Call(c, "get", d) \/ Call(c, "get", data)
      BY <1>7 DEF CallGet, ReapIf, d
    <2> QED
      BY <1>3, <1>7, <2>1, <2>2, AcknowledgesFacts DEF CallGet
  <1>8. CASE Unknown(c)
    <2>1. cmd[c].op \in {"PEXPIRE", "EVAL", "CONTROL"}
      BY <1>1, <1>8, OpFacts DEF Unknown, Call
    <2> QED
      BY <1>3, <1>8, <2>1, AcknowledgesFacts DEF Unknown
  <1>9. CASE CallLpopExists(c)
    <2>1. Call(c, "lpop_exists", d) /\ cmd[c].op = "LPOP" /\ "LPOP" \in OpAt("count")
      BY <1>1, <1>9, OpFacts, Zenon DEF CallLpopExists, Call, d, Op
    <2> QED
      BY <1>3, <1>4, <1>9, <2>1, AcknowledgesFacts, Zenon DEF CallLpopExists, Label
  <1>10. CASE CallDelExists(c)
    <2>1. Call(c, "del_exists", d) /\ cmd[c].op = "DEL"
      BY <1>1, <1>10, OpFacts, Zenon DEF CallDelExists, Call, d
    <2> QED
      BY <1>4, <1>10, <2>1, OpFacts, Zenon DEF CallDelExists, Label
  <1> QED
    BY <1>5, <1>6, <1>7, <1>8, <1>9, <1>10 DEF Reader

\* The three calls of DEL: a key that goes is no longer among the kept ones.
LEMMA DelInv ==
  ASSUME Inv, NEW c \in Client, CallDel(c)
  PROVE  Inv'
  <1> DEFINE k == cmd[c].key
             d == Erase(data, {k})
  <1>1. Call(c, "del", d) /\ pc[c] = "del"
    BY DEF CallDel, Call, del
  <1>2. /\ IsKeyspace(data) /\ cmd[c].op = "DEL"
        /\ \A x \in Key : get_mod_count(data, x) \in Nat
    BY <1>1, CallFacts, OpFacts
  <1>3. IsKeyspace(d) /\ DOMAIN d = DOMAIN data \ {k}
    BY <1>2, EraseType, Zenon DEF Erase
  <1>4. \A x \in Key : x \notin DOMAIN data \ DOMAIN d =>
          get_mod_count(d, x) >= get_mod_count(data, x)
    BY <1>2, EraseCount
  <1> HIDE DEF d
  <1>5. CASE k \in DOMAIN data
    BY <1>1, <1>3, <1>4, <1>5, FinishInv DEF CallDel, Unseen
  <1>6. CASE k \notin DOMAIN data
    BY <1>1, <1>2, <1>3, <1>4, <1>6, AcknowledgesFacts, FinishInv DEF CallDel
  <1> QED
    BY <1>5, <1>6

-----------------------------------------------------------------------------
(* The theorems *)

\* A received command preserves the invariant.
LEMMA ReceiveInv ==
  ASSUME Inv, NEW c \in Client, Receive(c)
  PROVE  Inv'
  <1>1. Shape'
    BY ReceiveShape DEF Inv
  <1>2. ASSUME NEW k \in Key, handle_watch(c, k)
        PROVE  Covered'
    <2> SUFFICES ASSUME NEW e \in Client, NEW x \in kept'[e] \cap DOMAIN watched_keys'[e]
                 PROVE  /\ writes'[x] - seen'[e][x] >= 0
                        /\ get_mod_count(data', x) - watched_keys'[e][x]
                             >= writes'[x] - seen'[e][x]
      BY DEF Covered
    <2>0. data' = data /\ writes' = writes
      BY <1>2 DEF handle_watch, server
    <2>1. get_mod_count(data, k) \in Nat /\ writes[k] \in Nat
      BY ModCountType DEF Inv, Shape, TypeOK
    <2>2. CASE e = c /\ x = k
      <3>1. watched_keys'[e][x] = get_mod_count(data, k) /\ seen'[e][x] = writes[k]
        <4>1. watched_keys'[e] = Put(watched_keys[e], k, get_mod_count(data, k))
          BY <1>2, <2>2 DEF handle_watch, Inv, Shape, TypeOK, IsWatch
        <4> QED
          BY <1>2, <2>2, <4>1 DEF handle_watch, Put, Inv, Shape, TypeOK
      <3> QED
        BY <2>0, <2>1, <2>2, <3>1
    <2>3. CASE ~(e = c /\ x = k)
      <3>1. /\ watched_keys'[e][x] = watched_keys[e][x] /\ seen'[e][x] = seen[e][x]
            /\ x \in kept[e] \cap DOMAIN watched_keys[e]
        BY <1>2, <2>3 DEF handle_watch, Put, Inv, Shape, TypeOK
      <3> QED
        BY <2>0, <3>1, Zenon DEF Inv, Covered
    <2> QED
      BY <2>2, <2>3
  <1>3. CASE handle_unwatch(c)
    <2>1. /\ data' = data /\ writes' = writes /\ seen' = seen /\ kept' = kept
          /\ watched_keys' = [watched_keys EXCEPT ![c] = EmptyMap]
      BY <1>3 DEF handle_unwatch, server, history
    <2>2. Covered'
      BY <2>1 DEF Inv, Shape, TypeOK, Covered, EmptyMap
    <2> QED
      BY <1>1, <2>2 DEF Inv
  <1>4. CASE UNCHANGED <<data, watched_keys, writes, seen, kept>>
    <2>1. Covered'
      BY <1>4 DEF Inv, Covered
    <2> QED
      BY <1>1, <2>1 DEF Inv
  <1>5. (\E k \in Key : handle_watch(c, k)) \/ handle_unwatch(c)
        \/ UNCHANGED <<data, watched_keys, writes, seen, kept>>
    BY DEF Receive, Dispatch, Enqueue, Redirect, WithoutMulti, AnswerAtOnce, handle_multi,
           handle_discard, handle_exec, server, session, history
  <1> QED
    BY <1>1, <1>2, <1>3, <1>4, <1>5 DEF Inv

\* A step of EXEC preserves the invariant.
LEMMA ExecInv ==
  ASSUME Inv, NEW c \in Client, Exec(c)
  PROVE  Inv'
  <1>1. Shape'
    BY ExecShape DEF Inv
  <1>2. /\ data' = data /\ writes' = writes /\ seen' = seen /\ kept' = kept
        /\ watched_keys' = watched_keys \/ watched_keys' = [watched_keys EXCEPT ![c] = EmptyMap]
    BY Zenon DEF Exec, ExecCheck, ExecAborts, ExecChecked, ExecNext, ExecEnds, EndTransaction,
           server, session, history
  <1>3. Covered'
    <2>1. \A e \in Client : \A k \in DOMAIN watched_keys'[e] :
            k \in DOMAIN watched_keys[e] /\ watched_keys'[e][k] = watched_keys[e][k]
      <3>1. DOMAIN EmptyMap = {}
        BY DEF EmptyMap
      <3>2. CASE watched_keys' = [watched_keys EXCEPT ![c] = EmptyMap]
        <4>1. \A e \in Client : watched_keys'[e] = IF e = c THEN EmptyMap ELSE watched_keys[e]
          BY <3>2 DEF Inv, Shape, TypeOK, IsWatch
        <4> QED
          BY <3>1, <4>1
      <3> QED
        BY <1>2, <3>2
    <2> QED
      BY <1>2, <2>1, Zenon DEF Inv, Covered
  <1> QED
    BY <1>1, <1>3 DEF Inv

\* The invariant holds before the first connection.
LEMMA InitInv == Init => Inv
  <1> SUFFICES ASSUME Init PROVE Inv
    OBVIOUS
  <1>1. IsKeyspace(data)
    BY DEF Init, IsKeyspace, EmptyMap
  <1>2. TypeOK
    BY <1>1, MapType, WatchType, SessionsAssumption DEF Init, TypeOK, Label
  <1>3. TransactionShape /\ AtCall /\ Covered
    BY DEF Init, TransactionShape, AtCall, Covered
  <1> QED
    BY <1>2, <1>3 DEF Inv, Shape

\* Every step of every thread, and of the clock, preserves the invariant.
LEMMA StepInv == Inv /\ [Next]_vars => Inv'
  <1> SUFFICES ASSUME Inv, [Next]_vars PROVE Inv'
    OBVIOUS
  <1>1. CASE Tick
    <2>1. TypeOK'
      BY <1>1 DEF Tick, Inv, Shape, TypeOK, session, running, history
    <2>2. TransactionShape' /\ AtCall' /\ Covered'
      BY <1>1 DEF Tick, Inv, Shape, TransactionShape, AtCall, Covered, session, running, history
    <2> QED
      BY <2>1, <2>2 DEF Inv, Shape
  <1>2. ASSUME NEW c \in Client, Receive(c) \/ Work(c)
        PROVE  Inv'
    BY <1>2, ReceiveInv, ExecInv, WriteInv, PexpireInv, CountInv, ReadInv, DelInv
    DEF Work, Writer, Deleter
  <1>3. CASE UNCHANGED vars
    <2>1. TypeOK' /\ TransactionShape' /\ AtCall' /\ Covered'
      BY <1>3, Zenon DEF Inv, Shape, TypeOK, TransactionShape, AtCall, Covered,
                  vars, server, session, running, history
    <2> QED
      BY <2>1 DEF Inv, Shape
  <1> QED
    BY <1>1, <1>2, <1>3 DEF Next

\* Every state of every number of connections is well typed, and transactions
\* keep their shape: queue, watched keys, EXEC's loop and the running command
\* stay consistent (commands.cpp 33-127, 1090-1177).
THEOREM TransactionsKeepShape == Spec => [](TypeOK /\ TransactionShape)
  <1>1. Inv => TypeOK /\ TransactionShape
    BY DEF Inv, Shape
  <1> QED
    BY <1>1, InitInv, StepInv, PTL DEF Spec

\* However the threads interleave, EXEC lets a watched key that has been neither
\* removed nor written by a script since the WATCH pass only if no change of it
\* has been acknowledged since (commands.cpp 1117-1129); scripts run next to the
\* other commands here, and write to any key.
THEOREM WatchIsSound == Spec => WatchSound
  <1> DEFINE A == \A c \in Client : \A k \in Passed(c) \cap kept[c] : seen[c][k] = writes[k]
  <1>1. Inv /\ [Next]_vars => [A]_vars
    <2> SUFFICES ASSUME Inv, Next, NEW c \in Client,
                        NEW k \in (to_check[c] \ to_check'[c]) \cap kept[c], pc'[c] # "idle"
                 PROVE  seen[c][k] = writes[k]
      BY DEF Passed
    <2>1. k \in Key /\ k \in DOMAIN watched_keys[c] /\ pc[c] = "check"
      BY DEF Inv, Shape, TypeOK, TransactionShape
    <2>2. get_mod_count(data, k) = watched_keys[c][k]
      <3>1. PICK e \in Client : Receive(e) \/ Work(e)
        BY DEF Next, Tick, session
      <3>2. CASE Receive(e)
        <4>1. pc[e] = "idle" /\ (to_check' = to_check \/ \E X : to_check' = [to_check EXCEPT ![e] = X])
          BY <3>2 DEF Receive, Sends, Dispatch, Enqueue, Redirect, WithoutMulti, AnswerAtOnce,
                      handle_multi, handle_discard, handle_watch, handle_unwatch, handle_exec, session
        <4> QED
          BY <2>1, <4>1, Zenon DEF Inv, Shape, TypeOK
      <3>3. CASE Exec(e)
        <4>1. ASSUME NEW x \in Key, ExecCheck(e, x)
              PROVE  get_mod_count(data, k) = watched_keys[c][k]
          BY <4>1, Zenon DEF ExecCheck, Inv, Shape, TypeOK
        <4>2. ASSUME NEW r, EndTransaction(e, r)
              PROVE  FALSE
          BY <4>2 DEF EndTransaction, Inv, Shape, TypeOK
        <4>3. CASE ExecChecked(e) \/ ExecNext(e)
          BY <4>3 DEF ExecChecked, ExecNext, session
        <4> QED
          BY <3>3, <4>1, <4>2, <4>3, Zenon DEF Exec, ExecAborts, ExecEnds
      <3>4. CASE Writer(e) \/ Reader(e) \/ Deleter(e)
        <4>1. to_check' = to_check
          BY <3>4, Zenon DEF Writer, Reader, Deleter, CallSet, CallLpush, CallSadd, CallLpop,
             CallLpopExists, CallPexpire, CallEval, CallCount, CallExists, CallType, CallGet, Unknown,
             CallDelExists, CallDelCount, CallDel, Call, session
        <4> QED
          BY <4>1
      <3> QED
        BY <3>1, <3>2, <3>3, <3>4, Zenon DEF Work
    <2>3. /\ writes[k] - seen[c][k] >= 0
          /\ get_mod_count(data, k) - watched_keys[c][k] >= writes[k] - seen[c][k]
      BY <2>1, Zenon DEF Inv, Covered
    <2>4. writes[k] \in Nat /\ seen[c][k] \in Nat /\ get_mod_count(data, k) \in Nat
      BY <2>1, ModCountType DEF Inv, Shape, TypeOK
    <2> QED
      BY <2>2, <2>3, <2>4
  <1> QED
    BY <1>1, InitInv, StepInv, PTL DEF Spec, WatchSound
=============================================================================

---------------------------- MODULE RoutingProofs ----------------------------
(***************************************************************************)
(* Proof that a key of another node changes only under EXEC or by a         *)
(* command that is never routed, for any table, connections and commands.   *)
(***************************************************************************)
EXTENDS SessionsProofs

AtACall(c) == pc[c] \notin {"idle", "check", "next"}

\* A handler that runs outside a transaction was not redirected.
Routed == \A c \in Client : AtACall(c) /\ ~in_transaction[c] => ~Redirected(cmd[c])

\* The keyspaces d and e agree but for key k.
SameBut(d, e, k) ==
  \A x : x # k => /\ x \in DOMAIN d <=> x \in DOMAIN e
                  /\ x \in DOMAIN d => e[x] = d[x]

-----------------------------------------------------------------------------
\* Storing and erasing leave the other keys alone (data[key] and data.erase).
LEMMA PutFrame == \A d, k, v : SameBut(d, Put(d, k, v), k)
  BY DEF SameBut, Put

\* The same of erasing, and of doing nothing.
LEMMA EraseFrame == \A d, k : SameBut(d, Erase(d, {k}), k) /\ SameBut(d, d, k)
  BY DEF SameBut, Erase

\* So does every Database call that the handlers make (db.cpp 17-171, 242-248).
LEMMA MethodFrame ==
  /\ \A d, k, s : SameBut(d, set(d, k, s), k)
  /\ \A d, k, vs : SameBut(d, lpush(d, k, vs), k)
  /\ \A d, k, M : SameBut(d, sadd(d, k, M), k)
  /\ \A d, k : SameBut(d, lpop(d, k), k)
  /\ \A d, k, t : SameBut(d, Reap(d, k, t), k)
  /\ \A d, k, ty, t : SameBut(d, ReapIf(d, k, ty, t), k)
  /\ \A d, k, t, ms : SameBut(d, pexpire(d, k, t, ms), k)
  /\ \A d, k : SameBut(d, del(d, k), k)
  /\ \A d, k : SameBut(d, increment_mod_count(d, k), k)
  <1>1. \A d, k, s : SameBut(d, set(d, k, s), k)
    BY PutFrame, Zenon DEF set
  <1>2. \A d, k, vs : SameBut(d, lpush(d, k, vs), k)
    BY PutFrame, Zenon DEF lpush
  <1>3. \A d, k, M : SameBut(d, sadd(d, k, M), k)
    BY PutFrame, Zenon DEF sadd
  <1>4. \A d, k : SameBut(d, lpop(d, k), k)
    BY PutFrame, EraseFrame, Zenon DEF lpop
  <1>5. \A d, k, t : SameBut(d, Reap(d, k, t), k)
    BY EraseFrame, Zenon DEF Reap
  <1>6. \A d, k, ty, t : SameBut(d, ReapIf(d, k, ty, t), k)
    BY <1>5, EraseFrame, Zenon DEF ReapIf
  <1>7. \A d, k, t, ms : SameBut(d, pexpire(d, k, t, ms), k)
    BY <1>5, PutFrame, Zenon DEF pexpire, SetExpiry
  <1>8. \A d, k : SameBut(d, del(d, k), k)
    BY EraseFrame, Zenon DEF del
  <1>9. \A d, k : SameBut(d, increment_mod_count(d, k), k)
    BY PutFrame, Zenon DEF increment_mod_count
  <1> QED
    BY <1>1, <1>2, <1>3, <1>4, <1>5, <1>6, <1>7, <1>8, <1>9

-----------------------------------------------------------------------------
\* The step of c is that of a thread at a call: it changes no key but its
\* command's, and commands, transactions and the other threads stay as they are.
CallStep(c) ==
  /\ AtACall(c) /\ SameBut(data, data', cmd[c].key)
  /\ cmd' = cmd /\ in_transaction' = in_transaction
  /\ \A x \in Client \ {c} : pc'[x] = pc[x]

\* A Database call that touches one key, whether its handler returns or goes on.
LEMMA OneCall ==
  ASSUME TypeOK, NEW c \in Client, NEW l, NEW d, Call(c, l, d),
         l \notin {"idle", "check", "next"}, SameBut(data, d, cmd[c].key),
         \E r, m : Finish(c, r) \/ GoOn(c, m, r)
  PROVE  CallStep(c)
  <1>1. pc[c] = l /\ data' = d /\ cmd' = cmd /\ in_transaction' = in_transaction
    BY DEF Call, session
  <1>2. \A x \in Client \ {c} : pc'[x] = pc[x]
    BY DEF Finish, GoOn, TypeOK
  <1> QED
    BY <1>1, <1>2 DEF AtACall, CallStep

\* Every step of a handler is of this kind (commands.cpp 276-346, 408-474,
\* 570-594, 1205-1228, lua_scripting.cpp 79-84).
LEMMA HandlerStep ==
  ASSUME TypeOK, NEW c \in Client, Writer(c) \/ Reader(c) \/ Deleter(c)
  PROVE  CallStep(c)
  <1>1. CASE CallSet(c)
    BY <1>1, OneCall, MethodFrame DEF CallSet
  <1>2. CASE CallLpush(c)
    BY <1>2, OneCall, MethodFrame DEF CallLpush
  <1>3. CASE CallSadd(c)
    BY <1>3, OneCall, MethodFrame DEF CallSadd
  <1>4. CASE CallLpop(c)
    BY <1>4, OneCall, MethodFrame DEF CallLpop
  <1>5. CASE CallLpopExists(c)
    <2>1. Call(c, "lpop_exists", Reap(data, cmd[c].key, now))
      BY <1>5 DEF CallLpopExists
    <2>2. \E r, m : Finish(c, r) \/ GoOn(c, m, r)
      BY <1>5, Zenon DEF CallLpopExists
    <2> QED
      BY <2>1, <2>2, OneCall, MethodFrame
  <1>6. CASE CallPexpire(c)
    <2>1. Call(c, "pexpire", pexpire(data, cmd[c].key, now, cmd[c].arg))
      BY <1>6 DEF CallPexpire
    <2>2. \E r, m : Finish(c, r) \/ GoOn(c, m, r)
      BY <1>6, Zenon DEF CallPexpire
    <2> QED
      BY <2>1, <2>2, OneCall, MethodFrame
  <1>7. CASE CallCount(c)
    BY <1>7, OneCall, MethodFrame DEF CallCount
  <1>8. CASE CallExists(c)
    <2>1. Call(c, "exists", Reap(data, cmd[c].key, now))
      BY <1>8 DEF CallExists
    <2>2. \E r, m : Finish(c, r) \/ GoOn(c, m, r)
      BY <1>8, Zenon DEF CallExists
    <2> QED
      BY <2>1, <2>2, OneCall, MethodFrame
  <1>15. CASE CallEval(c)
    BY <1>15, OneCall, MethodFrame DEF CallEval
  <1>9. CASE CallType(c)
    BY <1>9, OneCall, MethodFrame DEF CallType
  <1>10. CASE CallGet(c)
    BY <1>10, OneCall, MethodFrame DEF CallGet
  <1>11. CASE Unknown(c)
    BY <1>11, OneCall, EraseFrame, Zenon DEF Unknown
  <1>12. CASE CallDelExists(c)
    <2>1. Call(c, "del_exists", Reap(data, cmd[c].key, now))
      BY <1>12 DEF CallDelExists
    <2>2. \E r, m : Finish(c, r) \/ GoOn(c, m, r)
      BY <1>12, Zenon DEF CallDelExists
    <2> QED
      BY <2>1, <2>2, OneCall, MethodFrame
  <1>13. CASE CallDelCount(c)
    BY <1>13, OneCall, MethodFrame DEF CallDelCount
  <1>14. CASE CallDel(c)
    BY <1>14, OneCall, MethodFrame DEF CallDel
  <1> QED
    BY <1>1, <1>2, <1>3, <1>4, <1>5, <1>6, <1>7, <1>8, <1>9, <1>10, <1>11, <1>12, <1>13, <1>14, <1>15
       DEF Writer, Reader, Deleter

-----------------------------------------------------------------------------
\* The steps that are not Database calls change no data.
LEMMA OtherStep ==
  ASSUME NEW c \in Client, Receive(c) \/ Exec(c)
  PROVE  data' = data
  <1>1. CASE Receive(c)
    BY <1>1 DEF Receive, Dispatch, Redirect, WithoutMulti, AnswerAtOnce, Enqueue, handle_watch,
       handle_multi, handle_discard, handle_unwatch, handle_exec, server
  <1>2. CASE Exec(c)
    BY <1>2 DEF Exec, ExecCheck, ExecAborts, ExecChecked, ExecNext, ExecEnds, EndTransaction, server
  <1> QED
    BY <1>1, <1>2

\* A command is routed before its handler runs, or runs under EXEC.
LEMMA StepRouted ==
  ASSUME Shape, Routed, [Next]_vars
  PROVE  Routed'
  <1> USE DEF Shape
  <1>1. CASE UNCHANGED vars \/ Tick
    BY <1>1 DEF Tick, vars, session, running, Routed, AtACall, Redirected
  <1>2. ASSUME NEW c \in Client, NEW r \in Request, Dispatch(c, r)
        PROVE  Routed'
    BY <1>2 DEF Dispatch, session, Routed, AtACall, Redirected, TypeOK
  <1>3. ASSUME NEW c \in Client, Receive(c), \A r \in Request : ~Dispatch(c, r)
        PROVE  Routed'
    <2>1. /\ pc[c] = "idle" /\ cmd' = cmd
          /\ pc' = pc \/ pc' = [pc EXCEPT ![c] = "check"]
          /\ \A x \in Client \ {c} : in_transaction'[x] = in_transaction[x]
      BY <1>3 DEF Receive, Redirect, WithoutMulti, AnswerAtOnce, Enqueue, handle_watch, Sends,
         handle_multi, handle_discard, handle_unwatch, handle_exec, session, TypeOK
    <2> QED
      BY <2>1 DEF Routed, AtACall, Redirected, TypeOK
  <1>4. ASSUME NEW c \in Client, Exec(c)
        PROVE  Routed'
    <2>1. CASE ExecNext(c)
      <3>1. in_transaction[c] /\ in_transaction' = in_transaction
        BY <2>1 DEF ExecNext, session, TransactionShape
      <3>2. \A x \in Client \ {c} : pc'[x] = pc[x] /\ cmd'[x] = cmd[x]
        BY <2>1 DEF ExecNext, TypeOK
      <3> QED
        BY <3>1, <3>2 DEF Routed, AtACall, Redirected
    <2>2. CASE ~ExecNext(c)
      <3>1. /\ cmd' = cmd
            /\ \A x \in Client \ {c} : in_transaction'[x] = in_transaction[x] /\ pc'[x] = pc[x]
            /\ ~AtACall(c)'
        BY <1>4, <2>2 DEF Exec, ExecCheck, ExecAborts, ExecChecked, ExecEnds, EndTransaction,
           AtACall, session, running, TypeOK
      <3> QED
        BY <3>1 DEF Routed, AtACall, Redirected
    <2> QED
      BY <2>1, <2>2
  <1>5. ASSUME NEW c \in Client, Writer(c) \/ Reader(c) \/ Deleter(c)
        PROVE  Routed'
    BY <1>5, HandlerStep DEF CallStep, Routed, AtACall, Redirected
  <1> QED
    BY <1>1, <1>2, <1>3, <1>4, <1>5 DEF Next, Work

\* For a step from such a state, a key of another node that is touched is the
\* key of a command under EXEC or of one that is never routed.
LEMMA StepTouches ==
  ASSUME Shape, Routed, [Next]_vars, NEW k \in Key \ Served, Touched(k)
  PROVE  \E c \in Client : /\ pc[c] # "idle" /\ cmd[c].key = k
                           /\ in_transaction[c] \/ cmd[c].op \notin Routable
  <1>1. data' # data
    BY DEF Touched
  <1>2. ~(UNCHANGED vars) /\ ~Tick
    BY <1>1 DEF vars, server, Tick
  <1>3. PICK c \in Client : Writer(c) \/ Reader(c) \/ Deleter(c)
    BY <1>1, <1>2, OtherStep DEF Next, Work
  <1>4. CallStep(c)
    BY <1>3, HandlerStep DEF Shape
  <1>5. cmd[c].key = k
    BY <1>4 DEF CallStep, SameBut, Touched
  <1> QED
    BY <1>4, <1>5 DEF CallStep, AtACall, Routed, Redirected

\* A key of another node changes only under a transaction or by a command that
\* process_command never routes (commands.cpp 129-144, after 33-127).
THEOREM RoutingIsKept == Spec => RoutedOutsideExec
  <1>1. Init => Routed
    BY DEF Init, Routed, AtACall
  <1>2. Inv /\ Routed /\ [Next]_vars => Routed'
    BY StepRouted DEF Inv
  <1>3. Inv /\ Routed /\ [Next]_vars
          => [\A k \in Key \ Served :
                Touched(k) => \E c \in Client :
                                 /\ pc[c] # "idle" /\ cmd[c].key = k
                                 /\ in_transaction[c] \/ cmd[c].op \notin Routable]_vars
    BY StepTouches DEF Inv
  <1> QED
    BY <1>1, <1>2, <1>3, InitInv, StepInv, PTL DEF Spec, RoutedOutsideExec
=============================================================================

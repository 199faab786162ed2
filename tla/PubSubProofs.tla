---------------------------- MODULE PubSubProofs ----------------------------
(***************************************************************************)
(* Proofs about PubSub for any number of descriptors, channels and messages *)
(* and any size of the pipes: registration follows the life of a processor, *)
(* and no wakeup is lost.                                                   *)
(***************************************************************************)
EXTENDS PubSub, TLAPS

\* What the argument needs of the types.
Typed ==
  /\ pc \in [Fd -> Label] /\ processors \in SUBSET Fd
  /\ DOMAIN queue = Fd /\ queue = [f \in Fd |-> queue[f]]
  /\ DOMAIN subs = Fd /\ subs = [f \in Fd |-> subs[f]]
  /\ pipe \in [Fd -> Nat] /\ stale \in [Fd -> BOOLEAN]

Calling(g) == pc[g] \in {"push", "write"}

\* The processor a publisher holds is that of a descriptor in use until the
\* publisher is marked stale; a closed descriptor has no messages; and a
\* message that waits while its thread is not draining is announced.
Announced ==
  /\ \A g \in Fd : Calling(g) => Head(subs[g]) \in Fd
  /\ \A g \in Fd : Calling(g) /\ ~stale[g] => pc[Head(subs[g])] # "free"
  /\ \A f \in Fd : pc[f] = "free" => queue[f] = <<>>
  /\ \A f \in Fd : pc[f] \notin {"drain", "deliver", "cleanup", "return"} /\ queue[f] # <<>>
                     => pipe[f] > 0 \/ Notifying(f)

Inv == Typed /\ RegisteredIffAlive /\ Announced

\* The steps of the connection's own loop that neither push, write nor end it.
LEMMA LoopInv ==
  ASSUME Inv, NEW f \in Fd,
         \/ Start(f) \/ Wake(f) \/ Drain(f) \/ Delivers(f) \/ Read(f) \/ EndBatch(f) \/ Leave(f)
         \/ OtherCommand(f)
         \/ \E readable \in BOOLEAN : Drained(f, readable)
         \/ Cleanup(f)
  PROVE  Inv'
  <1> USE DEF Inv
  <1>1. /\ stale' = stale /\ subs' = subs
        /\ pc[f] \notin {"find", "push", "write"} /\ pc'[f] \notin {"find", "push", "write", "free"}
        /\ \E l \in Label : pc' = [pc EXCEPT ![f] = l]
    BY DEF Start, Wake, Drain, Delivers, Read, EndBatch, Leave, OtherCommand, Drained, Cleanup, Goto, local, Typed, Label
  <1>a. \/ queue' = queue \/ queue' = [queue EXCEPT ![f] = Tail(@)]
    BY DEF Start, Wake, Drain, Delivers, Read, EndBatch, Leave, OtherCommand, Drained, Cleanup
  <1>b. \/ pipe' = pipe
        \/ pipe[f] > 0 /\ pipe' = [pipe EXCEPT ![f] = @ - 1]
    BY DEF Start, Wake, Drain, Delivers, Read, EndBatch, Leave, OtherCommand, Drained, Cleanup
  <1>c. processors' \in SUBSET Fd
    BY DEF Start, Wake, Drain, Delivers, Read, EndBatch, Leave, OtherCommand, Drained, Cleanup, Typed
  <1>d. DOMAIN queue' = Fd /\ queue' = [g \in Fd |-> queue'[g]]
    BY <1>a DEF Typed
  <1>e. pipe' \in [Fd -> Nat]
    <2>1. pipe[f] > 0 => pipe[f] - 1 \in Nat
      BY DEF Typed
    <2> QED
      BY <1>b, <2>1 DEF Typed
  <1>2. /\ \A g \in Fd : g # f => pc'[g] = pc[g] /\ queue'[g] = queue[g] /\ pipe'[g] = pipe[g]
        /\ DOMAIN queue' = Fd /\ queue' = [g \in Fd |-> queue'[g]] /\ pipe' \in [Fd -> Nat]
        /\ processors' \in SUBSET Fd
    BY <1>1, <1>a, <1>b, <1>c, <1>d, <1>e DEF Typed
  <1>3. Typed'
    BY <1>1, <1>2, Zenon DEF Typed
  <1>4. RegisteredIffAlive'
    BY DEF Start, Wake, Drain, Delivers, Read, EndBatch, Leave, OtherCommand, Drained, Cleanup, Goto, Typed,
           RegisteredIffAlive
  <1>5. \A g \in Fd : Notifying(g)' <=> Notifying(g)
    BY <1>1, <1>2 DEF Notifying, Typed
  <1>6. pc'[f] \notin {"drain", "deliver", "cleanup", "return"} /\ queue'[f] # <<>>
          => pipe'[f] > 0 \/ Notifying(f)
    BY DEF Start, Wake, Drain, Delivers, Read, EndBatch, Leave, OtherCommand, Drained, Cleanup, Goto, Typed, Announced
  <1>7. Announced'
    BY <1>1, <1>2, <1>5, <1>6 DEF Announced, Calling
  <1> QED
    BY <1>3, <1>4, <1>7

\* The end of a connection marks the publishers that hold its processor.
LEMMA ReturnInv ==
  ASSUME Inv, NEW f \in Fd, Return(f)
  PROVE  Inv'
  <1> USE DEF Inv
  <1>1. /\ pc' = [pc EXCEPT ![f] = "free"] /\ pc[f] = "return"
        /\ queue' = [queue EXCEPT ![f] = <<>>] /\ pipe' = [pipe EXCEPT ![f] = 0]
        /\ stale' = [g \in Fd |-> stale[g] \/ (pc[g] \in {"push", "write"} /\ Head(subs[g]) = f)]
        /\ processors' = processors /\ subs' = subs
    BY DEF Return, Goto
  <1>2. Typed'
    BY <1>1, Zenon DEF Typed, Label
  <1>3. RegisteredIffAlive'
    BY <1>1 DEF RegisteredIffAlive, Typed
  <1>4. \A g \in Fd : g # f /\ Notifying(g) => Notifying(g)'
    BY <1>1 DEF Notifying, Typed
  <1>5. Announced'
    BY <1>1, <1>4, Zenon DEF Announced, Calling, Typed
  <1> QED
    BY <1>2, <1>3, <1>5

\* SUBSCRIBE, UNSUBSCRIBE, and the steps of PUBLISH between two calls.
LEMMA CommandInv ==
  ASSUME Inv, NEW f \in Fd,
         \/ \E ch \in Channel : \/ handle_subscribe(f, ch) \/ handle_unsubscribe(f, ch)
                                \/ handle_publish(f, ch)
         \/ Find(f) \/ NoEffect(f) \/ Published(f)
  PROVE  Inv'
  <1> USE DEF Inv
  <1>1. /\ processors' = processors /\ queue' = queue /\ pipe' = pipe
        /\ \A g \in Fd : g # f => pc'[g] = pc[g] /\ subs'[g] = subs[g] /\ stale'[g] = stale[g]
        /\ pc[f] \in {"command", "find", "push", "write"}
        /\ pc'[f] \in {"reply", "find", "push"}
        /\ pc[f] \in {"push", "write"} => stale[f]
    BY Zenon DEF handle_subscribe, handle_unsubscribe, handle_publish, Find, NoEffect, Published,
           Goto, local, Typed
  <1>2. Typed'
    BY <1>1, Zenon DEF handle_subscribe, handle_unsubscribe, handle_publish, Find, NoEffect, Published,
           Goto, local, Typed, Label
  <1>3. RegisteredIffAlive'
    BY <1>1 DEF RegisteredIffAlive
  <1>4. \A g \in Fd : Notifying(g) => Notifying(g)'
    BY <1>1 DEF Notifying
  <1>5. pc'[f] = "push" => Head(subs'[f]) \in processors
    BY Zenon DEF handle_subscribe, handle_unsubscribe, handle_publish, Find, NoEffect, Published,
           Goto, Typed
  <1>6. \A g \in Fd : Calling(g)' => Head(subs'[g]) \in Fd
    BY <1>1, <1>5 DEF Announced, Calling, Typed
  <1>7. \A g \in Fd : Calling(g)' /\ ~stale'[g] => pc'[Head(subs'[g])] # "free"
    BY <1>1, <1>5, <1>6 DEF Announced, Calling, RegisteredIffAlive
  <1>8. \A g \in Fd : pc'[g] \notin {"drain", "deliver", "cleanup", "return"} /\ queue'[g] # <<>>
                        => pipe'[g] > 0 \/ Notifying(g)'
    BY <1>1, <1>4 DEF Announced
  <1>9. \A g \in Fd : pc'[g] = "free" => queue'[g] = <<>>
    BY <1>1 DEF Announced
  <1> QED
    BY <1>2, <1>3, <1>6, <1>7, <1>8, <1>9 DEF Announced

\* The push announces the message, by the write that follows it.
LEMMA PushInv ==
  ASSUME Inv, NEW f \in Fd, Push(f)
  PROVE  Inv'
  <1> USE DEF Inv
  <1> DEFINE h == Head(subs[f])
  <1>1. /\ pc[f] = "push" /\ pc' = [pc EXCEPT ![f] = "write"]
        /\ queue' = [queue EXCEPT ![h] = Append(queue[h], msg[f])]
        /\ stale' = [stale EXCEPT ![f] = FALSE]
        /\ processors' = processors /\ pipe' = pipe /\ subs' = subs
        /\ stale[f] => h \in processors
    BY DEF Push, Goto
  <1>2. h \in Fd /\ pc[h] # "free"
    BY <1>1 DEF Announced, Calling, RegisteredIffAlive
  <1>3. Typed'
    BY <1>1, <1>2, Zenon DEF Typed, Label
  <1>4. RegisteredIffAlive'
    BY <1>1 DEF RegisteredIffAlive, Typed
  <1>5. Notifying(h)' /\ \A g \in Fd : Notifying(g) => Notifying(g)'
    BY <1>1 DEF Notifying, Typed
  <1>6. \A g \in Fd : g # h => queue'[g] = queue[g]
    BY <1>1 DEF Typed
  <1>7. Announced'
    BY <1>1, <1>2, <1>5, <1>6 DEF Announced, Calling, Typed
  <1> QED
    BY <1>3, <1>4, <1>7

\* The write leaves a byte in the pipe.
LEMMA WriteInv ==
  ASSUME Inv, NEW f \in Fd, Write(f)
  PROVE  Inv'
  <1> USE DEF Inv
  <1> DEFINE h == Head(subs[f])
  <1>1. /\ pc[f] = "write" /\ pc' = [pc EXCEPT ![f] = "find"]
        /\ pipe' = [pipe EXCEPT ![h] = pipe[h] + 1]
        /\ subs' = [subs EXCEPT ![f] = Tail(subs[f])]
        /\ processors' = processors /\ queue' = queue /\ stale' = stale
    BY DEF Write, Goto
  <1>2. h \in Fd
    BY <1>1 DEF Announced, Calling
  <1>a. pipe[h] + 1 \in Nat /\ pipe' \in [Fd -> Nat]
    BY <1>1, <1>2 DEF Typed
  <1>b. DOMAIN subs' = Fd /\ subs' = [g \in Fd |-> subs'[g]]
    BY <1>1, Zenon DEF Typed
  <1>c. pc' \in [Fd -> Label]
    BY <1>1 DEF Typed, Label
  <1>3. Typed'
    BY <1>1, <1>a, <1>b, <1>c DEF Typed
  <1>4. RegisteredIffAlive'
    BY <1>1 DEF RegisteredIffAlive, Typed
  <1>5. pipe'[h] > 0 /\ \A g \in Fd : g # h => pipe'[g] = pipe[g]
    BY <1>1, <1>2 DEF Typed
  <1>6. \A g \in Fd : g # h /\ Notifying(g) => Notifying(g)'
    BY <1>1 DEF Notifying, Typed
  <1>7. Announced'
    BY <1>1, <1>5, <1>6 DEF Announced, Calling, Typed
  <1> QED
    BY <1>3, <1>4, <1>7

-----------------------------------------------------------------------------
\* Nobody is connected at first.
LEMMA InitInv == Init => Inv
  BY DEF Init, Inv, Typed, RegisteredIffAlive, Announced, Calling, Notifying, Label

\* Every step of every thread preserves the invariant.
LEMMA StepInv == Inv /\ [Next]_vars => Inv'
  <1> SUFFICES ASSUME Inv, [Next]_vars PROVE Inv'
    OBVIOUS
  <1>1. CASE UNCHANGED vars
    BY <1>1 DEF Inv, Typed, RegisteredIffAlive, Announced, Calling, Notifying, vars, local
  <1>2. ASSUME NEW f \in Fd, Client(f) \/ Thread(f)
        PROVE  Inv'
    BY <1>2, LoopInv, ReturnInv, CommandInv, PushInv, WriteInv DEF Client, Thread
  <1> QED
    BY <1>1, <1>2 DEF Next

\* client_processors holds the processors that exist, and no others, whatever
\* the order in which connections come and go (main.cpp 43-44, 131-135).
THEOREM RegistrationFollowsLife == Spec => []RegisteredIffAlive
  <1>1. Inv => RegisteredIffAlive
    BY DEF Inv
  <1> QED
    BY <1>1, InitInv, StepInv, PTL DEF Spec

\* A thread that waits in select with messages queued has a byte in its pipe or
\* is about to get one, for any number of publishers and any size of the pipe
\* (main.cpp 63-74, commands.cpp 1388-1394).
THEOREM NoWakeupIsLost == Spec => []NoLostWakeup
  <1>1. Inv => NoLostWakeup
    BY DEF Inv, Announced, NoLostWakeup
  <1> QED
    BY <1>1, InitInv, StepInv, PTL DEF Spec
=============================================================================

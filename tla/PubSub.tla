------------------------------- MODULE PubSub -------------------------------
(***************************************************************************)
(* Publish/subscribe across connections: PubSubManager (db.cpp 853-889),    *)
(* the handlers (commands.cpp 1313-1407) and the loop of handle_client      *)
(* (main.cpp 35-135).  Each file descriptor f in use has a thread, pc[f] is *)
(* where it stands; a descriptor that is closed is given to a later         *)
(* connection.  The methods of PubSubManager hold its mutex and are atomic; *)
(* client_processors and the queues have no lock, so handle_publish is cut  *)
(* at every access to them.  The writes to the client's socket block while  *)
(* the client does not read.                                                *)
(***************************************************************************)
EXTENDS Integers, Sequences, FiniteSets

CONSTANTS Fd,        \* descriptors accept() may return
          Channel,
          MaxPub,    \* bound on PUBLISH commands
          MaxSubs,   \* bound on the subscriptions of a channel
          PipeSize   \* bytes a notification pipe holds

ASSUME PubSubAssumption ==
  MaxPub \in Nat /\ MaxSubs \in Nat /\ PipeSize \in Nat \ {0}

VARIABLES
  pc,           \* the thread of a descriptor, "free" when there is none
  processors,   \* keys of client_processors
  subscribers,  \* PubSubManager::subscribers
  queue,        \* CommandProcessor::pubsub_messages
  pipe,         \* bytes in the notification pipe
  subs, msg,    \* handle_publish: descriptors still to serve, the message
  stale,        \* handle_publish: the processor it found is destroyed
  \* history:
  published,    \* PUBLISH commands so far
  until,        \* the last PUBLISH a descriptor may hear of on a channel
  received      \* messages whose write to the client has begun

local == <<subs, msg, stale>>
history == <<published, until, received>>
vars == <<pc, processors, subscribers, queue, pipe, local, history>>

Message == [from : Fd, n : 1..MaxPub, channel : Channel]

NoMessage(f) == [from |-> f, n |-> 0, channel |-> CHOOSE ch \in Channel : TRUE]

Goto(f, l) == pc' = [pc EXCEPT ![f] = l]

-----------------------------------------------------------------------------
(* handle_client *)

\* accept, the pipe, the processor and its registration.
Start(f) ==
  /\ pc[f] = "free" /\ Goto(f, "select")
  /\ processors' = processors \cup {f}
  /\ received' = [received EXCEPT ![f] = <<>>]
  /\ UNCHANGED <<subscribers, queue, pipe, local, published, until>>

\* Bug: the pipe is read without asking FD_ISSET.
Wake_Unasked(f) ==
  /\ pc[f] = "select" /\ Goto(f, "drain")
  /\ pipe' = [pipe EXCEPT ![f] = @ - 1]
  /\ UNCHANGED <<processors, subscribers, queue, local, history>>

\* Bug: the byte is read, the queue is not.
Wake_NoDrain(f) ==
  /\ pc[f] = "select" /\ pipe[f] > 0
  /\ pipe' = [pipe EXCEPT ![f] = @ - 1]
  /\ UNCHANGED <<pc, processors, subscribers, queue, local, history>>

\* Bug: the queue is emptied, the byte stays in the pipe.
Wake_KeepsByte(f) ==
  /\ pc[f] = "select" /\ pipe[f] > 0 /\ Goto(f, "drain")
  /\ UNCHANGED <<processors, subscribers, queue, pipe, local, history>>

\* select returns with the pipe readable: one byte is read.
Wake(f) ==
  /\ pc[f] = "select" /\ pipe[f] > 0 /\ Goto(f, "drain")
  /\ pipe' = [pipe EXCEPT ![f] = @ - 1]
  /\ UNCHANGED <<processors, subscribers, queue, local, history>>

\* A message is popped and its write to the client begins ...
Drain(f) ==
  /\ pc[f] = "drain" /\ queue[f] # <<>> /\ Goto(f, "deliver")
  /\ queue' = [queue EXCEPT ![f] = Tail(@)]
  /\ received' = [received EXCEPT ![f] = Append(@, Head(queue[f]))]
  /\ UNCHANGED <<processors, subscribers, pipe, local, published, until>>

\* ... and ends, once the client has made room by reading; a reply's as well.
Delivers(f) ==
  /\ \/ pc[f] = "deliver" /\ Goto(f, "drain")
     \/ pc[f] = "reply" /\ Goto(f, "command")
  /\ UNCHANGED <<processors, subscribers, queue, pipe, local, history>>

\* The queue is empty; the client's socket may have been readable as well.
Drained(f, readable) ==
  /\ pc[f] = "drain" /\ queue[f] = <<>>
  /\ Goto(f, IF readable THEN "command" ELSE "select")
  /\ UNCHANGED <<processors, subscribers, queue, pipe, local, history>>

\* select returns with only the socket readable.
Read(f) ==
  /\ pc[f] = "select" /\ pipe[f] = 0 /\ Goto(f, "command")
  /\ UNCHANGED <<processors, subscribers, queue, pipe, local, history>>

\* All commands of the buffer are processed.
EndBatch(f) ==
  /\ pc[f] = "command" /\ Goto(f, "select")
  /\ UNCHANGED <<processors, subscribers, queue, pipe, local, history>>

\* select fails, end of file, a protocol error, or a write to the client fails.
Leave(f) ==
  /\ pc[f] \in {"select", "command", "reply", "deliver"} /\ Goto(f, "cleanup")
  /\ UNCHANGED <<processors, subscribers, queue, pipe, local, history>>

\* Bug: the processor stays registered.
Cleanup_Forgets(f) ==
  /\ pc[f] = "cleanup" /\ Goto(f, "return")
  /\ UNCHANGED <<processors, subscribers, queue, pipe, local, history>>

Cleanup(f) ==
  /\ pc[f] = "cleanup" /\ Goto(f, "return")
  /\ processors' = processors \ {f}
  /\ UNCHANGED <<subscribers, queue, pipe, local, history>>

\* The pipe is closed, the processor destroyed, then the socket closed.
Return(f) ==
  /\ pc[f] = "return" /\ Goto(f, "free")
  /\ queue' = [queue EXCEPT ![f] = <<>>]
  /\ pipe' = [pipe EXCEPT ![f] = 0]
  /\ stale' = [g \in Fd |-> stale[g] \/ (pc[g] \in {"push", "write"} /\ Head(subs[g]) = f)]
  /\ UNCHANGED <<processors, subscribers, subs, msg, history>>

-----------------------------------------------------------------------------
(* The commands; the reply of each is written to the client *)

OtherCommand(f) ==
  /\ pc[f] = "command" /\ Goto(f, "reply")
  /\ UNCHANGED <<processors, subscribers, queue, pipe, local, history>>

handle_subscribe(f, ch) ==
  /\ pc[f] = "command" /\ Len(subscribers[ch]) < MaxSubs /\ Goto(f, "reply")
  /\ subscribers' = [subscribers EXCEPT ![ch] = Append(@, f)]
  /\ until' = [until EXCEPT ![f][ch] = MaxPub]
  /\ UNCHANGED <<processors, queue, pipe, local, published, received>>

\* Bug: std::remove without erase, so the list keeps its length.
handle_unsubscribe_NoErase(f, ch) ==
  /\ pc[f] = "command" /\ Goto(f, "reply")
  /\ until' = [until EXCEPT ![f][ch] = published]
  /\ UNCHANGED <<processors, subscribers, queue, pipe, local, published, received>>

handle_unsubscribe(f, ch) ==
  /\ pc[f] = "command" /\ Goto(f, "reply")
  /\ subscribers' = [subscribers EXCEPT ![ch] = SelectSeq(@, LAMBDA g : g # f)]
  /\ until' = [until EXCEPT ![f][ch] = published]
  /\ UNCHANGED <<processors, queue, pipe, local, published, received>>

\* handle_publish takes a copy of the subscribers ...
handle_publish(f, ch) ==
  /\ pc[f] = "command" /\ published < MaxPub /\ Goto(f, "find")
  /\ published' = published + 1
  /\ subs' = [subs EXCEPT ![f] = subscribers[ch]]
  /\ msg' = [msg EXCEPT ![f] = [from |-> f, n |-> published + 1, channel |-> ch]]
  /\ UNCHANGED <<processors, subscribers, queue, pipe, stale, until, received>>

\* ... looks each of them up ...
Find(f) ==
  /\ pc[f] = "find" /\ subs[f] # <<>>
  /\ IF Head(subs[f]) \in processors
     THEN Goto(f, "push") /\ UNCHANGED subs
     ELSE subs' = [subs EXCEPT ![f] = Tail(@)] /\ UNCHANGED pc
  /\ stale' = [stale EXCEPT ![f] = FALSE]
  /\ UNCHANGED <<processors, subscribers, queue, pipe, msg, history>>

\* Bug: queue_pubsub_message notifies nobody.
Push_Silent(f) ==
  /\ pc[f] = "push" /\ ~stale[f] /\ Goto(f, "find")
  /\ queue' = [queue EXCEPT ![Head(subs[f])] = Append(@, msg[f])]
  /\ subs' = [subs EXCEPT ![f] = Tail(@)]
  /\ UNCHANGED <<processors, subscribers, pipe, msg, stale, history>>

\* Bug: the newest message is the first to be taken.
Push_Front(f) ==
  /\ pc[f] = "push" /\ ~stale[f] /\ Goto(f, "write")
  /\ queue' = [queue EXCEPT ![Head(subs[f])] = <<msg[f]>> \o @]
  /\ UNCHANGED <<processors, subscribers, pipe, subs, msg, stale, history>>

\* ... and calls queue_pubsub_message, which pushes, then writes a byte.  In a
\* destroyed processor both have no effect, or reach the processor that has
\* taken its place.
Push(f) ==
  /\ pc[f] = "push" /\ Goto(f, "write")
  /\ queue' = [queue EXCEPT ![Head(subs[f])] = Append(@, msg[f])]
  /\ stale[f] => Head(subs[f]) \in processors
  /\ stale' = [stale EXCEPT ![f] = FALSE]
  /\ UNCHANGED <<processors, subscribers, pipe, subs, msg, history>>

\* The write blocks while the pipe is full.
Write(f) ==
  LET h == Head(subs[f])
  IN  /\ pc[f] = "write" /\ Goto(f, "find")
      /\ pipe[h] < PipeSize /\ (stale[f] => h \in processors)
      /\ pipe' = [pipe EXCEPT ![h] = @ + 1]
      /\ subs' = [subs EXCEPT ![f] = Tail(@)]
      /\ UNCHANGED <<processors, subscribers, queue, msg, stale, history>>

NoEffect(f) ==
  /\ pc[f] \in {"push", "write"} /\ stale[f] /\ Goto(f, "find")
  /\ subs' = [subs EXCEPT ![f] = Tail(@)]
  /\ UNCHANGED <<processors, subscribers, queue, pipe, msg, stale, history>>

Published(f) ==
  /\ pc[f] = "find" /\ subs[f] = <<>> /\ Goto(f, "reply")
  /\ msg' = [msg EXCEPT ![f] = NoMessage(f)]
  /\ stale' = [stale EXCEPT ![f] = FALSE]
  /\ UNCHANGED <<processors, subscribers, queue, pipe, subs, history>>

-----------------------------------------------------------------------------
Init ==
  /\ pc = [f \in Fd |-> "free"]
  /\ processors = {}
  /\ subscribers = [ch \in Channel |-> <<>>]
  /\ queue = [f \in Fd |-> <<>>] /\ pipe = [f \in Fd |-> 0]
  /\ subs = [f \in Fd |-> <<>>]
  /\ msg = [f \in Fd |-> NoMessage(f)]
  /\ stale = [f \in Fd |-> FALSE]
  /\ published = 0 /\ until = [f \in Fd |-> [ch \in Channel |-> 0]] /\ received = [f \in Fd |-> <<>>]

\* What the environment decides: connections, input and its end, and when the
\* client reads.
Client(f) ==
  \/ Start(f) \/ Read(f) \/ Delivers(f) \/ Leave(f) \/ OtherCommand(f)
  \/ \E ch \in Channel : \/ handle_subscribe(f, ch) \/ handle_unsubscribe(f, ch)
                         \/ handle_publish(f, ch)

\* What the thread does by itself.
Thread(f) ==
  \/ Wake(f) \/ Drain(f) \/ EndBatch(f) \/ Cleanup(f) \/ Return(f)
  \/ \E readable \in BOOLEAN : Drained(f, readable)
  \/ Find(f) \/ Push(f) \/ Write(f) \/ NoEffect(f) \/ Published(f)

Next == \E f \in Fd : Client(f) \/ Thread(f)

Spec == Init /\ [][Next]_vars

\* A thread that can go on by itself is scheduled, and a buffer holds finitely
\* many commands, so that the loop over it ends.  Nothing is assumed of the
\* client: a write to it may never end.
FairSpec == Spec /\ \A f \in Fd : WF_vars(Thread(f)) /\ SF_vars(EndBatch(f))

-----------------------------------------------------------------------------
(* Properties *)

Label == {"free", "select", "drain", "deliver", "command", "reply", "find", "push", "write",
          "cleanup", "return"}

\* Every component of the state keeps its type.
TypeOK ==
  /\ pc \in [Fd -> Label] /\ processors \in SUBSET Fd
  /\ subscribers \in [Channel -> Seq(Fd)] /\ subs \in [Fd -> Seq(Fd)]
  /\ queue \in [Fd -> Seq(Message)] /\ pipe \in [Fd -> 0..PipeSize]
  /\ stale \in [Fd -> BOOLEAN] /\ published \in 0..MaxPub
  /\ until \in [Fd -> [Channel -> 0..MaxPub]]
  /\ \A f \in Fd : pc[f] \in {"find", "push", "write"} => msg[f] \in Message
  /\ \A f \in Fd : pc[f] \in {"push", "write"} => subs[f] # <<>>

\* A thread is about to write the byte that goes with a message for f.
Notifying(f) == \E g \in Fd : pc[g] = "write" /\ Head(subs[g]) = f /\ ~stale[g]

\* No wakeup is lost: while a thread waits in select with messages queued, its
\* pipe holds a byte or a publisher is about to write one, although one byte is
\* read for any number of messages and nothing locks the queue against the pipe
\* (main.cpp 63-74, commands.cpp 1388-1394).
NoLostWakeup ==
  \A f \in Fd : pc[f] = "select" /\ queue[f] # <<>> => pipe[f] > 0 \/ Notifying(f)

\* client_processors holds exactly the processors that exist: a connection is
\* registered before it reads a command and taken out before its processor is
\* destroyed and its descriptor can be given away (main.cpp 43-44, 131-135, 198-202).
RegisteredIffAlive == \A f \in Fd : f \in processors <=> pc[f] \notin {"free", "return"}

\* A connection gets the messages of one publisher in the order in which they
\* were published (a duplicate subscription may repeat one): the queue is FIFO
\* and a publisher finishes a PUBLISH before it starts the next.
InOrder ==
  \A f \in Fd : LET r == received[f] \o queue[f]
                IN  \A i, j \in DOMAIN r : i < j /\ r[i].from = r[j].from => r[i].n <= r[j].n

\* A client hears nothing of a channel before a SUBSCRIBE on its descriptor, and
\* after an UNSUBSCRIBE only of a PUBLISH that had begun by then (README.md:157,
\* "Subscribe to channels").  The SUBSCRIBE may be that of an earlier connection:
\* the cleanup leaves its descriptor in the lists (main.cpp 131-135), and messages
\* pushed to a destroyed processor may reach its successor.
OnlyWhileListed ==
  \A f \in Fd : \A i \in DOMAIN received[f] :
    received[f][i].n <= until[f][received[f][i].channel]

\* The thread of f is in a write to a pipe that has no room.
Blocked(f) == pc[f] = "write" /\ pipe[Head(subs[f])] = PipeSize

\* The thread of f is in a write to its client.
Writing(f) == pc[f] \in {"deliver", "reply"}

\* A queued message is handed to its client or its connection goes away
\* ("real-time delivery", .grok/technical.md:18), unless the receiver's thread is
\* for good in a PUBLISH, or in a write to a client that does not read.
Delivered == \A f \in Fd : []<>(queue[f] = <<>>) \/ <>[]Blocked(f) \/ <>[]Writing(f)

\* A PUBLISH that never returns waits for a pipe whose reader will not read it:
\* the thread of that descriptor is for good in a PUBLISH itself or in a write to
\* a client that does not read (main.cpp:69, 91).  A subscriber that leaves, or
\* whose descriptor changes hands, does not hold a PUBLISH up for good
\* (commands.cpp 1388-1394, main.cpp 63-66 and 131-135).
BlockedByStuckReader ==
  \A f \in Fd : <>[]Blocked(f) =>
    \E g \in Fd : <>[](Blocked(f) /\ Head(subs[f]) = g /\ (Blocked(g) \/ Writing(g)))
=============================================================================

----------------------------- MODULE Persistence -----------------------------
(***************************************************************************)
(* The RDB file next to the running server: clients change the keyspace    *)
(* while save_rdb walks it, called by the save daemon and by SAVE on the   *)
(* same file; the disk may fill up, the process may die and start again.   *)
(*                                                                         *)
(* save_rdb takes no lock.  It writes an entry as it finds it when its     *)
(* iterator gets there, the type and the size first and then the contents, *)
(* and a command may come in between; the stream passes bytes on when its  *)
(* buffer is full and at the end, at the offset it has reached.  A write   *)
(* that fails sets a flag of the stream nobody looks at: save_rdb still    *)
(* answers true.  Commands that move a hash table under an iterator, or    *)
(* erase the entry it stands on, are undefined behaviour and left out.     *)
(***************************************************************************)
EXTENDS Rdb

CONSTANTS Begin,        \* keyspaces that commands before the first save left
          Room,         \* bytes the disk may have for the file
          Saver,        \* the callers of save_rdb
          FileBuf,      \* bytes the stream holds back
          Now, Ttl,     \* the instant of every command, the argument of PEXPIRE
          MaxOps        \* commands in a behaviour

ASSUME PersistenceAssumption == FileBuf \in Nat \ {0} /\ Now > 0 /\ Ttl > 0 /\ MaxOps \in Nat

VARIABLES data,         \* Database::data
          file,         \* minimalredis.rdb
          room,         \* bytes the disk has for it
          save,         \* the calls of save_rdb in progress
          ops,          \* commands so far
          held,         \* what each key held since the saves in progress began
          mix           \* how those saves could get in each other's way, or
                        \* commands in theirs
vars == <<data, file, room, save, ops, held, mix>>

Idle == [at |-> "idle"]
Nobody == CHOOSE k \in Key : TRUE   \* no entry begun yet
Writing(w) == save[w].at \in {"writing", "entry"}

\* The type of k and its size, if it has one, are written, its contents not yet.
Inside(w, k) == save[w].at = "entry" /\ save[w].key = k

\* What the properties ask of an entry that was written and read: its type and
\* the value of that type; the expiry of a string.  (load_rdb drops the expiry
\* of the other types; no property says that it should.)
Kept(v) ==
  [NewValue EXCEPT
     !.type = v.type,
     !.expiry_time = IF v.type = "String" /\ v.expiry_time > 0 THEN v.expiry_time ELSE 0,
     !.str_val = IF v.type = "String" THEN v.str_val ELSE @,
     !.list_val = IF v.type = "List" THEN v.list_val ELSE @,
     !.set_val = IF v.type = "Set" THEN v.set_val ELSE @,
     !.hash_val = IF v.type = "Hash" THEN v.hash_val ELSE @,
     !.zset_score_to_member = IF v.type = "ZSet" THEN v.zset_score_to_member ELSE @,
     !.zset_member_to_score = IF v.type = "ZSet" THEN v.zset_member_to_score ELSE @]

\* An empty list or hash has no element to be stored again.
Restored(d) ==
  LET lost(v) == \/ v.type = "List" /\ v.list_val = <<>>
                 \/ v.type = "Hash" /\ DOMAIN v.hash_val = {}
  IN  [k \in {j \in DOMAIN d : ~lost(d[j])} |-> Kept(d[k])]

\* The set of what each key holds.
Singletons(d) == [k \in Key |-> IF k \in DOMAIN d THEN {d[k]} ELSE {}]

Init ==
  /\ data \in Begin /\ file = <<>> /\ room \in Room
  /\ save = [w \in Saver |-> Idle]
  /\ ops = 0
  /\ held = [k \in Key |-> {}] /\ mix = {}

-----------------------------------------------------------------------------
(* Commands of the clients (SET, HSET, PEXPIRE, DEL), with the count their     *)
(* handlers add; Begin has entries of the other types.                        *)

Counted(d, k) == data' = increment_mod_count(d, k)

handle_set(k) == \E s \in String : Counted(set(data, k, s), k)
handle_hset(k) == \E f, s \in String : Counted(hset(data, k, f, s), k)
handle_pexpire(k) == k \in DOMAIN data /\ Counted(pexpire(data, k, Now, Ttl), k)
handle_del(k) ==
  /\ k \in DOMAIN data /\ \A w \in Saver : ~Inside(w, k)
  /\ data' = del(data, k)

Hold(d) == [k \in Key |-> held[k] \cup Singletons(Restored(d))[k]]

Command(k) ==
  /\ ops < MaxOps
  /\ ops' = ops + 1
  /\ handle_set(k) \/ handle_hset(k) \/ handle_pexpire(k) \/ handle_del(k)
  /\ held' = IF \E w \in Saver : Writing(w) THEN Hold(data') ELSE held
  /\ mix' = IF \E w \in Saver : Inside(w, k) THEN mix \cup {"changed"} ELSE mix
  /\ UNCHANGED <<file, room, save>>
-----------------------------------------------------------------------------
(* save_rdb, called by w. *)

\* write(bytes) at offset off of f; what lies between is zero.
Overlay(f, off, bytes) ==
  LET end == off + Len(bytes)
  IN  [i \in 1 .. (IF end > Len(f) THEN end ELSE Len(f)) |->
         IF i > off /\ i <= end THEN bytes[i - off] ELSE IF i <= Len(f) THEN f[i] ELSE 0]

\* The stream of w passes the first n of its bytes on.  A write past the room on
\* the disk is cut short, and the stream is bad from then on.
Flush(w, s, n) ==
  LET written == Overlay(file, s.off, SubSeq(s.out, s.off + 1, n))
      fits == Len(written) <= room
  IN  /\ file' = IF s.bad THEN file ELSE IF fits THEN written ELSE SubSeq(written, 1, room)
      /\ save' = [save EXCEPT ![w] = [s EXCEPT !.off = n, !.bad = @ \/ ~fits]]

\* Bytes go into the stream of w, which passes on its buffer when that is full.
Output(w, s) ==
  LET full == FileBuf * ((Len(s.out) - s.off) \div FileBuf)
  IN  IF full > 0 THEN Flush(w, s, s.off + full) /\ mix' = mix \cup {"split"}
      ELSE file' = file /\ save' = [save EXCEPT ![w] = s] /\ mix' = mix

Together(w) == \E u \in Saver \ {w} : Writing(u)

Begun == [at |-> "writing", todo |-> DOMAIN data, done |-> {}, key |-> Nobody,
          type |-> "String", out |-> Header, off |-> 0, bad |-> FALSE]

\* Bug: the file is opened without being truncated.
Open_Over(w) ==
  /\ save[w] = Idle
  /\ save' = [save EXCEPT ![w] = Begun]
  /\ IF Together(w) THEN held' = held /\ mix' = mix \cup {"overlap"}
     ELSE mix' = {} /\ held' = Singletons(Restored(data))
  /\ UNCHANGED <<data, file, room, ops>>

\* Opening truncates; the header goes into the stream's buffer.
Open(w) ==
  /\ save[w] = Idle
  /\ file' = <<>>
  /\ save' = [save EXCEPT ![w] = Begun]
  /\ IF Together(w) THEN held' = held /\ mix' = mix \cup {"overlap"}
     ELSE mix' = {} /\ held' = Singletons(Restored(data))
  /\ UNCHANGED <<data, room, ops>>

\* The iterator reaches the entry of k ...
WriteHead(w) ==
  /\ save[w].at = "writing"
  /\ \E k \in DOMAIN data \ save[w].done :
        Output(w, [save[w] EXCEPT !.at = "entry", !.key = k, !.type = data[k].type,
                                  !.out = @ \o RecordHead(k, data[k])])
  /\ UNCHANGED <<data, room, ops, held>>

\* ... and its contents are written, as they are by now.
WriteBody(w) ==
  LET k == save[w].key
      ty == save[w].type
  IN  /\ save[w].at = "entry"
      /\ \E order \in Orders(data[k], ty) :
            Output(w, [save[w] EXCEPT !.at = "writing", !.done = @ \cup {k},
                                      !.out = @ \o RecordBody(data[k], ty, order)])
      /\ UNCHANGED <<data, room, ops, held>>

\* No entry is left (one that was added meanwhile may have been passed).
WriteEof(w) ==
  LET s == [save[w] EXCEPT !.out = Append(@, RDB_OPCODE_EOF), !.at = "flushed"]
  IN  /\ save[w].at = "writing" /\ save[w].todo \cap DOMAIN data \subseteq save[w].done
      /\ Flush(w, s, Len(s.out))
      /\ UNCHANGED <<data, room, ops, held, mix>>

\* close() and return true.
Close(w) ==
  /\ save[w].at = "flushed"
  /\ save' = [save EXCEPT ![w] = Idle]
  /\ UNCHANGED <<data, file, room, ops, held, mix>>
-----------------------------------------------------------------------------
\* The process dies, whatever it was doing, and main starts it again.
Restart ==
  /\ data' = load_rdb(file).data
  /\ save' = [w \in Saver |-> Idle]
  /\ UNCHANGED <<file, room, ops, held, mix>>

Next ==
  \/ Restart \/ \E k \in Key : Command(k)
  \/ \E w \in Saver : Open(w) \/ WriteHead(w) \/ WriteBody(w) \/ WriteEof(w) \/ Close(w)

Spec == Init /\ [][Next]_vars
-----------------------------------------------------------------------------
(* Properties. *)

\* The files save_rdb may write for d when it meets the entries in the order ks.
FilesOf(d, ks) ==
  LET begun == FoldLeft(LAMBDA fs, k : {f \o Record(k, d[k], o) :
                                             f \in fs, o \in Orders(d[k], d[k].type)},
                        {Header}, ks)
  IN  {f \o <<RDB_OPCODE_EOF>> : f \in begun}

\* The records of a file, read by the loop of load_rdb from the first of them,
\* past the SELECTDB of the header that load_rdb itself stumbles over.
Records(f) == ReadRecords(f, Len(Header) + 1, EmptyMap)

\* Before the first save: what the next two properties say is about the keyspace
\* alone, and the commands make it here.
Quiet == file = <<>> /\ \A w \in Saver : save[w] = Idle

ReadsAs(r, d) == r.ok /\ [k \in DOMAIN r.data |-> Kept(r.data[k])] = d

\* The loop of load_rdb, started at the first record, reads back every record
\* save_rdb writes, in whatever order the hash tables give keys, members and
\* fields: each type, both forms of a length, equal scores in their order, an
\* expiry before a string (db.cpp 670-729 against 756-847).
RoundTrip ==
  Quiet => \A ks \in SetToSeqs(DOMAIN data) : \A f \in FilesOf(data, ks) :
              ReadsAs(Records(f), Restored(data))

\* A hash can come back with a part of its fields.
PartOf(v, u) ==
  \/ v = u
  \/ /\ v.type = "Hash" /\ u.type = "Hash"
     /\ \A f \in DOMAIN v.hash_val : f \in DOMAIN u.hash_val /\ v.hash_val[f] = u.hash_val[f]

\* The keys of r hold a part of what one of the values in from[k] holds.
AllFrom(r, from) ==
  \A k \in DOMAIN r : k \in DOMAIN from /\ \E v \in from[k] : PartOf(Kept(r[k]), v)

\* A file cut at any byte reads as a part of what was saved: some of the keys,
\* each with its whole value, except a last hash that may lack fields.
TornFileIsPart ==
  Quiet => \A ks \in SetToSeqs(DOMAIN data) : \A f \in FilesOf(data, ks) : \A n \in 0 .. Len(f) :
              AllFrom(Records(SubSeq(f, 1, n)).data, Singletons(Restored(data)))

\* Whatever is on disk, a file cut short by a full disk or a crash in the
\* middle of a save included, its records hold no key and no value that the
\* keyspace did not hold while the last saves ran.  Two things can spoil that:
\* two saves at once of a keyspace larger than the stream's buffer mix their
\* bytes, and a command that changes an entry while it is being written leaves a
\* record whose size is not that of its contents, or an expiry before a value it
\* was not set on (db.cpp 674-680, 722-727).
NothingInvented ==
  "changed" \in mix \/ {"overlap", "split"} \subseteq mix \/ AllFrom(Records(file).data, held)

\* "Crash Recovery: Automatic loading on startup" (.grok/technical.md:153):
\* after a restart the keyspace holds what the records of the file hold.
RestartRestores == [][Restart => data' = Records(file).data]_vars
=============================================================================

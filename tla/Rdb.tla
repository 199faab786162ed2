--------------------------------- MODULE Rdb ---------------------------------
(***************************************************************************)
(* The RDB file of save_rdb and load_rdb (db.cpp 613-851) as a sequence of *)
(* bytes: the writer and the reader of lengths, strings, records and whole *)
(* files.  The reader is translated with its own control flow, so that it  *)
(* meets the bytes the writer left where the code does.                     *)
(***************************************************************************)
EXTENDS Database

CONSTANT Text           \* the bytes of the keys and strings

ASSUME TextAssumption == \A s, u \in DOMAIN Text : Text[s] = Text[u] => s = u

RDB_TYPE == [String |-> 0, List |-> 1, Set |-> 2, ZSet |-> 3, Hash |-> 4]
RDB_OPCODE_EXPIRETIME_MS == 252
RDB_OPCODE_SELECTDB == 254
RDB_OPCODE_EOF == 255
RDB_MAGIC == <<82, 69, 68, 73, 83>>
RDB_VERSION == 9

\* A fixed-width number as the machine lays it out.  Numbers stay below Large;
\* one that is read and is not is larger than any file.
Large == 256 ^ 3
LittleEndian(n, width) ==
  [i \in 1 .. width |-> IF i > 3 THEN 0 ELSE (n \div 256 ^ (i - 1)) % 256]
Number(bytes) ==
  IF \E i \in DOMAIN bytes : i > 3 /\ bytes[i] # 0 THEN Large
  ELSE bytes[1] + 256 * bytes[2] + 256 ^ 2 * bytes[3]

\* A double, written and read as the same eight bytes; only which score it is
\* matters.
Double(score) == LittleEndian(score, 8)

-----------------------------------------------------------------------------
(* The writer. *)

\* Bug: the short form also for the first length it cannot hold.
write_length_encoded_64(s) ==
  LET len == Len(Text[s])
  IN  (IF len <= 64 THEN <<len>> ELSE <<128>> \o LittleEndian(len, 4)) \o Text[s]

write_length_encoded(s) ==
  LET len == Len(Text[s])
  IN  (IF len < 64 THEN <<len>> ELSE <<128>> \o LittleEndian(len, 4)) \o Text[s]

\* The orders in which the loop over the container of type ty may meet its
\* elements: any order for the hash tables.
Orders(v, ty) ==
  CASE ty = "String" -> {<<>>}
    [] ty = "List"   -> {v.list_val}
    [] ty = "Set"    -> SetToSeqs(v.set_val)
    [] ty = "Hash"   -> SetToSeqs(DOMAIN v.hash_val)
    [] ty = "ZSet"   -> {v.zset_score_to_member}

Element(v, ty, x) ==
  CASE ty \in {"List", "Set"} -> write_length_encoded(x)
    [] ty = "Hash" -> write_length_encoded(x) \o write_length_encoded(v.hash_val[x])
    [] ty = "ZSet" -> write_length_encoded(x[2]) \o Double(x[1])

\* The size of a sorted set is that of its other index.
Size(v) ==
  CASE v.type = "List" -> Len(v.list_val)  [] v.type = "Set" -> Cardinality(v.set_val)
    [] v.type = "Hash" -> Cardinality(DOMAIN v.hash_val)
    [] v.type = "ZSet" -> Cardinality(DOMAIN v.zset_member_to_score)

\* The body of the loop of save_rdb for one entry: what comes before the
\* contents, the size of a container included, ...
RecordHead(k, v) ==
  (IF v.expiry_time > 0
   THEN <<RDB_OPCODE_EXPIRETIME_MS>> \o LittleEndian(v.expiry_time, 8) ELSE <<>>)
  \o <<RDB_TYPE[v.type]>> \o write_length_encoded(k)
  \o (IF v.type = "String" THEN <<>> ELSE LittleEndian(Size(v), 4))

\* ... and the contents, for the type the switch has chosen.
RecordBody(v, ty, order) ==
  IF ty = "String" THEN write_length_encoded(v.str_val)
  ELSE FlattenSeq([i \in DOMAIN order |-> Element(v, ty, order[i])])

Record(k, v, order) == RecordHead(k, v) \o RecordBody(v, v.type, order)

Header == RDB_MAGIC \o <<RDB_VERSION>> \o <<RDB_OPCODE_SELECTDB, 0>>

-----------------------------------------------------------------------------
(* The reader: f is the file, p the position of the next byte. *)

Fail == [ok |-> FALSE]
Value(x, p) == [ok |-> TRUE, val |-> x, pos |-> p]

\* read(buffer, n)
Raw(f, p, n) == IF p + n - 1 > Len(f) THEN Fail ELSE Value(SubSeq(f, p, p + n - 1), p + n)
U32(f, p) == LET r == Raw(f, p, 4) IN IF r.ok THEN Value(Number(r.val), r.pos) ELSE Fail

\* The string the bytes spell, or one the program never stored.
Spelled(bytes) ==
  IF \E s \in DOMAIN Text : Text[s] = bytes
  THEN CHOOSE s \in DOMAIN Text : Text[s] = bytes ELSE -1

Chars(f, p, len) ==
  LET r == Raw(f, p, len) IN IF r.ok THEN Value(Spelled(r.val), r.pos) ELSE Fail

\* Two bits of the first byte tell the form of the length.
read_length_encoded(f, p) ==
  IF p > Len(f) THEN Fail
  ELSE CASE f[p] \div 64 = 0 -> Chars(f, p + 1, f[p])
         [] f[p] \div 64 = 2 -> LET len == U32(f, p + 1)
                                IN  IF len.ok THEN Chars(f, len.pos, len.val) ELSE Fail
         [] OTHER -> Fail

Score8(f, p) == LET r == Raw(f, p, 8) IN IF r.ok THEN Value(Number(r.val), r.pos) ELSE Fail

\* One element of a list or set, one <<score, member>>, one <<field, value>>.
ReadElement(f, p, ty) ==
  LET a == read_length_encoded(f, p)
  IN  IF ~a.ok \/ ty \in {RDB_TYPE.List, RDB_TYPE.Set} THEN a
      ELSE LET b == IF ty = RDB_TYPE.ZSet THEN Score8(f, a.pos)
                                          ELSE read_length_encoded(f, a.pos)
           IN  IF ~b.ok THEN Fail
               ELSE Value(IF ty = RDB_TYPE.ZSet THEN <<b.val, a.val>> ELSE <<a.val, b.val>>,
                          b.pos)

RECURSIVE ReadElements(_, _, _, _, _)
\* Up to n elements into acc; with ok FALSE the ones before the end of the file.
ReadElements(f, p, n, ty, acc) ==
  IF n = 0 THEN [ok |-> TRUE, val |-> acc, pos |-> p]
  ELSE LET e == ReadElement(f, p, ty)
       IN  IF e.ok THEN ReadElements(f, e.pos, n - 1, ty, Append(acc, e.val))
           ELSE [ok |-> FALSE, val |-> acc, pos |-> p]

\* Bug: the elements are stored as they are read.
Store_Early(d, k, ty, es) ==
  CASE ty = RDB_TYPE.List -> IF es.val # <<>> THEN rpush(d, k, es.val) ELSE d
    [] ty = RDB_TYPE.Set  -> sadd(d, k, ToSet(es.val))
    [] ty = RDB_TYPE.ZSet -> zadd(d, k, es.val)
    [] ty = RDB_TYPE.Hash -> FoldLeft(LAMBDA e, p : hset(e, k, p[1], p[2]), d, es.val)

\* The elements go in through the Database methods.  A list, set or sorted set
\* is stored once all of it was read, a hash field by field.
Store(d, k, ty, es) ==
  CASE ty = RDB_TYPE.List -> IF es.ok /\ es.val # <<>> THEN rpush(d, k, es.val) ELSE d
    [] ty = RDB_TYPE.Set  -> IF es.ok THEN sadd(d, k, ToSet(es.val)) ELSE d
    [] ty = RDB_TYPE.ZSet -> IF es.ok THEN zadd(d, k, es.val) ELSE d
    [] ty = RDB_TYPE.Hash -> FoldLeft(LAMBDA e, p : hset(e, k, p[1], p[2]), d, es.val)

\* A string takes the expiry read before it.
StoreString(d, k, s, expiry) ==
  LET e == set(d, k, s)
  IN  IF expiry > 0 THEN Put(e, k, [e[k] EXCEPT !.expiry_time = expiry]) ELSE e

RECURSIVE ReadRecords(_, _, _)
\* The loop of load_rdb from position p on, with d loaded so far.
ReadRecords(f, p, d) ==
  IF p > Len(f) \/ f[p] = RDB_OPCODE_EOF THEN [ok |-> TRUE, data |-> d]
  ELSE
  LET refuse(e) == [ok |-> FALSE, data |-> e]
      timed == f[p] = RDB_OPCODE_EXPIRETIME_MS
      stamp == Raw(f, p + 1, 8)
      q == IF timed THEN p + 9 ELSE p
  IN  IF timed /\ (~stamp.ok \/ q > Len(f)) THEN refuse(d)
      ELSE
      LET ty == f[q]
          key == read_length_encoded(f, q + 1)
      IN  IF ~key.ok THEN refuse(d)
          ELSE CASE ty = RDB_TYPE.String ->
                      LET s == read_length_encoded(f, key.pos)
                          expiry == IF timed THEN Number(stamp.val) ELSE -1
                      IN  IF ~s.ok THEN refuse(d)
                          ELSE ReadRecords(f, s.pos, StoreString(d, key.val, s.val, expiry))
                 [] ty \in {RDB_TYPE.List, RDB_TYPE.Set, RDB_TYPE.ZSet, RDB_TYPE.Hash} ->
                      LET n == U32(f, key.pos)
                          es == ReadElements(f, n.pos, n.val, ty, <<>>)
                          e == Store(d, key.val, ty, es)
                      IN  IF ~n.ok THEN refuse(d)
                          ELSE IF ~es.ok THEN refuse(e)
                          ELSE ReadRecords(f, es.pos, e)
                 [] ty = RDB_OPCODE_SELECTDB ->
                      IF key.pos > Len(f) THEN refuse(d)
                      ELSE IF f[key.pos] # 0 THEN refuse(d)
                      ELSE ReadRecords(f, key.pos + 1, d)
                 [] OTHER -> ReadRecords(f, key.pos, d)

load_rdb(f) ==
  IF Len(f) < 6 \/ SubSeq(f, 1, 5) # RDB_MAGIC THEN [ok |-> FALSE, data |-> EmptyMap]
  ELSE ReadRecords(f, 7, EmptyMap)
=============================================================================

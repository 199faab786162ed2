------------------------------ MODULE Database ------------------------------
(***************************************************************************)
(* The methods of Database that Keyspace does not have: the other end of a  *)
(* list, ranges, set algebra, hashes and sorted sets (db.cpp 166-570).      *)
(***************************************************************************)
EXTENDS Keyspace, SequencesExt

(* Lists *)

rpop(d, k) ==
  IF CanPop(d, k) THEN Put(d, k, [d[k] EXCEPT !.list_val = Front(@)]) ELSE d
RPopped(d, k) == IF CanPop(d, k) THEN Last(d[k].list_val) ELSE EmptyString

llen(d, k, t) ==
  IF Holds(d, k, "List") /\ exists(d, k, t) THEN Len(d[k].list_val) ELSE 0

\* Bug: a negative end counts from the last element instead of past it.
Slice_OffByOne(s, start, end) ==
  LET size == Len(s)
      lo == IF start < 0 THEN (IF size + start < 0 THEN 0 ELSE size + start) ELSE start
      hi == IF end < 0 THEN size + end - 1 ELSE IF end < size - 1 THEN end ELSE size - 1
  IN  SubSeq(s, lo + 1, hi + 1)

\* The index arithmetic lrange, zrange and zrevrange share: negative indices
\* count from the end, then both ends are clamped (indices are 0-based).
Slice(s, start, end) ==
  LET size == Len(s)
      lo == LET i == IF start < 0 THEN size + start ELSE start
            IN  IF i < 0 THEN 0 ELSE i
      hi == LET i == IF end < 0 THEN size + end ELSE end
            IN  IF i < size - 1 THEN i ELSE size - 1
  IN  SubSeq(s, lo + 1, hi + 1)

ListOf(d, k) == IF Holds(d, k, "List") THEN d[k].list_val ELSE <<>>
lrange(d, k, start, end) == Slice(ListOf(d, k), start, end)
lindex(d, k, index) ==
  LET l == ListOf(d, k)
      i == IF index < 0 THEN Len(l) + index ELSE index
  IN  IF i >= 0 /\ i < Len(l) THEN l[i + 1] ELSE EmptyString
-----------------------------------------------------------------------------
(* Sets and hashes. *)

SetOf(d, k) == IF Holds(d, k, "Set") THEN d[k].set_val ELSE {}

srem(d, k, M) ==
  IF Holds(d, k, "Set") THEN Put(d, k, [d[k] EXCEPT !.set_val = @ \ M]) ELSE d
SRemoved(d, k, M) == Cardinality(M \cap SetOf(d, k))

sismember(d, k, m) == m \in SetOf(d, k)
scard(d, k) == Cardinality(SetOf(d, k))
smembers(d, k) == SetOf(d, k)

\* Bug: a missing key is skipped, as in sdiff.
sinter_Skips(d, ks) ==
  FoldLeft(LAMBDA acc, k : IF Holds(d, k, "Set") THEN acc \cap d[k].set_val ELSE acc,
           SetOf(d, ks[1]), Tail(ks))

\* ks is a non-empty sequence of keys; the code folds from the left and stops
\* with nothing at the first key that is missing or not a set.
sinter(d, ks) ==
  IF \E i \in DOMAIN ks : ~Holds(d, ks[i], "Set") THEN {}
  ELSE FoldLeft(LAMBDA acc, k : acc \cap d[k].set_val, SetOf(d, ks[1]), Tail(ks))
sunion(d, ks) == FoldLeft(LAMBDA acc, k : acc \cup SetOf(d, k), {}, ks)
sdiff(d, ks) == FoldLeft(LAMBDA acc, k : acc \ SetOf(d, k), SetOf(d, ks[1]), Tail(ks))

HashOf(d, k) == IF Holds(d, k, "Hash") THEN d[k].hash_val ELSE EmptyMap

hset(d, k, f, s) ==
  Put(d, k, [Entry(d, k) EXCEPT !.type = "Hash", !.hash_val = Put(@, f, s)])
hdel(d, k, F) ==
  IF Holds(d, k, "Hash") THEN Put(d, k, [d[k] EXCEPT !.hash_val = Erase(@, F)]) ELSE d
HDeleted(d, k, F) == F \cap DOMAIN HashOf(d, k) # {}
hget(d, k, f) == LET h == HashOf(d, k) IN IF f \in DOMAIN h THEN h[f] ELSE EmptyString
hlen(d, k) == Cardinality(DOMAIN HashOf(d, k))
hkeys(d, k) == DOMAIN HashOf(d, k)
\* A bag: one copy of a value for every field that holds it.
hvals(d, k) ==
  LET h == HashOf(d, k)
  IN  [s \in {h[f] : f \in DOMAIN h} |-> Cardinality({f \in DOMAIN h : h[f] = s})]
hgetall(d, k) == HashOf(d, k)

-----------------------------------------------------------------------------
(* Sorted sets: zset_score_to_member is a multimap, a sequence of <<score,  *)
(* member>> ordered by score in which equal keys keep their insertion order. *)

MultimapInsert(z, s, m) ==
  InsertAt(z, Cardinality({i \in DOMAIN z : z[i][1] <= s}) + 1, <<s, m>>)

\* Erases the first entry of equal_range(s) whose member is m.
MultimapErase(z, s, m) == RemoveFirst(z, <<s, m>>)

\* Bug: the old score of a member stays in the multimap.
ZAddOne_KeepsOld(v, s, m) ==
  [v EXCEPT !.zset_member_to_score = Put(@, m, s),
            !.zset_score_to_member = MultimapInsert(@, s, m)]

ZAddOne(v, s, m) ==
  LET old == v.zset_member_to_score
      z == v.zset_score_to_member
  IN  [v EXCEPT !.zset_member_to_score = Put(old, m, s),
                !.zset_score_to_member =
                   MultimapInsert(IF m \in DOMAIN old THEN MultimapErase(z, old[m], m)
                                                      ELSE z, s, m)]

ZRemOne(v, m) ==
  LET old == v.zset_member_to_score
  IN  IF m \notin DOMAIN old THEN v
      ELSE [v EXCEPT !.zset_member_to_score = Erase(old, {m}),
                     !.zset_score_to_member = MultimapErase(@, old[m], m)]

\* ps is a non-empty sequence of <<score, member>>, ms one of members.
zadd(d, k, ps) ==
  Put(d, k, FoldLeft(LAMBDA v, p : ZAddOne(v, p[1], p[2]),
                     [Entry(d, k) EXCEPT !.type = "ZSet"], ps))
zrem(d, k, ms) ==
  IF Holds(d, k, "ZSet") THEN Put(d, k, FoldLeft(ZRemOne, d[k], ms)) ELSE d

ZScores(d, k) ==
  IF Holds(d, k, "ZSet") THEN d[k].zset_member_to_score ELSE EmptyMap
ZMembers(d, k) ==
  IF Holds(d, k, "ZSet")
  THEN [i \in DOMAIN d[k].zset_score_to_member |-> d[k].zset_score_to_member[i][2]]
  ELSE <<>>

ZRemoved(d, k, ms) == \E i \in DOMAIN ms : ms[i] \in DOMAIN ZScores(d, k)
zcard(d, k) == Cardinality(DOMAIN ZScores(d, k))
zrange(d, k, start, end) == Slice(ZMembers(d, k), start, end)
\* Bug: reverses the range instead of taking the range of the reverse.
zrevrange_Late(d, k, start, end) == Reverse(Slice(ZMembers(d, k), start, end))

zrevrange(d, k, start, end) == Slice(Reverse(ZMembers(d, k)), start, end)
zscore(d, k, m) == LET z == ZScores(d, k) IN IF m \in DOMAIN z THEN z[m] ELSE 0

\* Bug: ranks count from 1.
zrank_FromOne(d, k, m) ==
  IF m \notin DOMAIN ZScores(d, k) THEN -1
  ELSE Cardinality({i \in DOMAIN d[k].zset_score_to_member :
                      d[k].zset_score_to_member[i][1] <= zscore(d, k, m)})

\* Counts along the multimap until it meets <<score, m>>.
zrank(d, k, m) ==
  IF m \notin DOMAIN ZScores(d, k) THEN -1
  ELSE LET z == d[k].zset_score_to_member
           s == zscore(d, k, m)
           stop == SelectInSeq(z, LAMBDA e : e = <<s, m>>)
           seen == IF stop = 0 THEN DOMAIN z ELSE 1 .. stop - 1
       IN  Cardinality({i \in seen : \/ z[i][1] < s
                                     \/ z[i][1] = s /\ z[i][2] < m})
=============================================================================

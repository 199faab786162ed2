------------------------------ MODULE Commands ------------------------------
(***************************************************************************)
(* The data commands of CommandProcessor (commands.cpp) as one connection  *)
(* sees them when no other connection is active: each handler runs to its  *)
(* end on the keyspace at one instant of the clock.  Module Sessions       *)
(* interleaves the Database calls of several connections.                  *)
(*                                                                         *)
(* A handler that refuses its arguments (arity, argument kind, a number    *)
(* that does not parse) answers -ERR and changes nothing: a stutter here.  *)
(* The exception is HSET, which can refuse half-way (MalformedHset).       *)
(***************************************************************************)
EXTENDS Database

CONSTANTS Family,      \* families of commands the client sends
          Clock,       \* instants (ms) the system clock may show
          Seconds,     \* arguments of EXPIRE
          Millis,      \* arguments of PEXPIRE
          Index,       \* arguments of the range commands
          MaxMods,     \* bound on mod_count
          MaxArgs      \* bound on the variadic arguments of a command

ASSUME ClockAssumption ==
  /\ Clock \subseteq Nat \ {0} /\ Clock # {}
  /\ Seconds \subseteq Int /\ Millis \subseteq Int /\ Index \subseteq Int
  /\ MaxMods \in Nat /\ MaxArgs \in Nat

VARIABLES data,   \* Database::data
          now,    \* the system clock
          last    \* the last command and its reply
vars == <<data, now, last>>

\* RESP replies.
Status(s) == <<"status", s>>
OK == Status("OK")
Int64(n) == <<"int", n>>
Bulk(s) == <<"bulk", s>>
Array(x) == <<"array", x>>
Nil == <<"nil">>
Err == <<"err">>
Bool01(b) == Int64(IF b THEN 1 ELSE 0)
NilIfEmpty(s) == IF s = EmptyString THEN Nil ELSE Bulk(s)

Args(S) == BoundedSeq(S, MaxArgs) \ {<<>>}

\* No entry has reached the bound on mod_count.
Fits(d) == \A k \in DOMAIN d : d[k].mod_count <= MaxMods

\* The handler of cmd on k leaves the keyspace d and answers r.
Answer(cmd, k, d, r) ==
  /\ Fits(d)
  /\ data' = d
  /\ last' = [cmd |-> cmd, key |-> k, reply |-> r]
  /\ UNCHANGED now

\* db.increment_mod_count(key) when the condition of the handler holds.
CountIf(c, d, k) == IF c THEN increment_mod_count(d, k) ELSE d

-----------------------------------------------------------------------------
(* Strings and keys *)

handle_set(k, s) == Answer("SET", k, increment_mod_count(set(data, k, s), k), OK)

handle_get(k) ==
  Answer("GET", k, Reap(data, k, now),
         IF exists(data, k, now) /\ type(data, k, now) = "String"
         THEN Bulk(get(data, k, now)) ELSE Nil)

handle_del(k) ==
  LET d == CountIf(exists(data, k, now), Reap(data, k, now), k)
  IN  Answer("DEL", k, del(d, k), Bool01(k \in DOMAIN d))

handle_exists(k) ==
  Answer("EXISTS", k, Reap(data, k, now), Bool01(exists(data, k, now)))

handle_type(k) ==
  Answer("TYPE", k, Reap(data, k, now),
         IF exists(data, k, now) THEN Status(type(data, k, now)) ELSE Status("none"))

handle_keys(k) == Answer("KEYS", k, data, Array(DOMAIN data))

StringCommand ==
  \E k \in Key :
     \/ \E s \in String : handle_set(k, s)
     \/ handle_get(k) \/ handle_del(k) \/ handle_exists(k)
     \/ handle_type(k) \/ handle_keys(k)

-----------------------------------------------------------------------------
(* Expiry *)

handle_expire(k, s) ==
  LET live == exists(data, k, now)
  IN  Answer("EXPIRE", k, CountIf(live, expire(data, k, now, s), k), Bool01(live))
handle_pexpire(k, ms) ==
  LET live == exists(data, k, now)
  IN  Answer("PEXPIRE", k, CountIf(live, pexpire(data, k, now, ms), k), Bool01(live))
handle_persist(k) ==
  LET live == exists(data, k, now)
  IN  Answer("PERSIST", k, CountIf(live, persist(data, k, now), k), Bool01(live))
handle_ttl(k) == Answer("TTL", k, Reap(data, k, now), Int64(ttl(data, k, now)))
handle_pttl(k) == Answer("PTTL", k, Reap(data, k, now), Int64(pttl(data, k, now)))

ExpiryCommand ==
  \E k \in Key :
     \/ \E s \in Seconds : handle_expire(k, s)
     \/ \E ms \in Millis : handle_pexpire(k, ms)
     \/ handle_persist(k) \/ handle_ttl(k) \/ handle_pttl(k)

\* The system clock moves on.
Tick == \E t \in Clock : t > now /\ now' = t /\ UNCHANGED <<data, last>>
-----------------------------------------------------------------------------
(* Lists *)

\* Bugs: a handler that forgets increment_mod_count.
AnswerPop_Uncounted(cmd, k, d, s) ==
  IF s = EmptyString /\ ~exists(d, k, now)
  THEN Answer(cmd, k, Reap(d, k, now), Nil) ELSE Answer(cmd, k, d, Bulk(s))
handle_srem_Uncounted(k, M) ==
  Answer("SREM", k, srem(data, k, M), Int64(SRemoved(data, k, M)))

handle_lpush(k, vs) ==
  LET d == lpush(data, k, vs)
  IN  Answer("LPUSH", k, increment_mod_count(d, k), Int64(Len(d[k].list_val)))
handle_rpush(k, vs) ==
  LET d == rpush(data, k, vs)
  IN  Answer("RPUSH", k, increment_mod_count(d, k), Int64(Len(d[k].list_val)))

\* d is the keyspace after lpop or rpop took s out of it.
AnswerPop(cmd, k, d, s) ==
  IF s = EmptyString /\ ~exists(d, k, now)
  THEN Answer(cmd, k, Reap(d, k, now), Nil)
  ELSE Answer(cmd, k, increment_mod_count(d, k), Bulk(s))
handle_lpop(k) == AnswerPop("LPOP", k, lpop(data, k), LPopped(data, k))
handle_rpop(k) == AnswerPop("RPOP", k, rpop(data, k), RPopped(data, k))

handle_llen(k) ==
  Answer("LLEN", k, ReapIf(data, k, "List", now), Int64(llen(data, k, now)))
handle_lrange(k, i, j) == Answer("LRANGE", k, data, Array(lrange(data, k, i, j)))

\* The empty answer makes LINDEX, HGET and ZSCORE ask exists, which reaps.
handle_lindex(k, i) ==
  LET s == lindex(data, k, i)
  IN  Answer("LINDEX", k, IF s = EmptyString THEN Reap(data, k, now) ELSE data,
             NilIfEmpty(s))

ListCommand ==
  \E k \in Key :
     \/ \E vs \in Args(String) : handle_lpush(k, vs) \/ handle_rpush(k, vs)
     \/ handle_lpop(k) \/ handle_rpop(k) \/ handle_llen(k)
     \/ \E i, j \in Index : handle_lrange(k, i, j)
     \/ \E i \in Index : handle_lindex(k, i)

-----------------------------------------------------------------------------
(* Sets *)

handle_sadd(k, M) ==
  LET n == SAdded(data, k, M)
  IN  Answer("SADD", k, CountIf(n > 0, sadd(data, k, M), k), Int64(n))
handle_srem(k, M) ==
  LET n == SRemoved(data, k, M)
  IN  Answer("SREM", k, CountIf(n > 0, srem(data, k, M), k), Int64(n))
handle_sismember(k, m) == Answer("SISMEMBER", k, data, Bool01(sismember(data, k, m)))
handle_scard(k) == Answer("SCARD", k, data, Int64(scard(data, k)))
handle_smembers(k) == Answer("SMEMBERS", k, data, Array(smembers(data, k)))
handle_sinter(ks) == Answer("SINTER", ks[1], data, Array(sinter(data, ks)))
handle_sunion(ks) == Answer("SUNION", ks[1], data, Array(sunion(data, ks)))
handle_sdiff(ks) == Answer("SDIFF", ks[1], data, Array(sdiff(data, ks)))

SetCommand ==
  \/ \E k \in Key :
        \/ \E M \in SUBSET String \ {{}} : handle_sadd(k, M) \/ handle_srem(k, M)
        \/ \E m \in String : handle_sismember(k, m)
        \/ handle_scard(k) \/ handle_smembers(k)
  \/ \E ks \in Args(Key) : handle_sinter(ks) \/ handle_sunion(ks) \/ handle_sdiff(ks)

-----------------------------------------------------------------------------
(* Hashes.  ps is a sequence of <<field, value>>. *)

HsetAll(d, k, ps) == FoldLeft(LAMBDA e, p : hset(e, k, p[1], p[2]), d, ps)

handle_hset(k, ps) ==
  Answer("HSET", k, increment_mod_count(HsetAll(data, k, ps), k), Int64(Len(ps)))

\* The pair after ps is not made of bulk strings: the handler returns from its
\* loop with ps stored and the counter not incremented.
MalformedHset(k, ps) == Answer("HSET", k, HsetAll(data, k, ps), Err)

\* hdel answers a bool, which the reply turns into 0 or 1.
handle_hdel(k, F) ==
  LET deleted == HDeleted(data, k, F)
  IN  Answer("HDEL", k, CountIf(deleted, hdel(data, k, F), k), Bool01(deleted))

handle_hget(k, f) ==
  LET s == hget(data, k, f)
  IN  Answer("HGET", k, IF s = EmptyString THEN Reap(data, k, now) ELSE data,
             NilIfEmpty(s))
handle_hlen(k) == Answer("HLEN", k, data, Int64(hlen(data, k)))
handle_hkeys(k) == Answer("HKEYS", k, data, Array(hkeys(data, k)))
handle_hvals(k) == Answer("HVALS", k, data, Array(hvals(data, k)))
handle_hgetall(k) == Answer("HGETALL", k, data, Array(hgetall(data, k)))

HashCommand ==
  \E k \in Key :
     \/ \E ps \in Args(String \X String) : handle_hset(k, ps)
     \/ \E F \in SUBSET String \ {{}} : handle_hdel(k, F)
     \/ \E f \in String : handle_hget(k, f)
     \/ handle_hlen(k) \/ handle_hkeys(k) \/ handle_hvals(k) \/ handle_hgetall(k)

PartialCommand ==
  \E k \in Key : \E ps \in Args(String \X String) : MalformedHset(k, ps)

-----------------------------------------------------------------------------
(* Sorted sets *)

\* zadd answers true for every non-empty list of pairs.  Scores are numbers: the
\* infinities stod also takes compare as the largest and smallest of them, its
\* "nan", which compares with nothing, is left out.
handle_zadd(k, ps) ==
  Answer("ZADD", k, increment_mod_count(zadd(data, k, ps), k), Int64(1))
handle_zrem(k, ms) ==
  LET removed == ZRemoved(data, k, ms)
  IN  Answer("ZREM", k, CountIf(removed, zrem(data, k, ms), k), Bool01(removed))
handle_zcard(k) == Answer("ZCARD", k, data, Int64(zcard(data, k)))
handle_zrange(k, i, j) == Answer("ZRANGE", k, data, Array(zrange(data, k, i, j)))
handle_zrevrange(k, i, j) ==
  Answer("ZREVRANGE", k, data, Array(zrevrange(data, k, i, j)))
handle_zscore(k, m) ==
  LET s == zscore(data, k, m)
      d == IF s = 0 THEN Reap(data, k, now) ELSE data
  IN  Answer("ZSCORE", k, d, IF s = 0 /\ zcard(d, k) = 0 THEN Nil ELSE Bulk(s))
handle_zrank(k, m) ==
  LET r == zrank(data, k, m)
  IN  Answer("ZRANK", k, data, IF r < 0 THEN Nil ELSE Int64(r))

ZSetCommand ==
  \E k \in Key :
     \/ \E ps \in Args(Score \X String) : handle_zadd(k, ps)
     \/ \E ms \in Args(String) : handle_zrem(k, ms)
     \/ \E i, j \in Index : handle_zrange(k, i, j) \/ handle_zrevrange(k, i, j)
     \/ \E m \in String : handle_zscore(k, m) \/ handle_zrank(k, m)
     \/ handle_zcard(k)

-----------------------------------------------------------------------------
(* EVAL: redis.call reaches the Database directly and knows GET and SET. *)

redis_pcall_get(k) ==
  Answer("EVAL", k, ReapIf(data, k, "String", now), NilIfEmpty(get(data, k, now)))
redis_pcall_set(k, s) == Answer("EVAL", k, set(data, k, s), OK)

ScriptCommand ==
  \E k \in Key : redis_pcall_get(k) \/ \E s \in String : redis_pcall_set(k, s)

-----------------------------------------------------------------------------
Init ==
  /\ data = EmptyMap
  /\ now = CHOOSE t \in Clock : \A u \in Clock : t <= u
  /\ last = [cmd |-> "none", key |-> CHOOSE k \in Key : TRUE, reply |-> Nil]

Next ==
  \/ "String" \in Family /\ StringCommand
  \/ "Expiry" \in Family /\ (ExpiryCommand \/ Tick)
  \/ "List" \in Family /\ ListCommand
  \/ "Set" \in Family /\ SetCommand
  \/ "Hash" \in Family /\ HashCommand
  \/ "Partial" \in Family /\ PartialCommand
  \/ "ZSet" \in Family /\ ZSetCommand
  \/ "Script" \in Family /\ ScriptCommand

Spec == Init /\ [][Next]_vars
-----------------------------------------------------------------------------
(* Properties *)

\* Type correctness: data is a map of well-formed RedisValue objects.
TypeOK ==
  /\ IsKeyspace(data)
  /\ now \in Clock
  /\ DOMAIN last = {"cmd", "key", "reply"} /\ last.key \in Key

\* The two indexes of a sorted set describe the same set of (score, member)
\* pairs: the multimap is ordered by score and holds every member once, with
\* the score the hash map has for it.  zadd and zrem maintain both by hand
\* (db.cpp 425-480), also while the key changes type and back.
IndexesAgree(v) ==
  LET z == v.zset_score_to_member
      m == v.zset_member_to_score
  IN  /\ \A i, j \in DOMAIN z : i < j => z[i][1] <= z[j][1] /\ z[i][2] # z[j][2]
      /\ \A i \in DOMAIN z : z[i][2] \in DOMAIN m /\ m[z[i][2]] = z[i][1]
      /\ Len(z) = Cardinality(DOMAIN m)
ZSetIndexesAgree == \A k \in DOMAIN data : IndexesAgree(data[k])

\* What a client can read of an entry.
Payload(v) ==
  CASE v.type = "String" -> v.str_val
    [] v.type = "List"   -> v.list_val
    [] v.type = "Set"    -> v.set_val
    [] v.type = "Hash"   -> v.hash_val
    [] v.type = "ZSet"   -> v.zset_score_to_member
Visible(v) == <<v.type, v.expiry_time, Payload(v)>>

Changed(k) == k \in DOMAIN data \cap DOMAIN data' /\ Visible(data'[k]) # Visible(data[k])
Counted(k) == data'[k].mod_count > data[k].mod_count

\* A command that is no script, whose reply acknowledges a change (no error, no
\* zero, no nil) and that changed what can be read of a key raises the key's
\* mod_count, the counter WATCH relies on; no command at all lowers it while the
\* key stays.  (The SET of a script is never counted, lua_scripting.cpp 79-84;
\* an HSET refused half-way has stored fields and answers an error.)
AcknowledgedChangeCounted ==
  [][\A k \in DOMAIN data \cap DOMAIN data' :
        /\ data'[k].mod_count >= data[k].mod_count
        /\ Changed(k) /\ last'.cmd # "EVAL" /\ last'.reply \notin {Err, Int64(0), Nil}
           => Counted(k)]_vars

\* A key leaves the keyspace only by a DEL of it or because its own time is over:
\* no reader's lazy removal takes a key that has no expiry or one still to come,
\* and neither does emptying a list or a hash (the nine
\* calls of erase in db.cpp 27-129 and 197, redis_value.h 47-52).
RemovedInTime ==
  [][\A k \in DOMAIN data \ DOMAIN data' :
        \/ last'.cmd = "DEL" /\ last'.key = k
        \/ data[k].expiry_time # 0 /\ data[k].expiry_time <= now]_vars

\* A non-negative index and the negative one that counts to the same element
\* from the end select the same range, ZREVRANGE reads ZRANGE backwards, and a
\* range can be cut in two at any element (the clamping of db.cpp 205-239 and
\* 490-536).
RangesAgree ==
  \A k \in DOMAIN data :
     LET l == ListOf(data, k)
         z == ZMembers(data, k)
         n == Len(l)
     IN  /\ \A i, j \in 0 .. n - 1 :
               /\ lrange(data, k, i, j) = lrange(data, k, i - n, j - n)
               /\ lindex(data, k, i) = lindex(data, k, i - n)
               /\ i <= j => lrange(data, k, i, j) \o lrange(data, k, j + 1, -1)
                            = lrange(data, k, i, -1)
         /\ \A i, j \in Index :
               zrevrange(data, k, i, j) = Reverse(zrange(data, k, -1 - j, -1 - i))

\* SINTER and SDIFF split the first set between them whatever the second key
\* holds, a missing key or another type included, and SUNION has the size
\* inclusion and exclusion give (the folds of db.cpp 287-353 treat such a key
\* in three different ways).
SetAlgebra ==
  \A a, b \in Key :
     LET inter == sinter(data, <<a, b>>)
         diff == sdiff(data, <<a, b>>)
     IN  /\ inter \cap diff = {} /\ inter \cup diff = smembers(data, a)
         /\ Cardinality(sunion(data, <<a, b>>)) + Cardinality(inter)
              = scard(data, a) + scard(data, b)

\* Where no two members share a score, ZRANK answers the position of the member
\* in ZRANGE: both walk the multimap (db.cpp 490-512, 549-570).
RankIsPosition ==
  \A k \in DOMAIN data :
     LET z == ZScores(data, k)
     IN  (\A a, b \in DOMAIN z : z[a] = z[b] => a = b)
         => \A m \in DOMAIN z : LET r == zrank(data, k, m) IN zrange(data, k, r, r) = <<m>>
=============================================================================

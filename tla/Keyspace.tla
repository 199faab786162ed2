------------------------------ MODULE Keyspace ------------------------------
(***************************************************************************)
(* The keyspace of db.cpp / redis_value.h as operators on a value d, a     *)
(* partial function from keys to RedisValue records: values, expiry, the   *)
(* modification counter, and the writers whose handlers module Sessions    *)
(* interleaves.  Module Database has the other methods.                     *)
(*                                                                         *)
(* A method that modifies the map is an operator whose value is the new    *)
(* map; a method that only answers is one whose value is the answer; a     *)
(* method that does both is an operator for the new map and, where the     *)
(* answer is used, a second one for it.  t is the clock the method reads.  *)
(*                                                                         *)
(* Strings (values, members, fields) are naturals: 0 is the empty string   *)
(* and < is the lexicographic order std::string uses.                      *)
(***************************************************************************)
EXTENDS Integers, Sequences, FiniteSets

CONSTANTS Key,      \* keys of the map
          String,   \* values, list elements, members, fields
          Score     \* scores of sorted sets

ASSUME StringAssumption == String \subseteq Nat /\ 0 \in String
ASSUME ScoreAssumption == Score \subseteq Int

EmptyString == 0
RedisType == {"String", "List", "Set", "Hash", "ZSet"}

\* Functions from a subset of S into T: unordered_map<S, T>.
Map(S, T) == UNION {[X -> T] : X \in SUBSET S}

RedisValue ==
  [type : RedisType, expiry_time : Int, mod_count : Nat,
   str_val : String, list_val : Seq(String), set_val : SUBSET String,
   hash_val : Map(String, String),
   zset_score_to_member : Seq(Score \X String),
   zset_member_to_score : Map(String, Score)]

\* d is an unordered_map<Key, RedisValue>.
IsKeyspace(d) ==
  /\ d = [k \in DOMAIN d |-> d[k]] /\ DOMAIN d \subseteq Key
  /\ \A k \in DOMAIN d : d[k] \in RedisValue

Put(f, x, v) == [y \in DOMAIN f \cup {x} |-> IF y = x THEN v ELSE f[y]]
Erase(f, X) == [y \in DOMAIN f \ X |-> f[y]]

EmptyMap == [x \in {} |-> 0]

\* RedisValue(RedisType::String), the value operator[] creates.
NewValue ==
  [type |-> "String", expiry_time |-> 0, mod_count |-> 0,
   str_val |-> EmptyString, list_val |-> <<>>, set_val |-> {},
   hash_val |-> EmptyMap, zset_score_to_member |-> <<>>,
   zset_member_to_score |-> EmptyMap]

\* data[key]
Entry(d, k) == IF k \in DOMAIN d THEN d[k] ELSE NewValue

\* it != data.end() && it->second.type == ty
Holds(d, k, ty) == k \in DOMAIN d /\ d[k].type = ty

-----------------------------------------------------------------------------
(* Expiry (milliseconds, 0 means none) and lazy deletion. *)

\* Bug: an entry without an expiry counts as one whose time is over.
is_expired_Always(v, t) == t >= v.expiry_time

is_expired(v, t) == v.expiry_time # 0 /\ t >= v.expiry_time

\* "found but expired: erase it", the prologue of exists, type, expire,
\* pexpire, ttl, pttl and persist.
Reap(d, k, t) ==
  IF k \in DOMAIN d /\ is_expired(d[k], t) THEN Erase(d, {k}) ELSE d

\* The answer of exists, type, expire, pexpire and persist: found and live.
exists(d, k, t) == k \in DOMAIN d /\ ~is_expired(d[k], t)

type(d, k, t) == IF exists(d, k, t) THEN d[k].type ELSE "String"

\* get and llen look at the type first and reap only an entry of their type.
ReapIf(d, k, ty, t) == IF Holds(d, k, ty) THEN Reap(d, k, t) ELSE d

get(d, k, t) ==
  IF Holds(d, k, "String") /\ exists(d, k, t) THEN d[k].str_val ELSE EmptyString

SetExpiry(d, k, t, at) ==
  IF exists(d, k, t) THEN Put(d, k, [d[k] EXCEPT !.expiry_time = at])
                     ELSE Reap(d, k, t)
expire(d, k, t, seconds) == SetExpiry(d, k, t, t + seconds * 1000)
pexpire(d, k, t, ms) == SetExpiry(d, k, t, t + ms)

persist(d, k, t) == SetExpiry(d, k, t, 0)

pttl(d, k, t) ==
  IF ~exists(d, k, t) THEN -2
  ELSE IF d[k].expiry_time = 0 THEN -1
  ELSE d[k].expiry_time - t
ttl(d, k, t) == LET ms == pttl(d, k, t) IN IF ms < 0 THEN ms ELSE ms \div 1000

-----------------------------------------------------------------------------
(* Strings and modification counters. *)

set(d, k, s) == Put(d, k, [Entry(d, k) EXCEPT !.type = "String", !.str_val = s])

del(d, k) == Erase(d, {k})

get_mod_count(d, k) == IF k \in DOMAIN d THEN d[k].mod_count ELSE 0

\* Bug: the counter goes down.
increment_mod_count_Down(d, k) ==
  Put(d, k, [Entry(d, k) EXCEPT !.mod_count = @ - 1])

\* Creates an empty string when the key is not there.
increment_mod_count(d, k) ==
  IF k \in DOMAIN d THEN Put(d, k, [d[k] EXCEPT !.mod_count = @ + 1])
                    ELSE Put(d, k, [NewValue EXCEPT !.mod_count = 1])

-----------------------------------------------------------------------------
(* Lists.  vs is the sequence of arguments of the command. *)

\* The arguments in the order in which pushing them one by one leaves them.
Reversed(vs) == [i \in 1 .. Len(vs) |-> vs[Len(vs) + 1 - i]]

lpush(d, k, vs) ==
  Put(d, k, [Entry(d, k) EXCEPT !.type = "List", !.list_val = Reversed(vs) \o @])
rpush(d, k, vs) ==
  Put(d, k, [Entry(d, k) EXCEPT !.type = "List", !.list_val = @ \o vs])

CanPop(d, k) == Holds(d, k, "List") /\ d[k].list_val # <<>>

lpop(d, k) ==
  IF CanPop(d, k) THEN Put(d, k, [d[k] EXCEPT !.list_val = Tail(@)]) ELSE d
LPopped(d, k) == IF CanPop(d, k) THEN Head(d[k].list_val) ELSE EmptyString

-----------------------------------------------------------------------------
(* Sets. *)

sadd(d, k, M) ==
  Put(d, k, [Entry(d, k) EXCEPT !.type = "Set", !.set_val = @ \cup M])
\* sadd counts against set_val whatever the type was before.
SAdded(d, k, M) == Cardinality(M \ Entry(d, k).set_val)
=============================================================================

--------------------------- MODULE KeyspaceProofs ---------------------------
(***************************************************************************)
(* Lemmas about the operators of Keyspace: each method maps keyspaces to    *)
(* keyspaces, and what it does to the modification counter of a key.        *)
(***************************************************************************)
EXTENDS Keyspace, TLAPS

\* The value operator[] creates is a RedisValue (redis_value.h 26-44).
LEMMA NewValueType == NewValue \in RedisValue
  <1>1. EmptyMap \in Map(String, String) /\ EmptyMap \in Map(String, Score)
    <2>1. EmptyMap \in [{} -> String] /\ EmptyMap \in [{} -> Score]
      BY DEF EmptyMap
    <2> QED
      BY <2>1, Zenon DEF Map
  <1> QED
    BY <1>1, StringAssumption DEF NewValue, RedisValue, RedisType, EmptyString

\* data[key] is a RedisValue, present or created.
LEMMA EntryType ==
  ASSUME NEW d, IsKeyspace(d), NEW k \in Key
  PROVE  Entry(d, k) \in RedisValue
  BY NewValueType DEF Entry, IsKeyspace

\* Storing a RedisValue under a key keeps the map a keyspace.
LEMMA PutType ==
  ASSUME NEW d, IsKeyspace(d), NEW k \in Key, NEW v \in RedisValue
  PROVE  IsKeyspace(Put(d, k, v))
  <1> DEFINE e == Put(d, k, v)
  <1>1. /\ DOMAIN e = DOMAIN d \cup {k}
        /\ \A x \in DOMAIN e : e[x] = IF x = k THEN v ELSE d[x]
        /\ e = [x \in DOMAIN e |-> e[x]]
    BY DEF Put
  <1> QED
    BY <1>1 DEF IsKeyspace

\* Erasing keys keeps the map a keyspace.
LEMMA EraseType ==
  ASSUME NEW d, IsKeyspace(d), NEW X
  PROVE  IsKeyspace(Erase(d, X))
  <1> DEFINE e == Erase(d, X)
  <1>1. /\ DOMAIN e = DOMAIN d \ X
        /\ \A x \in DOMAIN e : e[x] = d[x]
        /\ e = [x \in DOMAIN e |-> e[x]]
    BY DEF Erase
  <1> QED
    BY <1>1 DEF IsKeyspace

\* The lazy deletion of an expired entry keeps the map a keyspace.
LEMMA ReapType ==
  ASSUME NEW d, IsKeyspace(d), NEW k, NEW t
  PROVE  IsKeyspace(Reap(d, k, t))
  BY EraseType DEF Reap

\* Database::set keeps the map a keyspace (db.cpp 17-22).
LEMMA SetType ==
  ASSUME NEW d, IsKeyspace(d), NEW k \in Key, NEW s \in String
  PROVE  IsKeyspace(set(d, k, s))
  <1>1. [Entry(d, k) EXCEPT !.type = "String", !.str_val = s] \in RedisValue
    BY EntryType, Zenon DEF RedisValue, RedisType
  <1> QED
    BY <1>1, PutType DEF set

\* Database::lpush keeps the map a keyspace (db.cpp 159-164).
LEMMA LpushType ==
  ASSUME NEW d, IsKeyspace(d), NEW k \in Key, NEW s \in String
  PROVE  IsKeyspace(lpush(d, k, <<s>>))
  <1> DEFINE l == Entry(d, k).list_val
  <1>1. l \in Seq(String)
    BY EntryType DEF RedisValue
  <1>2. Reversed(<<s>>) \o l \in Seq(String)
    <2>1. Reversed(<<s>>) \in Seq(String)
      BY DEF Reversed
    <2> QED
      BY <1>1, <2>1
  <1>3. [Entry(d, k) EXCEPT !.type = "List", !.list_val = Reversed(<<s>>) \o @] \in RedisValue
    BY <1>2, EntryType, Zenon DEF RedisValue, RedisType
  <1> QED
    BY <1>3, PutType DEF lpush

\* Database::lpop keeps the map a keyspace (db.cpp 173-181).
LEMMA LpopType ==
  ASSUME NEW d, IsKeyspace(d), NEW k \in Key
  PROVE  IsKeyspace(lpop(d, k))
  <1>1. CASE CanPop(d, k)
    <2>1. d[k] \in RedisValue /\ d[k].list_val \in Seq(String) /\ d[k].list_val # <<>>
      BY <1>1 DEF CanPop, Holds, IsKeyspace, RedisValue
    <2>2. Tail(d[k].list_val) \in Seq(String)
      BY <2>1
    <2>3. [d[k] EXCEPT !.list_val = Tail(@)] \in RedisValue
      BY <2>1, <2>2, Zenon DEF RedisValue
    <2> QED
      BY <1>1, <2>3, PutType DEF lpop
  <1>2. CASE ~CanPop(d, k)
    BY <1>2 DEF lpop
  <1> QED
    BY <1>1, <1>2

\* Database::sadd keeps the map a keyspace (db.cpp 242-248).
LEMMA SaddType ==
  ASSUME NEW d, IsKeyspace(d), NEW k \in Key, NEW s \in String
  PROVE  IsKeyspace(sadd(d, k, {s}))
  <1>1. [Entry(d, k) EXCEPT !.type = "Set", !.set_val = @ \cup {s}] \in RedisValue
    BY EntryType, Zenon DEF RedisValue, RedisType
  <1> QED
    BY <1>1, PutType DEF sadd

\* Database::pexpire keeps the map a keyspace (db.cpp 87-98).
LEMMA PexpireType ==
  ASSUME NEW d, IsKeyspace(d), NEW k \in Key, NEW t \in Nat, NEW s \in String
  PROVE  IsKeyspace(pexpire(d, k, t, s))
  <1>1. CASE exists(d, k, t)
    <2>1. d[k] \in RedisValue /\ t + s \in Int
      BY <1>1, StringAssumption DEF exists, IsKeyspace
    <2>2. [d[k] EXCEPT !.expiry_time = t + s] \in RedisValue
      BY <2>1, Zenon DEF RedisValue
    <2> QED
      BY <1>1, <2>2, PutType DEF pexpire, SetExpiry
  <1>2. CASE ~exists(d, k, t)
    BY <1>2, ReapType DEF pexpire, SetExpiry
  <1> QED
    BY <1>1, <1>2, Zenon

\* Database::increment_mod_count keeps the map a keyspace (db.cpp 146-156).
LEMMA CountType ==
  ASSUME NEW d, IsKeyspace(d), NEW k \in Key
  PROVE  IsKeyspace(increment_mod_count(d, k))
  <1>1. CASE k \in DOMAIN d
    <2>1. d[k] \in RedisValue /\ d[k].mod_count + 1 \in Nat
      BY <1>1 DEF IsKeyspace, RedisValue
    <2>2. [d[k] EXCEPT !.mod_count = @ + 1] \in RedisValue
      BY <2>1, Zenon DEF RedisValue
    <2> QED
      BY <1>1, <2>2, PutType DEF increment_mod_count
  <1>2. CASE k \notin DOMAIN d
    <2>1. [NewValue EXCEPT !.mod_count = 1] \in RedisValue
      BY NewValueType, Zenon DEF RedisValue
    <2> QED
      BY <1>2, <2>1, PutType DEF increment_mod_count
  <1> QED
    BY <1>1, <1>2

-----------------------------------------------------------------------------
\* Replacing the value of a key by one with the same counter changes no counter.
LEMMA PutCount ==
  ASSUME NEW d, NEW k, NEW v, v.mod_count = get_mod_count(d, k), NEW x
  PROVE  get_mod_count(Put(d, k, v), x) = get_mod_count(d, x)
  BY DEF Put, get_mod_count

\* No write but the counter's own changes a counter (db.cpp 17-22, 159-181, 242-248).
LEMMA WriteCount ==
  ASSUME NEW d, IsKeyspace(d), NEW k \in Key, NEW s, NEW x
  PROVE  /\ get_mod_count(set(d, k, s), x) = get_mod_count(d, x)
         /\ get_mod_count(lpush(d, k, <<s>>), x) = get_mod_count(d, x)
         /\ get_mod_count(lpop(d, k), x) = get_mod_count(d, x)
         /\ get_mod_count(sadd(d, k, {s}), x) = get_mod_count(d, x)
  <1>0. Entry(d, k) \in RedisValue /\ Entry(d, k).mod_count = get_mod_count(d, k)
    BY EntryType, Zenon DEF Entry, get_mod_count, NewValue
  <1>1. [Entry(d, k) EXCEPT !.type = "String", !.str_val = s].mod_count = get_mod_count(d, k)
    BY <1>0 DEF RedisValue
  <1>2. [Entry(d, k) EXCEPT !.type = "List", !.list_val = Reversed(<<s>>) \o @].mod_count
           = get_mod_count(d, k)
    BY <1>0 DEF RedisValue
  <1>3. [Entry(d, k) EXCEPT !.type = "Set", !.set_val = @ \cup {s}].mod_count
           = get_mod_count(d, k)
    BY <1>0 DEF RedisValue
  <1>4. CanPop(d, k) =>
          [d[k] EXCEPT !.list_val = Tail(@)].mod_count = get_mod_count(d, k)
    BY DEF CanPop, Holds, IsKeyspace, RedisValue, get_mod_count
  <1>5. \A v : v.mod_count = get_mod_count(d, k)
               => get_mod_count(Put(d, k, v), x) = get_mod_count(d, x)
    BY PutCount
  <1>6. get_mod_count(set(d, k, s), x) = get_mod_count(d, x)
    BY <1>1, <1>5, Zenon DEF set
  <1>7. get_mod_count(lpush(d, k, <<s>>), x) = get_mod_count(d, x)
    BY <1>2, <1>5, Zenon DEF lpush
  <1>8. get_mod_count(lpop(d, k), x) = get_mod_count(d, x)
    BY <1>4, <1>5, Zenon DEF lpop
  <1>9. get_mod_count(sadd(d, k, {s}), x) = get_mod_count(d, x)
    BY <1>3, <1>5, Zenon DEF sadd
  <1> QED
    BY <1>6, <1>7, <1>8, <1>9

\* Setting the expiry of a live key changes no counter and no key's presence
\* but that of an expired key (db.cpp 87-98).
LEMMA PexpireCount ==
  ASSUME NEW d, IsKeyspace(d), NEW k \in Key, NEW t, NEW s, NEW x,
         x \notin DOMAIN d \ DOMAIN pexpire(d, k, t, s)
  PROVE  get_mod_count(pexpire(d, k, t, s), x) = get_mod_count(d, x)
  <1>1. CASE exists(d, k, t)
    <2>1. [d[k] EXCEPT !.expiry_time = t + s].mod_count = get_mod_count(d, k)
      BY <1>1 DEF exists, IsKeyspace, RedisValue, get_mod_count
    <2>2. \A v : v.mod_count = get_mod_count(d, k)
                 => get_mod_count(Put(d, k, v), x) = get_mod_count(d, x)
      BY PutCount
    <2> QED
      BY <1>1, <2>1, <2>2, Zenon DEF pexpire, SetExpiry
  <1>2. CASE ~exists(d, k, t)
    BY <1>2 DEF pexpire, SetExpiry, Reap, Erase, get_mod_count
  <1> QED
    BY <1>1, <1>2, Zenon

\* Erasing keys leaves the counters of the others alone.
LEMMA EraseCount ==
  ASSUME NEW d, NEW X, NEW x, x \notin DOMAIN d \ DOMAIN Erase(d, X)
  PROVE  get_mod_count(Erase(d, X), x) = get_mod_count(d, x)
  BY DEF Erase, get_mod_count

\* The counter of the key goes up by one, the others stay (db.cpp 146-156).
LEMMA CountCount ==
  ASSUME NEW d, IsKeyspace(d), NEW k \in Key, NEW x
  PROVE  get_mod_count(increment_mod_count(d, k), x)
           = get_mod_count(d, x) + (IF x = k THEN 1 ELSE 0)
  <1>0. get_mod_count(d, x) \in Nat
    BY DEF get_mod_count, IsKeyspace, RedisValue
  <1>1. CASE k \in DOMAIN d
    <2>1. d[k] \in RedisValue
      BY <1>1 DEF IsKeyspace
    <2>2. [d[k] EXCEPT !.mod_count = @ + 1].mod_count = d[k].mod_count + 1
      BY <2>1 DEF RedisValue
    <2> QED
      BY <1>0, <1>1, <2>2 DEF increment_mod_count, Put, get_mod_count
  <1>2. CASE k \notin DOMAIN d
    <2>1. [NewValue EXCEPT !.mod_count = 1].mod_count = 1
      BY DEF NewValue
    <2> QED
      BY <1>0, <1>2, <2>1 DEF increment_mod_count, Put, get_mod_count
  <1> QED
    BY <1>1, <1>2
=============================================================================

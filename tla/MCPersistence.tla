---------------------------- MODULE MCPersistence ----------------------------
(* A small instance of Persistence. *)
EXTENDS Persistence, TLC

CONSTANTS daemon, client

\* Both call save_rdb in the same way.
SaverSymmetry == Permutations({daemon, client})

\* 0 is the empty string, 1 and the keys 3 and 4 are one letter, 2 is the
\* shortest text whose length takes the long form.
MCText ==
  [s \in 0 .. 4 |-> CASE s = 0 -> <<>>
                      [] s = 2 -> [i \in 1 .. 64 |-> 98]
                      [] OTHER -> <<96 + s>>]
MCKey == {3, 4}
MCString == {0, 1}
MCScore == {0, 1}

\* A disk that is full in the first record or two, and one that is not.
MCRoom == {13, 22, 1000}

\* Entries of each kind, made by the methods of Database.
MCBegin ==
  {hset(set(EmptyMap, 3, 2), 4, 1, 0),
   set(hset(hset(EmptyMap, 3, 0, 1), 3, 1, 1), 4, 1),
   sadd(rpush(EmptyMap, 3, <<1, 0>>), 4, {0, 1}),
   zadd(lpop(rpush(EmptyMap, 4, <<1>>), 4), 3, <<<<1, 1>>, <<0, 2>>, <<1, 0>>>>)}
=============================================================================

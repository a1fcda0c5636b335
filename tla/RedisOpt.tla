------------------------------ MODULE RedisOpt ------------------------------
(***************************************************************************)
(* CRedisOpt, the Redis commands the servers are written with: what a call *)
(* does to the selected database, which replies it takes for success and   *)
(* what it hands to its caller.                                            *)
(*                                                                         *)
(* A database kv maps every key to an entry.  A call is an operator that   *)
(* takes the database and returns a record: the database afterwards, the   *)
(* call's result (ret), its output (out) and whether it reads a reply that *)
(* it has freed (ub).  Replies that never arrive are left to RedisPool.    *)
(* A string is the decimal text of a number, Dec(n), or some other text,   *)
(* Text(t), without blanks: the calls that join their arguments with       *)
(* blanks would split others.                                              *)
(***************************************************************************)
EXTENDS Integers, Sequences, FiniteSets, SequencesExt

CONSTANT Keys

\* Strings and entries as Redis keeps them.
Dec(n)  == <<"dec", n>>
Text(t) == <<"text", t>>

None == [type |-> "none", val |-> {}, ttl |-> FALSE]

Entry(type, val) == [type |-> type, val |-> val, ttl |-> FALSE]

EmptyDb == [k \in Keys |-> None]

Contents(kv, key, empty) == IF kv[key].type = "none" THEN empty ELSE kv[key].val

\* Replies of the server.
Reply(type, val) == [type |-> type, val |-> val]
Status == Reply("STATUS", "OK")
Nil    == Reply("NIL", {})
Error  == Reply("ERROR", {})

\* The server's answer to a command on a key of one kind: the key's new
\* contents and a reply, or an error where the key holds another kind.  A key
\* without contents is gone; other writes keep its time to live.
Redis(kv, key, type, val, empty, reply) ==
    IF kv[key].type \notin {"none", type} THEN [kv |-> kv, reply |-> Error]
    ELSE [kv |-> [kv EXCEPT ![key] =
                    IF val = empty THEN None
                    ELSE [Entry(type, val) EXCEPT !.ttl = kv[key].ttl]],
          reply |-> reply]

\* What a call makes of the answer: it succeeds on a reply of the given types.
Result(x, types) ==
    [kv |-> x.kv, ret |-> x.reply.type \in types, out |-> x.reply.val, ub |-> FALSE]

\* As Result, but the other branch logs reply_->str after freeing the reply.
ResultThenLog(x, types) ==
    [Result(x, types) EXCEPT !.ub = x.reply.type \notin types]

Refused(kv) == [kv |-> kv, ret |-> FALSE, out |-> {}, ub |-> FALSE]

-----------------------------------------------------------------------------
(* Strings.                                                                 *)

SET(kv, key, value) ==
    [kv |-> [kv EXCEPT ![key] = Entry("string", value)], reply |-> Status]

SetText(kv, key, value) == Result(SET(kv, key, Text(value)), {"STATUS"})

SetInt(kv, key, n) == Result(SET(kv, key, Dec(n)), {"STATUS"})

SetLong(kv, key, n) == Result(SET(kv, key, Dec(n)), {"STATUS"})

GET(kv, key) ==
    IF kv[key].type = "none" THEN Nil
    ELSE IF kv[key].type = "string" THEN Reply("STRING", kv[key].val) ELSE Error

Get(kv, key) == Result([kv |-> kv, reply |-> GET(kv, key)], {"STRING"})

CH_OFFLINE == Dec(0)

\* Keys that hold no string come back as CH_OFFLINE.
MGet(kv, keys) ==
    IF keys = <<>> THEN Refused(kv)
    ELSE Result([kv |-> kv,
                 reply |-> Reply("ARRAY", [i \in DOMAIN keys |->
                    IF kv[keys[i]].type = "string" THEN kv[keys[i]].val
                    ELSE CH_OFFLINE])],
                {"ARRAY"})

\* An INCR of a string that is not a number is an error.
Incr(kv, key) ==
    LET old == Contents(kv, key, Dec(0))
    IN  Result(IF kv[key].type = "string" /\ old[1] # "dec"
               THEN [kv |-> kv, reply |-> Error]
               ELSE Redis(kv, key, "string", Dec(old[2] + 1), <<>>,
                          Reply("INTEGER", old[2] + 1)),
               {"INTEGER"})

-----------------------------------------------------------------------------
(* Lists.                                                                   *)

Items(kv, key) == Contents(kv, key, <<>>)

\* The elements are pushed one after the other.
LPushAll(kv, key, vec) ==
    IF vec = <<>> THEN Refused(kv)
    ELSE Result(Redis(kv, key, "list", Reverse(vec) \o Items(kv, key), <<>>,
                      Reply("INTEGER", Len(vec))), {"INTEGER"})

LPush(kv, key, value) ==
    Result(Redis(kv, key, "list", <<value>> \o Items(kv, key), <<>>,
                 Reply("INTEGER", 1)), {"INTEGER"})

RPush(kv, key, value) ==
    Result(Redis(kv, key, "list", Append(Items(kv, key), value), <<>>,
                 Reply("INTEGER", 1)), {"INTEGER"})

\* Popping an absent list is no error, and the element is not handed out.
LPop(kv, key) ==
    Result(IF kv[key].type = "none" THEN [kv |-> kv, reply |-> Nil]
           ELSE Redis(kv, key, "list", Tail(Items(kv, key)), <<>>,
                      Reply("STRING", {})),
           {"STATUS", "INTEGER", "STRING", "NIL", "ARRAY"})

REDIS_REPLY_INTEGER == 3

\* The length handed out is the reply's type, not its number.
LLen(kv, key) ==
    [Result(Redis(kv, key, "list", Items(kv, key), <<>>,
                  Reply("INTEGER", Len(Items(kv, key)))), {"INTEGER"})
       EXCEPT !.out = REDIS_REPLY_INTEGER]

LRange(kv, key) ==
    ResultThenLog(Redis(kv, key, "list", Items(kv, key), <<>>,
                        Reply("ARRAY", Items(kv, key))), {"ARRAY"})

-----------------------------------------------------------------------------
(* Sets.                                                                    *)

Members(kv, key) == Contents(kv, key, {})

SADD(kv, key, values) ==
    Redis(kv, key, "set", Members(kv, key) \cup values, {},
          Reply("INTEGER", Cardinality(values \ Members(kv, key))))

SAddAll(kv, key, vec) ==
    IF vec = <<>> THEN Refused(kv) ELSE Result(SADD(kv, key, ToSet(vec)), {"INTEGER"})

SAdd(kv, key, value) == Result(SADD(kv, key, {value}), {"INTEGER"})

SAddSet(kv, key, values) ==
    IF values = {} THEN Refused(kv) ELSE Result(SADD(kv, key, values), {"INTEGER"})

SMembers(kv, key) ==
    ResultThenLog(Redis(kv, key, "set", Members(kv, key), {},
                        Reply("ARRAY", Members(kv, key))), {"ARRAY"})

-----------------------------------------------------------------------------
(* Hashes: a hash is the set of its field-value pairs.                      *)

Pairs(kv, key) == Contents(kv, key, {})

Without(pairs, field) == {p \in pairs : p[1] # field}

HSET(kv, key, field, value) ==
    Redis(kv, key, "hash", Without(Pairs(kv, key), field) \cup {<<field, value>>},
          {}, Reply("INTEGER", 1))

\* Takes the reply of SET for the reply of HSET.
Mut_HsetInt(kv, key, field, n) == Result(HSET(kv, key, field, Dec(n)), {"STATUS"})

HsetInt(kv, key, field, n) == Result(HSET(kv, key, field, Dec(n)), {"INTEGER"})

HsetText(kv, key, field, value) ==
    Result(HSET(kv, key, field, Text(value)), {"INTEGER"})

HGET(kv, key, field) ==
    Redis(kv, key, "hash", Pairs(kv, key), {},
          IF \E p \in Pairs(kv, key) : p[1] = field
          THEN Reply("STRING", (CHOOSE p \in Pairs(kv, key) : p[1] = field)[2])
          ELSE Nil)

\* Everything but an error and nil is taken for a value.
Hget(kv, key, field) == Result(HGET(kv, key, field), {"STATUS", "INTEGER", "STRING"})

Hdel(kv, key, field) ==
    Result(Redis(kv, key, "hash", Without(Pairs(kv, key), field), {},
                 Reply("INTEGER", 1)), {"INTEGER"})

Hvals(kv, key) ==
    ResultThenLog(Redis(kv, key, "hash", Pairs(kv, key), {},
                        Reply("ARRAY", {p[2] : p \in Pairs(kv, key)})), {"ARRAY"})

\* As LLen.
HLen(kv, key) ==
    [Result(Redis(kv, key, "hash", Pairs(kv, key), {},
                  Reply("INTEGER", Cardinality(Pairs(kv, key)))), {"INTEGER"})
       EXCEPT !.out = REDIS_REPLY_INTEGER]

-----------------------------------------------------------------------------
(* Keys.                                                                    *)

Del(kv, key) ==
    Result([kv |-> [kv EXCEPT ![key] = None], reply |-> Reply("INTEGER", 1)],
           {"INTEGER"})

\* EXPIRE and EXISTS answer 1 or 0, and 0 is a failure.
OneIfThere(kv, key) == kv[key].type # "none"

Expire(kv, key, sec) ==
    [kv  |-> IF ~OneIfThere(kv, key) THEN kv
             ELSE [kv EXCEPT ![key] = IF sec <= 0 THEN None ELSE [@ EXCEPT !.ttl = TRUE]],
     ret |-> OneIfThere(kv, key), out |-> {}, ub |-> FALSE]

Exists(kv, key) ==
    [kv |-> kv, ret |-> OneIfThere(kv, key), out |-> {}, ub |-> FALSE]

\* SCAN answers with the next cursor and some keys; cursor 0 starts and ends a
\* scan.  Here a batch is one slot of the server's table.
KeySlots == SetToSeq(Keys)

Scan(kv, cursor) ==
    LET key == KeySlots[cursor + 1]
    IN  [kv  |-> kv, ret |-> TRUE, ub |-> FALSE,
         out |-> [keys |-> IF OneIfThere(kv, key) THEN {key} ELSE {},
                  next |-> (cursor + 1) % Len(KeySlots)]]

\* HSCAN is sent without a key, which is an error.
Hscan(kv, cursor) == Result([kv |-> kv, reply |-> Error], {"ARRAY"})
=============================================================================

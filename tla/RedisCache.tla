------------------------------ MODULE RedisCache ------------------------------
(***************************************************************************)
(* CustomCache (cache/cache.go) over the gocache marshaler and a go-redis  *)
(* client (newRedis, cache/redis.go).                                      *)
(*  - Put marshals the value with msgpack and sends SET key bytes with    *)
(*    PX d.  Get sends GET; a nil reply is a miss.  Delete sends DEL.     *)
(*  - newRedis keeps go-redis's defaults: a read deadline on every reply   *)
(*    and MaxRetries 3.  A command whose reply does not come in time is   *)
(*    sent again on a new connection, up to MaxAttempts times, and then   *)
(*    the call returns the timeout error.  The abandoned request may       *)
(*    still reach the server and be executed later.                        *)
(*  - The server executes requests one at a time, in any order across      *)
(*    connections, and may never execute one.  It expires an entry once   *)
(*    its deadline, set when the SET executes, has passed.                 *)
(* Callers share the one client, so their calls interleave.  Time is       *)
(* counted in ticks, the same fraction of a second as in FreeCache.        *)
(* Requests in flight are a set: two abandoned attempts of one call are    *)
(* the same command and count once (a second execution would only move     *)
(* the key's deadline).  The backoff sleep between attempts is not timed.  *)
(***************************************************************************)
EXTENDS Naturals

CONSTANTS
  Callers,       \* goroutines calling the cache
  Keys,
  Wire,          \* msgpack encodings of the values callers Put
  TTLs,          \* durations callers pass, in ticks (all > 0)
  MaxAttempts,   \* MaxRetries + 1
  MaxCalls,      \* bound on the calls made
  MaxTime,       \* last tick explored
  NoEntry, Miss, NoCall, NoReply,
  Nobody         \* the reply-to of a request whose connection was closed

ASSUME TTLs \subseteq Nat \ {0} /\ MaxAttempts \in Nat \ {0} /\ MaxCalls \in Nat

Ops == {"Put", "Get", "Delete"}

\* A command on the wire, and the caller still reading its connection
Request == [to : Callers \cup {Nobody}, op : Ops, key : Keys, val : Wire \cup {Miss}, ttl : TTLs]

Call == [attempt : 1..MaxAttempts, op : Ops, key : Keys, val : Wire \cup {Miss}, ttl : TTLs]

Ret == [op : Ops \cup {"none"}, key : Keys \cup {NoEntry}, val : Wire \cup {Miss},
        err : {"none", "notfound", "timeout"}]

VARIABLES
  now,        \* server time, in ticks
  store,      \* the server's keys: [Keys -> [val, deadline] or NoEntry]
  pc,         \* each caller: "idle" or waiting for a reply
  call,       \* each caller's current call, or NoCall
  net,        \* requests sent and not yet executed
  reply,      \* the reply to a caller's current attempt, once it has come
  ret,        \* what each caller's latest call returned
  calls       \* calls made so far

vars == <<now, store, pc, call, net, reply, ret, calls>>

NoRet == [op |-> "none", key |-> NoEntry, val |-> Miss, err |-> "none"]

TypeOK ==
  /\ now \in 0..MaxTime
  /\ store \in [Keys -> [val : Wire, deadline : Nat] \cup {NoEntry}]
  /\ pc \in [Callers -> {"idle", "wait"}]
  /\ call \in [Callers -> Call \cup {NoCall}]
  /\ net \subseteq Request
  /\ reply \in [Callers -> {NoReply} \cup [val : Wire \cup {Miss}]]
  /\ ret \in [Callers -> Ret]
  /\ calls \in 0..MaxCalls

Init ==
  /\ now = 0
  /\ store = [k \in Keys |-> NoEntry]
  /\ pc = [c \in Callers |-> "idle"]
  /\ call = [c \in Callers |-> NoCall]
  /\ net = {}
  /\ reply = [c \in Callers |-> NoReply]
  /\ ret = [c \in Callers |-> NoRet]
  /\ calls = 0

\* The request caller c writes for its call cl
Send(c, cl) == [to |-> c, op |-> cl.op, key |-> cl.key, val |-> cl.val, ttl |-> cl.ttl]

\* go-redis closes the connection c was reading: its request gets no reply
Orphan(c) == {IF r.to = c THEN [r EXCEPT !.to = Nobody] ELSE r : r \in net}

\* A caller starts a call: the client writes the command to a connection
Begin(c, op, k, w, ttl) ==
  /\ pc[c] = "idle"
  /\ calls < MaxCalls
  /\ LET cl == [attempt |-> 1, op |-> op, key |-> k, val |-> w, ttl |-> ttl]
     IN  /\ call' = [call EXCEPT ![c] = cl]
         /\ net' = net \cup {Send(c, cl)}
  /\ pc' = [pc EXCEPT ![c] = "wait"]
  /\ calls' = calls + 1
  /\ UNCHANGED <<now, store, reply, ret>>

\* CustomCache.Put: msgpack.Marshal, then SET key bytes PX d
Put(c, k, w, ttl) == Begin(c, "Put", k, w, ttl)

\* CustomCache.Get: GET key, then msgpack.Unmarshal of the reply
Get(c, k) == Begin(c, "Get", k, Miss, CHOOSE t \in TTLs : TRUE)

\* CustomCache.Delete: DEL key
Delete(c, k) == Begin(c, "Delete", k, Miss, CHOOSE t \in TTLs : TRUE)

\* Redis treats a key whose deadline has passed as missing
Expired(e) == e.deadline <= now

Live(k) == store[k] # NoEntry /\ ~Expired(store[k])

\* The server executes one request and answers on its connection
Execute(r) ==
  /\ r \in net
  /\ net' = net \ {r}
  /\ store' = CASE r.op = "Put" -> [store EXCEPT ![r.key] = [val |-> r.val, deadline |-> now + r.ttl]]
                 [] r.op = "Get" -> IF Live(r.key) THEN store ELSE [store EXCEPT ![r.key] = NoEntry]
                 [] r.op = "Delete" -> [store EXCEPT ![r.key] = NoEntry]
  /\ reply' = IF r.to # Nobody
                THEN [reply EXCEPT ![r.to] = [val |-> IF r.op = "Get" /\ Live(r.key)
                                                            THEN store[r.key].val ELSE Miss]]
                ELSE reply
  /\ UNCHANGED <<now, pc, call, ret, calls>>

\* The reply is read before the deadline: the call returns it
Return(c) ==
  /\ pc[c] = "wait"
  /\ reply[c] # NoReply
  /\ ret' = [ret EXCEPT ![c] =
               [op |-> call[c].op, key |-> call[c].key, val |-> reply[c].val,
                err |-> IF call[c].op = "Get" /\ reply[c].val = Miss THEN "notfound" ELSE "none"]]
  /\ pc' = [pc EXCEPT ![c] = "idle"]
  /\ call' = [call EXCEPT ![c] = NoCall]
  /\ reply' = [reply EXCEPT ![c] = NoReply]
  /\ UNCHANGED <<now, store, net, calls>>

\* A retry loop that counts attempts from 0, so it makes one attempt too many
TimeoutPastLimit(c) ==
  /\ pc[c] = "wait"
  /\ reply' = [reply EXCEPT ![c] = NoReply]
  /\ IF call[c].attempt <= MaxAttempts
       THEN LET cl == [call[c] EXCEPT !.attempt = @ + 1]
            IN  /\ call' = [call EXCEPT ![c] = cl]
                /\ net' = Orphan(c) \cup {Send(c, cl)}
                /\ UNCHANGED <<pc, ret>>
       ELSE /\ ret' = [ret EXCEPT ![c] = [op |-> call[c].op, key |-> call[c].key,
                                          val |-> Miss, err |-> "timeout"]]
            /\ pc' = [pc EXCEPT ![c] = "idle"]
            /\ call' = [call EXCEPT ![c] = NoCall]
            /\ net' = Orphan(c)
  /\ UNCHANGED <<now, store, calls>>

\* The read deadline passes (the request or its reply is late, or lost):
\* go-redis retries on a new connection while attempts remain, and
\* otherwise the call returns the timeout error
Timeout(c) ==
  /\ pc[c] = "wait"
  /\ reply' = [reply EXCEPT ![c] = NoReply]
  /\ IF call[c].attempt < MaxAttempts
       THEN LET cl == [call[c] EXCEPT !.attempt = @ + 1]
            IN  /\ call' = [call EXCEPT ![c] = cl]
                /\ net' = Orphan(c) \cup {Send(c, cl)}
                /\ UNCHANGED <<pc, ret>>
       ELSE /\ ret' = [ret EXCEPT ![c] = [op |-> call[c].op, key |-> call[c].key,
                                          val |-> Miss, err |-> "timeout"]]
            /\ pc' = [pc EXCEPT ![c] = "idle"]
            /\ call' = [call EXCEPT ![c] = NoCall]
            /\ net' = Orphan(c)
  /\ UNCHANGED <<now, store, calls>>

Tick ==
  /\ now < MaxTime
  /\ now' = now + 1
  /\ UNCHANGED <<store, pc, call, net, reply, ret, calls>>

\* Every call has been made and has returned
Finished ==
  /\ calls = MaxCalls
  /\ \A c \in Callers : pc[c] = "idle"
  /\ UNCHANGED vars

Next ==
  \/ \E c \in Callers, k \in Keys :
       \/ \E w \in Wire, ttl \in TTLs : Put(c, k, w, ttl)
       \/ Get(c, k) \/ Delete(c, k)
  \/ \E r \in net : Execute(r)
  \/ \E c \in Callers : Return(c) \/ Timeout(c)
  \/ Tick
  \/ Finished

Spec == Init /\ [][Next]_vars

-----------------------------------------------------------------------------
\* Spec 8: "Delete(key) followed by Get(key) always signals a miss".  A
\* caller's Get of a key that returns right after its own Delete of that
\* key returned nil misses.  (Stated for one caller, as the spec does.)
DeleteThenGetMisses ==
  [][\A c \in Callers :
       /\ ret[c].op = "Delete" /\ ret[c].err = "none"
       /\ ret'[c].op = "Get" /\ ret'[c].key = ret[c].key
       => ret'[c].val = Miss]_ret

=============================================================================

------------------------------ MODULE FreeCache ------------------------------
(***************************************************************************)
(* CustomCache (cache/cache.go) over the gocache marshaler and a freecache *)
(* store (newMemory, unnamed/part_007).                                    *)
(*  - Put marshals the value with msgpack.  It then calls                  *)
(*    store.Set(key, bytes, WithExpiration(d)), and freecache receives     *)
(*    int(d.Seconds()).                                                    *)
(*  - freecache keeps expireAt in whole Unix seconds.  0 means the entry   *)
(*    never expires.  An entry is expired once expireAt <= now.  Get       *)
(*    removes an expired entry.  A Set of a new key into a full buffer     *)
(*    evicts another entry.                                                *)
(*  - Get unmarshals the stored bytes into an interface{}.                 *)
(* freecache locks each segment, so every facade call is one atomic step   *)
(* and concurrent callers add no behaviours beyond the order of their      *)
(* calls.  Real time is counted in ticks of 1/TicksPerSecond second.       *)
(***************************************************************************)
EXTENDS Naturals, FiniteSets

CONSTANTS
  Keys,
  Ids,              \* distinguishes payloads of one Go type
  PayloadTypes,     \* Go types of the values callers Put
  TTLs,             \* durations callers pass, in ticks
  TicksPerSecond,
  Capacity,         \* entries the freecache buffer holds
  DefaultSeconds,   \* store.WithExpiration(10*time.Second) of newMemory
  MaxTime,          \* last tick explored
  NoEntry, Miss

ASSUME TicksPerSecond \in Nat \ {0} /\ Capacity \in Nat \ {0} /\ TTLs \subseteq Nat

Payload == [type : PayloadTypes, id : Ids]

\* msgpack's encoding of each type it can encode (a struct becomes a map)
MsgpackFormat == [int |-> "fixint", string |-> "fixstr", struct |-> "fixmap"]
Encodable(p) == p.type \in DOMAIN MsgpackFormat
Wire == [fmt : {"fixint", "fixstr", "fixmap"}, id : Ids]
Marshal(p) == [fmt |-> MsgpackFormat[p.type], id |-> p.id]

\* freecache's clock: whole Unix seconds
Seconds(t) == t \div TicksPerSecond

\* expireAt freecache stores for a Set at tick t with int(d.Seconds()) = s
ExpireAt(t, s) == IF s > 0 THEN Seconds(t) + s ELSE 0

Expired(e, t) == e.expireAt # 0 /\ e.expireAt <= Seconds(t)

VARIABLES
  now,        \* real time, in ticks
  store,      \* freecache: [Keys -> [val : Wire, expireAt] or NoEntry]
  got,        \* the bytes the last Get decoded, or Miss
  deadline    \* ghost: tick at which the latest Put's TTL has elapsed

vars == <<now, store, got, deadline>>

Occupied == {k \in Keys : store[k] # NoEntry}

TypeOK ==
  /\ now \in 0..MaxTime
  /\ store \in [Keys -> [val : Wire, expireAt : Nat] \cup {NoEntry}]
  /\ got \in Wire \cup {Miss}
  /\ deadline \in [Keys -> Nat]

Init ==
  /\ now = 0
  /\ store = [k \in Keys |-> NoEntry]
  /\ got = Miss
  /\ deadline = [k \in Keys |-> 0]

\* freecache Set: a new key in a full buffer evicts another entry first
Set(k, e) ==
  IF store[k] = NoEntry /\ Cardinality(Occupied) = Capacity
    THEN \E victim \in Occupied :
           store' = [store EXCEPT ![victim] = NoEntry, ![k] = e]
    ELSE store' = [store EXCEPT ![k] = e]

\* Put storing the Go value itself, bypassing the marshaler
PutUnmarshalled(k, p, d) ==
  /\ Set(k, [val |-> p, expireAt |-> ExpireAt(now, d \div TicksPerSecond)])
  /\ deadline' = [deadline EXCEPT ![k] = now + d]
  /\ UNCHANGED <<now, got>>

\* Put that leaves the expiration to the store's 10 s default
PutWithoutTTL(k, p, d) ==
  /\ Encodable(p)
  /\ Set(k, [val |-> Marshal(p), expireAt |-> ExpireAt(now, DefaultSeconds)])
  /\ deadline' = [deadline EXCEPT ![k] = now + d]
  /\ UNCHANGED <<now, got>>

\* CustomCache.Put: marshal, then Set with WithExpiration(d)
Put(k, p, d) ==
  /\ Encodable(p)
  /\ Set(k, [val |-> Marshal(p), expireAt |-> ExpireAt(now, d \div TicksPerSecond)])
  /\ deadline' = [deadline EXCEPT ![k] = now + d]
  /\ UNCHANGED <<now, got>>

\* msgpack cannot encode the value: Put returns the error, nothing stored
PutFails(k, p) ==
  /\ ~Encodable(p)
  /\ UNCHANGED vars

\* CustomCache.Get: freecache Get (an expired entry is removed and misses),
\* then msgpack.Unmarshal of the bytes (got is those bytes)
Get(k) ==
  /\ IF store[k] # NoEntry /\ ~Expired(store[k], now)
       THEN got' = store[k].val /\ UNCHANGED store
       ELSE got' = Miss /\ store' = [store EXCEPT ![k] = NoEntry]
  /\ UNCHANGED <<now, deadline>>

\* CustomCache.Delete: freecache Del
Delete(k) ==
  /\ store' = [store EXCEPT ![k] = NoEntry]
  /\ UNCHANGED <<now, got, deadline>>

Tick ==
  /\ now < MaxTime
  /\ now' = now + 1
  /\ UNCHANGED <<store, got, deadline>>

Next ==
  \/ \E k \in Keys, p \in Payload, d \in TTLs : Put(k, p, d)
  \/ \E k \in Keys, p \in Payload : PutFails(k, p)
  \/ \E k \in Keys : Get(k) \/ Delete(k)
  \/ Tick

Spec == Init /\ [][Next]_vars

-----------------------------------------------------------------------------
(* Refinement: the entries a caller can still get, with the deadline of    *)
(* the Put that stored them, are the contract's entries.                   *)

Live(k) == store[k] # NoEntry /\ ~Expired(store[k], now)

Contract == INSTANCE CacheContract
              WITH entries <- [k \in Keys |-> IF Live(k)
                                                THEN [val |-> store[k].val, deadline |-> deadline[k]]
                                                ELSE NoEntry]

\* The facade keeps the cache contract: no Get hits an entry whose TTL has
\* elapsed, and Put, Get, Delete and eviction are the contract's steps.
\* Depends on Put handing int(d.Seconds()) to freecache.
ContractSpec == Contract!Spec

=============================================================================

----------------------------- MODULE MemoryStore -----------------------------
(***************************************************************************)
(* memoryStore (storage/memory.go) over go-micro's memory store, which     *)
(* keeps records in a go-cache map.                                        *)
(*  - Write accepts only a *store.Record.  The record's key comes from     *)
(*    the record itself.  The adapter always passes options, so the        *)
(*    go-micro store copies the record, Expiry included, then overrides    *)
(*    Expiry with time.Until(WriteExpiry) if that is set, and with         *)
(*    WriteTTL if that is non-zero.                                        *)
(*  - go-cache turns a duration d into an expiration now+d when d > 0,     *)
(*    and into "never" otherwise.  It hides an item once now is past the   *)
(*    expiration.                                                          *)
(*  - Read and List first query the store, then decode into ops.Result     *)
(*    with mapstructure, which fails for a nil target.                     *)
(*  - Update is Write.                                                     *)
(* go-cache takes its lock for each call, so each adapter call is one      *)
(* atomic step.  Time is in ticks.                                         *)
(***************************************************************************)
EXTENDS Integers

CONSTANTS
  Keys, Vals,
  TTLs,       \* WriteTTL durations, in ticks; 0 = not given
  Expiries,   \* WriteExpiry instants, in ticks
  RecExpiries, \* Expiry durations of the records callers pass, in ticks
  NoTime,     \* WriteExpiry not given (the zero time.Time)
  MaxTime,
  NoRecord

ASSUME 0 \in TTLs /\ TTLs \subseteq Nat /\ Expiries \subseteq Nat /\ RecExpiries \subseteq Int

\* payload is a *store.Record, with its own Expiry, or a value of another type
Payload == [rec : BOOLEAN, val : Vals, exp : RecExpiries]

VARIABLES
  now,
  recs,       \* go-cache items: [Keys -> [val, exp] or NoRecord]; exp 0 = never
  res         \* what the latest adapter call returned

vars == <<now, recs, res>>

Statuses == {"ok", "NotFound", "TargetMissing", "InvalidPayload"}

TypeOK ==
  /\ now \in 0..MaxTime
  /\ recs \in [Keys -> [val : Vals, exp : Nat] \cup {NoRecord}]
  /\ res \in [op : {"none", "List", "Read", "Write", "Update", "Delete"},
              status : Statuses, val : Vals \cup {NoRecord}, keys : SUBSET Keys]

Init ==
  /\ now = 0
  /\ recs = [k \in Keys |-> NoRecord]
  /\ res = [op |-> "none", status |-> "ok", val |-> NoRecord, keys |-> {}]

Reply(op, st, v, ks) == res' = [op |-> op, status |-> st, val |-> v, keys |-> ks]

\* go-cache Get/Items: an item is hidden once now is past its expiration
Live(k) == recs[k] # NoRecord /\ (recs[k].exp = 0 \/ now <= recs[k].exp)

\* go-micro memory Write: the copied record's Expiry after the options
ExpiryOf(p, ttl, ex) ==
  IF ttl # 0 THEN ttl ELSE IF ex # NoTime THEN ex - now ELSE p.exp

\* go-cache Set: a positive duration expires, any other never does
Expiration(d) == IF d > 0 THEN now + d ELSE 0

\* Write without the *store.Record assertion
WriteUnchecked(op, k, p, ttl, ex) ==
  /\ recs' = [recs EXCEPT ![k] = [val |-> p, exp |-> Expiration(ExpiryOf(p, ttl, ex))]]
  /\ Reply(op, "ok", NoRecord, {})
  /\ UNCHANGED now

\* memoryStore.Write (Update calls it with the same arguments)
Write(op, k, p, ttl, ex) ==
  /\ IF ~p.rec
       THEN Reply(op, "InvalidPayload", NoRecord, {}) /\ UNCHANGED recs
       ELSE /\ recs' = [recs EXCEPT ![k] = [val |-> p.val, exp |-> Expiration(ExpiryOf(p, ttl, ex))]]
            /\ Reply(op, "ok", NoRecord, {})
  /\ UNCHANGED now

\* memoryStore.Read: store Read by ops.Key (ErrNotFound on a miss), then
\* mapstructure.Decode into ops.Result
Read(k, target) ==
  /\ CASE ~Live(k) -> Reply("Read", "NotFound", NoRecord, {})
       [] ~target  -> Reply("Read", "TargetMissing", NoRecord, {})
       [] OTHER    -> Reply("Read", "ok", recs[k].val, {})
  /\ UNCHANGED <<now, recs>>

\* memoryStore.List: the keys of the live items, then Decode into ops.Result
List(target) ==
  /\ IF target THEN Reply("List", "ok", NoRecord, {k \in Keys : Live(k)})
               ELSE Reply("List", "TargetMissing", NoRecord, {})
  /\ UNCHANGED <<now, recs>>

\* memoryStore.Delete: delete by ops.Key; a missing key is not an error
Delete(k) ==
  /\ recs' = [recs EXCEPT ![k] = NoRecord]
  /\ Reply("Delete", "ok", NoRecord, {})
  /\ UNCHANGED now

Tick ==
  /\ now < MaxTime
  /\ now' = now + 1
  /\ UNCHANGED <<recs, res>>

Next ==
  \/ \E op \in {"Write", "Update"}, k \in Keys, p \in Payload, ttl \in TTLs, ex \in Expiries \cup {NoTime} :
       Write(op, k, p, ttl, ex)
  \/ \E k \in Keys, t \in BOOLEAN : Read(k, t) \/ Delete(k)
  \/ \E t \in BOOLEAN : List(t)
  \/ Tick

Spec == Init /\ [][Next]_vars

=============================================================================

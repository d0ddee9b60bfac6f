---------------------------- MODULE CacheContract ----------------------------
(***************************************************************************)
(* What the cache facade promises its callers (spec 4.4, 4.5 and 8).  A    *)
(* cache maps keys to marshaled values, each with a deadline set by the    *)
(* Put that stored it.                                                     *)
(*  - Put overwrites the entry and resets its deadline.  A full cache may  *)
(*    evict other entries while doing so.                                  *)
(*  - Get hits with the stored value or misses.                            *)
(*  - Delete removes the entry.                                            *)
(*  - An entry is gone once its deadline has passed.  It may be gone       *)
(*    earlier, because capacity is bounded.                                *)
(*  - A Put may fail with an error and change nothing.                     *)
(* Time is counted in Ticks, a fixed fraction of a second.                 *)
(***************************************************************************)
EXTENDS Naturals

CONSTANTS
  Keys,      \* cache keys
  Wire,      \* marshaled values
  TTLs,      \* TTLs a caller passes, in ticks (all > 0)
  MaxTime,   \* the last tick the model explores
  NoEntry,   \* no entry for the key
  Miss       \* what the last Get returned when it missed

ASSUME TTLs \subseteq Nat \ {0} /\ MaxTime \in Nat

VARIABLES
  now,       \* the current tick
  entries,   \* [Keys -> [val, deadline] or NoEntry]
  got        \* what the last Get returned: a value or Miss

vars == <<now, entries, got>>

Entry == [val : Wire, deadline : Nat]

TypeOK ==
  /\ now \in 0..MaxTime
  /\ entries \in [Keys -> Entry \cup {NoEntry}]
  /\ got \in Wire \cup {Miss}

Init ==
  /\ now = 0
  /\ entries = [k \in Keys |-> NoEntry]
  /\ got = Miss

\* Entries of `lost` disappear, the others are kept
Drop(e, lost) == [k \in Keys |-> IF k \in lost THEN NoEntry ELSE e[k]]

Put(k, w, ttl) ==
  /\ \E lost \in SUBSET (Keys \ {k}) :
       entries' = [Drop(entries, lost) EXCEPT ![k] = [val |-> w, deadline |-> now + ttl]]
  /\ UNCHANGED <<now, got>>

Get(k) ==
  /\ got' = IF entries[k] = NoEntry THEN Miss ELSE entries[k].val
  /\ UNCHANGED <<now, entries>>

Delete(k) ==
  /\ entries' = [entries EXCEPT ![k] = NoEntry]
  /\ UNCHANGED <<now, got>>

\* Time passes: expired entries go, and any others may go as well
Tick ==
  /\ now < MaxTime
  /\ now' = now + 1
  /\ \E lost \in SUBSET Keys :
       entries' = Drop(entries, lost \cup {k \in Keys : entries[k] # NoEntry
                                                       /\ entries[k].deadline <= now + 1})
  /\ UNCHANGED got

Next ==
  \/ \E k \in Keys, w \in Wire, ttl \in TTLs : Put(k, w, ttl)
  \/ \E k \in Keys : Get(k) \/ Delete(k)
  \/ Tick

Spec == Init /\ [][Next]_vars

=============================================================================

----------------------------- MODULE MongoStore -----------------------------
(***************************************************************************)
(* The document-oriented RefinedStore backend, mongoStore, of              *)
(* src/unnamed/part_003 (storage package), over one collection.            *)
(*                                                                         *)
(* Callers are goroutines sharing the handle.  Each call of List, Read,    *)
(* Write, Update or Delete is split into the steps at which the code       *)
(* waits on the network: the caller sends a request, the server executes   *)
(* it at some later point, the reply comes back and the caller decodes it. *)
(* A call whose context carries a deadline may give up before the reply;   *)
(* its request is then still on the way and the server may execute it     *)
(* after the call has returned.                                            *)
(*                                                                         *)
(* Write, Update and Delete run inside mgm.TransactionWithCtx, but the     *)
(* callback hands the outer ctx, not the session context sc, to            *)
(* InsertOne/UpdateOne/DeleteOne: the operation is not part of the         *)
(* transaction, the server applies it when it executes it, and             *)
(* CommitTransaction(sc) has nothing to commit.                            *)
(***************************************************************************)
EXTENDS Naturals, Sequences, SequencesExt, FiniteSets

CONSTANTS
  Callers,        \* goroutines calling the shared handle
  KeyVals,        \* values of the filter field (ReadKey/ReadValue, ...)
  Payloads,       \* payload values, opaque to the store
  MaxCalls,       \* bound on the number of calls in a behaviour
  BatchSize,      \* documents returned in the first batch of a cursor
  Offsets,        \* ReadOffset values callers pass
  Limits,         \* ReadLimit values callers pass (0: no limit)
  CallerOps,      \* the operations callers make
  CallerDeadline, \* whether callers' contexts carry a deadline: a subset of BOOLEAN
  NoDoc           \* model value: no document

ASSUME MaxCalls \in Nat \ {0} /\ BatchSize \in Nat \ {0}
ASSUME CallerDeadline \subseteq BOOLEAN /\ CallerDeadline # {}
ASSUME CallerOps \subseteq {"Write", "Update", "Delete", "Read", "List"}
ASSUME Offsets \subseteq Nat /\ Limits \subseteq Nat /\ Offsets # {} /\ Limits # {}

Ops      == {"Write", "Update", "Delete", "Read", "List"}
WriteOps == {"Write", "Update", "Delete"}
Errors   == {"ErrSession", "ErrServer", "ErrDeadline", "ErrInvalidResult", "ErrNoDocuments"}

\* A document: the filter field and the payload.
Doc == [key : KeyVals, val : Payloads]

\* A call as the code sees it after applying its options.  target is
\* ops.Result # nil; deadline is whether ctx carries a deadline; seen is
\* the ghost value of latest[key] when the call was made.
Call == [n : 1..MaxCalls, c : Callers, op : Ops, key : KeyVals, val : Payloads,
         target : BOOLEAN, skip : Offsets \cup {0}, limit : Limits \cup {0}, deadline : BOOLEAN,
         seen : Payloads \cup {NoDoc}]

Reply == [n : 1..MaxCalls, ok : BOOLEAN, doc : Doc \cup {NoDoc}, docs : Seq(Doc)]

Ret == [n : 0..MaxCalls, op : Ops, status : {"none", "ok"} \cup Errors,
        doc : Doc \cup {NoDoc}, docs : Seq(Doc), seen : Payloads \cup {NoDoc}]

VARIABLES
  coll,     \* the collection: documents in natural (insertion) order
  pc,       \* [Callers -> {"idle", "session", "waiting", "replied"}]
  call,     \* the call each caller is in (NoDoc when idle)
  net,      \* requests sent and not yet executed by the server (with orphans)
  reply,    \* the reply each waiting caller has received
  ret,      \* what each caller's last call returned
  calls,    \* number of calls made
  cursors,  \* numbers of the calls whose server cursor is open
  applied,  \* ghost: numbers of the calls the server has executed
  latest    \* ghost: per key, payload of the last Write/Update that returned
            \* nil, or NoDoc after a Delete that returned nil

vars == <<coll, pc, call, net, reply, ret, calls, cursors, applied, latest>>

NoReply == [n |-> 1, ok |-> FALSE, doc |-> NoDoc, docs |-> <<>>]

TypeOK ==
  /\ coll \in Seq(Doc)
  /\ pc \in [Callers -> {"idle", "session", "waiting", "replied"}]
  /\ call \in [Callers -> Call \cup {NoDoc}]
  /\ net \subseteq Call
  /\ reply \in [Callers -> Reply]
  /\ ret \in [Callers -> Ret]
  /\ calls \in 0..MaxCalls
  /\ cursors \subseteq 1..MaxCalls
  /\ applied \subseteq 1..MaxCalls
  /\ latest \in [KeyVals -> Payloads \cup {NoDoc}]

Init ==
  /\ coll = <<>>
  /\ pc = [c \in Callers |-> "idle"]
  /\ call = [c \in Callers |-> NoDoc]
  /\ net = {}
  /\ reply = [c \in Callers |-> NoReply]
  /\ ret = [c \in Callers |-> [n |-> 0, op |-> "Read", status |-> "none",
                               doc |-> NoDoc, docs |-> <<>>, seen |-> NoDoc]]
  /\ calls = 0
  /\ cursors = {}
  /\ applied = {}
  /\ latest = [k \in KeyVals |-> NoDoc]

-----------------------------------------------------------------------------
(* Calls.  Each data operation applies its options to a zero options     *)
(* value and then either opens a transaction (writes) or sends its query  *)
(* (reads).                                                               *)

NewCall(c, op, k, v, t, s, l, d) ==
  [n |-> calls + 1, c |-> c, op |-> op, key |-> k, val |-> v, target |-> t,
   skip |-> s, limit |-> l, deadline |-> d, seen |-> latest[k]]

\* Start a call: writes go through TransactionWithCtx first ("session").
Begin(c, r) ==
  /\ pc[c] = "idle"
  /\ r.op \in CallerOps
  /\ calls < MaxCalls
  /\ call' = [call EXCEPT ![c] = r]
  /\ calls' = calls + 1
  /\ IF r.op \in WriteOps
       THEN /\ pc' = [pc EXCEPT ![c] = "session"]
            /\ UNCHANGED net
       ELSE /\ pc' = [pc EXCEPT ![c] = "waiting"]
            /\ net' = net \cup {r}
  /\ UNCHANGED <<coll, reply, ret, cursors, applied, latest>>

\* List: col.Find(ctx, bson.D{}, SetSkip(Offset).SetLimit(Limit)).
List(c) ==
  \E t \in BOOLEAN, s \in Offsets, l \in Limits, d \in CallerDeadline :
    Begin(c, NewCall(c, "List", CHOOSE k \in KeyVals : TRUE,
                     CHOOSE v \in Payloads : TRUE, t, s, l, d))

\* Read: col.FindOne(ctx, bson.M{Key: Value}).
Read(c) ==
  \E k \in KeyVals, t \in BOOLEAN, d \in CallerDeadline :
    Begin(c, NewCall(c, "Read", k, CHOOSE v \in Payloads : TRUE, t, 0, 0, d))

\* Write: InsertOne(ctx, payload) inside TransactionWithCtx(ctx, ...).
Write(c) ==
  \E k \in KeyVals, v \in Payloads, d \in CallerDeadline :
    Begin(c, NewCall(c, "Write", k, v, FALSE, 0, 0, d))

\* Update: UpdateOne(ctx, {Key: Value}, {$set: payload}) in a transaction.
Update(c) ==
  \E k \in KeyVals, v \in Payloads, d \in CallerDeadline :
    Begin(c, NewCall(c, "Update", k, v, FALSE, 0, 0, d))

\* Delete: the call's own ctx is replaced by
\* context.WithTimeout(context.Background(), 3*time.Second): it always
\* carries a deadline, whatever the caller's context carries.
Delete(c) ==
  \E k \in KeyVals :
    Begin(c, NewCall(c, "Delete", k, CHOOSE v \in Payloads : TRUE,
                     FALSE, 0, 0, TRUE))

\* A call returns: the caller is idle again.
Return(c, status, doc, docs) ==
  /\ pc' = [pc EXCEPT ![c] = "idle"]
  /\ call' = [call EXCEPT ![c] = NoDoc]
  /\ reply' = [reply EXCEPT ![c] = NoReply]
  /\ ret' = [ret EXCEPT ![c] = [n |-> call[c].n, op |-> call[c].op,
                 status |-> status, doc |-> doc, docs |-> docs, seen |-> call[c].seen]]

\* TransactionWithCtx: StartSession and StartTransaction succeed and the
\* callback sends its operation, with ctx rather than sc.
BeginTransaction(c) ==
  /\ pc[c] = "session"
  /\ pc' = [pc EXCEPT ![c] = "waiting"]
  /\ net' = net \cup {call[c]}
  /\ UNCHANGED <<coll, call, reply, ret, calls, cursors, applied, latest>>

\* StartSession or StartTransaction fails: the error is returned and the
\* callback never runs.
TransactionFails(c) ==
  /\ pc[c] = "session"
  /\ Return(c, "ErrSession", NoDoc, <<>>)
  /\ UNCHANGED <<coll, net, calls, cursors, applied, latest>>

-----------------------------------------------------------------------------
(* The server.  It executes any request still on the way, in any order.  *)
(* Natural order is insertion order: FindOne, UpdateOne and DeleteOne    *)
(* act on the first matching document.                                   *)

Matches(k) == {i \in 1..Len(coll) : coll[i].key = k}

First(k) == CHOOSE i \in Matches(k) : \A j \in Matches(k) : i <= j

\* The reply reaches the caller only if it is still waiting for this call.
Answer(r, ok, doc, docs) ==
  IF pc[r.c] = "waiting" /\ call[r.c].n = r.n
    THEN /\ reply' = [reply EXCEPT ![r.c] = [n |-> r.n, ok |-> ok, doc |-> doc, docs |-> docs]]
         /\ pc' = [pc EXCEPT ![r.c] = "replied"]
    ELSE UNCHANGED <<reply, pc>>

Execute(r) ==
  /\ net' = net \ {r}
  /\ applied' = applied \cup {r.n}

InsertOne(r) ==
  /\ r \in net /\ r.op = "Write"
  /\ Execute(r)
  /\ coll' = Append(coll, [key |-> r.key, val |-> r.val])
  /\ Answer(r, TRUE, NoDoc, <<>>)
  /\ UNCHANGED <<call, ret, calls, cursors, latest>>

\* No upsert: an UpdateOne that matches nothing succeeds with no effect.
UpdateOne(r) ==
  /\ r \in net /\ r.op = "Update"
  /\ Execute(r)
  /\ coll' = IF Matches(r.key) = {} THEN coll
             ELSE [coll EXCEPT ![First(r.key)].val = r.val]
  /\ Answer(r, TRUE, NoDoc, <<>>)
  /\ UNCHANGED <<call, ret, calls, cursors, latest>>

DeleteOne(r) ==
  /\ r \in net /\ r.op = "Delete"
  /\ Execute(r)
  /\ coll' = IF Matches(r.key) = {} THEN coll ELSE RemoveAt(coll, First(r.key))
  /\ Answer(r, TRUE, NoDoc, <<>>)
  /\ UNCHANGED <<call, ret, calls, cursors, latest>>

FindOne(r) ==
  /\ r \in net /\ r.op = "Read"
  /\ net' = net \ {r}
  /\ Answer(r, TRUE, IF Matches(r.key) = {} THEN NoDoc ELSE coll[First(r.key)], <<>>)
  /\ UNCHANGED <<coll, call, ret, calls, cursors, applied, latest>>

\* The documents Find returns: skip Offset, then at most Limit (0: all).
Window(s, l) ==
  LET from == s + 1
      to   == IF l = 0 THEN Len(coll) ELSE Min({Len(coll), s + l})
  IN  IF from > to THEN <<>> ELSE SubSeq(coll, from, to)

\* A result larger than the first batch leaves a cursor open on the server
\* until the client exhausts or closes it.
Find(r) ==
  /\ r \in net /\ r.op = "List"
  /\ net' = net \ {r}
  /\ cursors' = IF Len(Window(r.skip, r.limit)) > BatchSize
                  THEN cursors \cup {r.n} ELSE cursors
  /\ Answer(r, TRUE, NoDoc, Window(r.skip, r.limit))
  /\ UNCHANGED <<coll, call, ret, calls, applied, latest>>

\* The operation fails at the server or on the network: no effect.
OperationFails(r) ==
  /\ r \in net
  /\ net' = net \ {r}
  /\ Answer(r, FALSE, NoDoc, <<>>)
  /\ UNCHANGED <<coll, call, ret, calls, cursors, applied, latest>>

-----------------------------------------------------------------------------
(* The caller handles the reply and returns.                             *)

\* Mutant of CommitOrAbort: the callback ignores the operation's error and
\* commits.
CommitIgnoringError(c) ==
  /\ pc[c] = "replied" /\ call[c].op \in WriteOps
  /\ Return(c, "ok", NoDoc, <<>>)
  /\ latest' = [latest EXCEPT ![call[c].key] =
                   IF call[c].op = "Delete" THEN NoDoc ELSE call[c].val]
  /\ UNCHANGED <<coll, net, calls, cursors, applied>>

\* The callback returns the operation's error, or CommitTransaction(sc),
\* which has no operation to commit and succeeds; EndSession follows.
CommitOrAbort(c) ==
  /\ pc[c] = "replied" /\ call[c].op \in WriteOps
  /\ Return(c, IF reply[c].ok THEN "ok" ELSE "ErrServer", NoDoc, <<>>)
  /\ latest' = IF reply[c].ok /\ call[c].op # "Delete"
                 THEN [latest EXCEPT ![call[c].key] = call[c].val]
               ELSE IF reply[c].ok
                 THEN [latest EXCEPT ![call[c].key] = NoDoc]
               ELSE latest
  /\ UNCHANGED <<coll, net, calls, cursors, applied>>

\* Mutant of DecodeOne: no Result check; Decode(nil) fails with the
\* driver's ErrDecodeToNil.
DecodeOneUnchecked(c) ==
  /\ pc[c] = "replied" /\ call[c].op = "Read"
  /\ Return(c, CASE ~reply[c].ok           -> "ErrServer"
                 [] reply[c].doc = NoDoc   -> "ErrNoDocuments"
                 [] ~call[c].target        -> "ErrDecodeToNil"
                 [] OTHER                  -> "ok",
            IF call[c].target /\ reply[c].ok THEN reply[c].doc ELSE NoDoc, <<>>)
  /\ UNCHANGED <<coll, net, calls, cursors, applied, latest>>

\* Read: Result is checked after FindOne; Decode returns FindOne's error,
\* or ErrNoDocuments, or decodes the document.
DecodeOne(c) ==
  /\ pc[c] = "replied" /\ call[c].op = "Read"
  /\ Return(c, CASE ~call[c].target        -> "ErrInvalidResult"
                 [] ~reply[c].ok           -> "ErrServer"
                 [] reply[c].doc = NoDoc   -> "ErrNoDocuments"
                 [] OTHER                  -> "ok",
            IF call[c].target /\ reply[c].ok THEN reply[c].doc ELSE NoDoc, <<>>)
  /\ UNCHANGED <<coll, net, calls, cursors, applied, latest>>

\* List: Find's error first, then the Result check (which returns with the
\* cursor still open), then cur.All, which drains and closes the cursor.
DecodeAll(c) ==
  /\ pc[c] = "replied" /\ call[c].op = "List"
  /\ Return(c, CASE ~reply[c].ok      -> "ErrServer"
                 [] ~call[c].target   -> "ErrInvalidResult"
                 [] OTHER             -> "ok",
            NoDoc, IF reply[c].ok /\ call[c].target THEN reply[c].docs ELSE <<>>)
  /\ cursors' = IF reply[c].ok /\ call[c].target THEN cursors \ {call[c].n}
                ELSE cursors
  /\ UNCHANGED <<coll, net, applied, calls, latest>>

\* The context's deadline expires: the driver returns the context error.
\* A request not yet executed stays on the way.
Timeout(c) ==
  /\ pc[c] \in {"waiting", "replied"}
  /\ call[c].deadline
  /\ Return(c, "ErrDeadline", NoDoc, <<>>)
  /\ UNCHANGED <<coll, net, calls, cursors, applied, latest>>

\* The model's bound on calls is reached and every caller has returned:
\* the behaviour ends (requests left on the way may never be executed).
Finished ==
  /\ calls = MaxCalls
  /\ \A c \in Callers : pc[c] = "idle"
  /\ UNCHANGED vars

-----------------------------------------------------------------------------

Next ==
  \/ \E c \in Callers :
       \/ List(c) \/ Read(c) \/ Write(c) \/ Update(c) \/ Delete(c)
       \/ BeginTransaction(c) \/ TransactionFails(c)
       \/ CommitOrAbort(c) \/ DecodeOne(c) \/ DecodeAll(c) \/ Timeout(c)
  \/ \E r \in net :
       \/ InsertOne(r) \/ UpdateOne(r) \/ DeleteOne(r) \/ FindOne(r) \/ Find(r)
       \/ OperationFails(r)
  \/ Finished

Spec == Init /\ [][Next]_vars

-----------------------------------------------------------------------------
(* Properties.                                                           *)

\* A Write, Update or Delete that returns nil has been executed by the
\* server: the callback never turns an operation error into a commit.
OkMeansApplied ==
  \A c \in Callers :
    ret[c].op \in WriteOps /\ ret[c].status = "ok" => ret[c].n \in applied

\* Spec 8: a Read that finds a document returns the payload of the last
\* Write/Update of that key that returned before the Read began.
ReadReturnsLatest ==
  \A c \in Callers :
    ret[c].op = "Read" /\ ret[c].status = "ok" => ret[c].doc.val = ret[c].seen

=============================================================================

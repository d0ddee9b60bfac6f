# TLA+ models of onlyoffice-integration-adapters

This directory holds TLA+ models of the adapters in this repository and the TLC
configurations that check them. `PROJECT.json` lists every component, every
run, the mutants that show each checked property can fail, the map from
definitions to source lines, the findings and the hazards.

## 1. Inventory

The repository is a set of adapters for go-micro services. fx and a bootstrapper
construct them at startup. Each adapter is built from a configuration object.
A configuration object is loaded from YAML and then from the environment, and
is then validated. The parts below are listed with their source.

| Component | Source | State kept | Operations |
|---|---|---|---|
| Option model | `src/storage/storage.go` 37-197 | none (options values built per call) | `ReadFrom`, `ReadKey`, ..., `WriteTTL`, `DeleteFrom`, ...: last applied wins |
| Backend contract and selector | `src/storage/storage.go` 199-236 | the one `RefinedStore` handle | `NewStorage`: pick by `Storage.Type`, `Init`, `log.Fatalln` on error |
| Document (MongoDB) backend | `src/unnamed/part_003` | `options` (DB, nodes); the MongoDB collections are remote | `Init`, `List`, `Read`, `Write`, `Update`, `Delete`, `Options`, `String` |
| In-memory backend | `src/storage/memory.go` | a go-micro memory store | the same, with `Update` = `Write`; not reachable from `NewStorage` |
| No-op backend | `src/unnamed/part_004` (1-79) | none | every operation returns nil |
| Cache facade | `src/cache/cache.go` | a gocache marshaler over a store | `Get`, `Put`, `Delete`, `String`, `NewCache` |
| Local cache (freecache) | `src/unnamed/part_007` 36-47 | a fixed-size freecache ring buffer; default expiration 10 s | through the facade |
| Remote cache (Redis) | `src/cache/redis.go` | a go-redis client; the entries live on the server | through the facade |
| Configuration builders | `src/config/*.go`, `src/unnamed/part_000`, `part_001`, `part_002` (1-132) | one config struct per kind | `BuildNewXConfig(path)`: defaults, YAML decode, env overwrite, `Validate` |
| Broker selector | `src/unnamed/part_006` 1-97 | broker and subscribe options | `NewBroker` |
| Client constructor | `src/unnamed/part_006` 99-145 | none | `NewClient` |
| Event emitter | `src/unnamed/part_005`, `src/unnamed/part_004` 81-134 | gookit's process-global listener table | `On`, `Fire` |
| Crypto | `src/crypto/aes.go`, `src/unnamed/part_007` 49-154, `part_008`, `part_009` 1-51 | none | `Encrypt`, `Decrypt`, `GenerateState`, `Hash`, constructors |
| Functional pipe | `src/unnamed/part_002` 133-187 | the chain of actions | `Next`, `Do` |
| REPL HTTP server | `src/unnamed/part_009` 53-129 | an `http.Server` | `NewService` |

### How the parts interact

Startup is a chain of fx constructors. `BuildNewStorageConfig(path)` returns
a `*StorageConfig` or an error. fx passes the config to `NewStorage`.
`NewStorage` picks the backend by `Storage.Type` and calls `Init`. If `Init`
fails, `NewStorage` ends the process with `log.Fatalln`. The cache goes through
`BuildNewCacheConfig` and `NewCache` in the same way. The broker, the registry,
the worker, the server, the logger, CORS, crypto, the tracer and resilience
each have their own config builder.

After startup, every request handler calls the single storage handle and the
single cache handle directly. Those calls run on the handlers' goroutines. Many
goroutines share each handle, and nothing in the adapters serialises their calls.

### What is hard

* **The MongoDB backend** waits on the network at every call. It runs on many
  goroutines at once. `Delete` replaces the caller's context with a detached
  3-second deadline, so a `Delete` can give up while its request is still on
  the way to the server. `Write`, `Update` and `Delete` open an mgm
  transaction. The callback passes the outer `ctx` to the operation, not the
  session context `sc`, so the operation is not part of the transaction.
  `Write` is an insert, with no key uniqueness. `Update` is `UpdateOne` with no
  upsert, and its match count is ignored. `List` checks the result target only
  after `Find` has opened a cursor.
* **The caches** turn a `time.Duration` TTL into freecache's whole seconds, and
  freecache reads 0 as "never expires". `Put` always passes its own expiration,
  so the 10-second default of `newMemory` is never used. The freecache buffer
  is bounded and evicts entries. Redis is remote, and go-redis times out and
  retries calls.
* **Startup** chains config loading, validation, backend selection and `Init`.
  The fatal exit is part of that chain. Environment values are meant to
  override YAML values, but not every config field does so.

### Properties that make each part correct

The properties below are the ones the runs check (section 4). Each is
checked beside a type invariant.

* MongoDB backend:
  * a write that returns nil has been executed by the server, whatever the
    session, operation and deadline errors of two concurrent callers;
  * a `Read` returns the last written payload (spec §8): violated.
* Storage selector: MongoDB is never initialised with an empty or blank URL,
  over every file and environment.
* Local cache: no hit comes after the deadline the TTL asked for, and an
  entry's value is the one its latest `Put` stored (spec §8); violated for a
  TTL under one second.
* Redis cache: `Delete` followed by `Get` misses (spec §8): violated.
* Config builders: an environment value overrides the YAML value (package
  comment): violated for crypto.
* Crypto: `Decrypt` returns no error only for an authentic text: violated.

## 2. Modules and how they fit together

| Module | Models | Kind |
|---|---|---|
| `MongoStore` (+ `MCMongoStore`) | the MongoDB backend, `unnamed/part_003` | detailed, concurrent |
| `Startup` | `BuildNewStorageConfig`, `BuildNewCacheConfig`, `NewStorage`, `NewCache` | detailed, sequential |
| `CacheContract` | what the cache facade promises (spec 4.4, 4.5, 8) | abstract |
| `FreeCache` | `CustomCache` over the marshaler and freecache | detailed; refines `CacheContract` |
| `MemoryStore` | `memoryStore` over go-micro's memory store | detailed |
| `RedisCache` | `CustomCache` over the marshaler and go-redis (`src/cache/redis.go`) | detailed, concurrent |
| `ConfigBuild` (+ `MCConfigBuild`) | the other nine `BuildNewXConfig` (`src/config/*.go`, tracer in `part_000`, server in `part_002`) | detailed, one call per behaviour |
| `AesEncryptor` (+ `MCAesEncryptor`) | `aesEncryptor` (`src/crypto/aes.go`) | detailed |

`FreeCache` `INSTANCE`s `CacheContract`. The refinement mapping sends each
live entry to the contract's entry, with the deadline that the caller's TTL
asked for (a ghost variable), and the contract's `Spec` is checked as a
`PROPERTY`. There the deadline is computed by the repository's own code
(`int(d.Seconds())` in `Put`), so the check is about that code. For Redis and
the memory store the deadline is set by the library (the Redis server,
go-micro and go-cache) from the duration the adapter passes unchanged, so a
refinement there would check the library's model against itself; those
modules have none. `Startup` ends where the handles that the other modules
start from are created.
`ConfigBuild` covers the builders that `Startup` does not: logger,
resilience, messaging (broker), worker, registry, CORS, crypto, tracer and
server.

Remaining plan, in order:

1. `Pipe`: `Pipe.Do` as a RECURSIVE operator, checked against a reference
   fold.

The project keeps at most twelve runs. Each new module has to take the place
of the weakest current violation run.

## 3. The modules

### MongoStore (`src/unnamed/part_003`)

The state has the following variables:

* `coll`: the collection, as a sequence of `[key, val]` documents in natural
  order. The filter field is `key`. Natural order is modelled as insertion
  order.
* `pc`, `call`, `reply` and `ret`: each caller's position in its call, the call
  (the options after they are applied), the server's reply, and what the call
  returned.
* `net`: requests on their way to the server. A request stays there after its
  caller has given up.
* `cursors`: server cursors left open.
* `applied` and `latest`: ghost state for the properties.

There is one action per operation: `List`, `Read`, `Write`, `Update` and
`Delete`. Writes then go through `BeginTransaction` or `TransactionFails`
(`mgm.TransactionWithCtx`). The server executes a request with `InsertOne`,
`UpdateOne`, `DeleteOne`, `FindOne` or `Find`, or the request fails with
`OperationFails`. The caller then returns through `CommitOrAbort`, `DecodeOne`,
`DecodeAll` or `Timeout`.

`Delete` always carries its own 3 s deadline (`part_003:157`). Other calls
carry a deadline only when the caller's context has one (`CallerDeadline`).
The operation runs with `ctx`, not the session context `sc`. The model
therefore lets the server execute it independently of the session, including
after the caller has timed out. A `Find` whose result exceeds `BatchSize`
leaves a cursor open until `cur.All` drains it. There is one collection,
because `Table` only selects an independent collection, and the backend
ignores `Database`.

No liveness is checked, so the specification has no fairness. The only call
that always returns is `Delete`, and only because of its fixed 3 s deadline;
the other calls wait forever on a stalled server when the caller's context has
no deadline. `Finished` is the terminal stutter once `MaxCalls` calls have
returned.

### Startup

Startup is one sequential pass, because fx runs the constructors one after
another.

* Each builder action is a whole `BuildNewXConfig` call. It runs in this
  order:
  * defaults;
  * `os.Open` (a missing file is an error);
  * `yaml.Decode` (an empty or malformed file is an error);
  * `envconfig.Process` (a non-integer type is an error);
  * `Validate`.
* `NewStorage` picks `mongo` for type 1 and `empty` otherwise, then calls
  `Init`. For the empty store, `Init` always succeeds. For mongo, `Init` fails
  for an empty or scheme-less URL, and may fail on connect. On failure,
  `NewStorage` exits the process.
* `NewCache` never fails.

A string is abstracted to its body plus a flag for surrounding blanks. That is
exactly what `strings.TrimSpace` and `== ""` distinguish. The environment is
chosen once, in `Init`. The file contents are chosen by each builder.

### FreeCache and CacheContract

Time is counted in ticks of half a second, so that sub-second TTLs exist.

* freecache's clock is `Seconds(now)`.
* `Put` stores `expireAt = Seconds(now) + int(d.Seconds())`, or 0 ("never")
  when that TTL is 0.
* `Get` treats an entry with `expireAt <= Seconds(now)` as missing and
  removes it.
* A new key in a full buffer evicts some other entry. Capacity is counted in
  entries, and `Capacity = 1` with two keys makes eviction happen.
* `Put` of a value msgpack cannot encode (a `chan`) fails and changes nothing.

`CacheContract` allows an entry to disappear at any time, through eviction or
early expiry. It forbids a hit once the entry's deadline has passed.

### MemoryStore

A record is kept as its value and its go-cache expiration (0 means never).
The adapter always passes options, so go-micro copies the record and then
sets its duration (`ExpiryOf`):

* the record's own `Expiry` first;
* `time.Until(WriteExpiry)` over it, if an expiry is set;
* `WriteTTL` over both, if it is non-zero.

go-cache keeps a non-positive duration forever (`Expiration`). `Read` and
`List` query the store first and decode afterwards, so a miss is `NotFound`
even without a target.

### ConfigBuild

The builders share no state, so a behaviour is one call of one builder:
`Init` picks the builder from `Builders` and `Build(c)` picks its inputs. The
call runs in the code's order:

* the struct literal's defaults (`Defaults`);
* `os.Open`, where a missing file is an error;
* yaml.v2 `Decode`, where an undecodable file is an error. A key that is absent
  keeps its field. A key with no value, or a section with no value, sets the
  zero value, and a null section zeroes the whole nested struct (`Node`);
* go-envconfig `Process`. A field whose tag has `overwrite` takes a set
  variable. A field without it keeps a non-zero value and skips the lookup,
  so a malformed value is ignored too. A malformed value on a field that is
  applied is an error (`Applies`, `Process`);
* `Validate`. `BuildNewCryptoConfig` returns nil instead, and
  `TracerConfig.Validate` always returns nil. `ServerConfig.Validate` first
  trims its four names in the struct itself (`Validated`), then reports the
  first empty one in the order Namespace, Name, Address, Repl Address
  (`ValidateServer`). The config it returns is the trimmed one.

Each struct is a table of its leaf fields, with the Go kind and the envconfig
tag. A field's YAML input is absent, null, the zero value or a non-zero value.
Its environment input is unset, malformed, the zero value or a non-zero value.
`Varied` names the fields whose inputs are explored; the others keep an
absent key and an unset variable. The chosen fields are those that
`Validate` reads, those with a non-zero default, and the fields whose tags
differ. For the server these are the four names `Validate` trims and checks;
any one left unset would make every server call fail at that name.

A string input is a non-blank value or a blank one. `EnvOverridesYaml` is
checked only for crypto, where it fails. It does not hold for the server
either: a padded name such as `" svc "` comes back trimmed. That input is
outside the two string values, so no run shows it.

### RedisCache

Each caller is idle or waiting on one call (`pc`, `call`). `Put`, `Get` and
`Delete` write a command to the network (`net`, a set of requests, each
with the caller still reading its connection). The server executes any
request at any time, or never (`Execute`): `SET` stores the value with the
deadline `now + d`, `GET` answers with a live value or nil, `DEL` removes.
The reply reaches the caller's current connection only. `Return` hands the
reply back; a nil `GET` reply is the not-found error. `Timeout` is the
read deadline: go-redis closes the connection (`Orphan`) and sends the
command again while attempts remain, then returns the timeout error. The
abandoned requests stay in `net`.

The server may execute a request at any time, or never. No liveness is
checked, so the specification has no fairness.

### AesEncryptor

A key is a byte sequence. `Normalise` copies it into a zeroed buffer of
`KeyLen` bytes, as `copy(validKey, key)` does into 32 bytes. AES-GCM is taken
as ideal: a text opens exactly when its bytes are unchanged and its sealing
key, after normalisation, equals the key given. A text records the nonce,
the raw key, the plaintext and whether it is intact. `Alter` changes a
stored text's bytes. `Decrypt` is also given a text that is not base64
(`Junk`) and one shorter than a nonce (`Short`). `EncryptFails` is the
`io.ReadFull(rand.Reader, ...)` error. `aes.NewCipher` and `cipher.NewGCM`
cannot fail on a 32-byte key, so those branches are left out.

## 4. Runs

| Run | Expect | Bounds | What it shows |
|---|---|---|---|
| `mongo_safety` | pass | 2 callers, 1 key, 3 calls, deadlines on/off (872K states) | a nil return from a write means the server applied it |
| `mongo_roundtrip` | violation | 1 caller, 2 payloads | a second `Write` of a key inserts a duplicate; `Read` returns the first |
| `startup_safety` | pass | 3 hosts (empty, valid, scheme-less), 4 file kinds, every env (16K states) | mongo never gets an empty or blank URL |
| `freecache_contract` | pass | 2 keys, capacity 1, TTL 1 s and 2 s, 3 s of time | the facade refines `CacheContract` |
| `freecache_subsecond_ttl` | violation | TTL 0.5 s | the entry never expires |
| `memory_safety` | pass | 2 keys, 2 values, WriteTTL 0 or 2, WriteExpiry 1, record Expiry 0 or 2, 3 ticks (3.9K states) | every result is well-typed; a non-record payload is refused |
| `config_safety` | pass | all 9 builders, ints {0, 1}, 2-4 varied fields each (110K states) | every builder returns a well-typed struct or nil, with one of its errors |
| `config_crypto_env` | violation | crypto builder, both type fields varied | `ENCRYPTOR_TYPE` is ignored when the YAML sets a non-zero type: the tags lack `overwrite` |
| `redis_contract` | pass | 2 callers, 1 key, 2 values, TTL 1 tick, 2 attempts, 3 calls, 2 ticks (276K states) | calls, retries and attempts stay within go-redis's limit |
| `redis_delete_then_get` | violation | 1 caller, 2 attempts, 3 calls | a timed-out `Put`'s abandoned `SET` runs after the caller's `Delete`; the next `Get` hits |
| `aes_roundtrip` | pass | 4 keys of 1-3 bytes, key length 2, 2 plaintexts, 2 nonces | every result is well-typed; a short buffer is rejected before slicing |
| `aes_tamper` | violation | as above | an altered text, or one under another key, decrypts to "" with no error |

Every property of a passing run has a mutant in `PROJECT.json`. A mutant is a
plausible bug in the definition that models the code, and TLC finds the
property violated with the mutant in place. The bounds are the smallest that
still contain each hazard's scenario. Some examples:

* `mongo_safety` needs three calls, so that a timed-out write can have its
  request executed while the other caller is mid-call.
* `freecache_contract` needs two keys and capacity 1 for eviction, and an odd
  tick count for early expiry.
* `redis_delete_then_get` needs two attempts for an abandoned request, and
  a TTL of one tick inside two ticks so that keys expire. The go-redis
  default of four attempts adds no new order of events.
* `aes_roundtrip` scales the 32-byte key to 2 bytes. Its keys are shorter
  than, equal to and longer than that length, and two of them differ only
  past it or in padding, so truncation and zero-padding both happen.
* `config_safety` takes ints from {0, 1}: zero against non-zero is all that
  yaml, envconfig and `Validate` distinguish.

Four disagreements found while modelling are kept as hazard notes rather than
runs, to stay within twelve runs:

* the registry's default `Type` is 0, not the documented value, and
  `Validate` then requires addresses (`config/registry.go:62`);
* resilience sets `Timeout` 5000, which differs from the documented default
  (`config/resilience.go:56`);
* a YAML section left empty (`rate_limiter:`) zeroes the defaults set
  before decoding (`config/resilience.go:66`);
* MongoDB's `Delete` returns its 3-second deadline error while its
  `DeleteOne` can still run afterwards (`part_003:157`), against spec §7.

The same holds for the MongoDB `List` cursor left open without a target
(bounded by the server's idle-cursor timeout) and for the spec's rule that the
no-op store needs no URL.

## 5. Assumptions about libraries

Several behaviours belong to libraries rather than this repository:

* mgm, the mongo driver: `ctx`, not `sc`, is outside the session.
  `InsertOne` does not upsert. `FindOne` returns the first match.
* gocache: `WithExpiration` overrides the store default.
* freecache: whole seconds, with 0 meaning never. Lazy expiry.
* msgpack v5: a value decodes back to the one `Put` stored, for the
  payloads modelled.
* go-micro memory store, go-cache: a non-positive duration never expires.
* yaml.v2: an empty file gives `io.EOF`. An absent key keeps the field. A
  null node sets the zero value, and a null mapping zeroes the nested struct.
* go-envconfig: without `overwrite`, a non-zero field is kept and its
  variable is not read. With it, a set variable replaces the field.
* go-redis v9: a read deadline on each reply and `MaxRetries` 3 by default. A
  command whose read timed out is retried on a new connection, and the old
  connection is closed with its request possibly still unexecuted. `SET ...
  PX` gives the server the exact duration.
* AES-GCM: ideal authenticated encryption. crypto/rand nonces are fresh.

The model encodes each of these as stated, and each is marked in the module
comments.

## 6. Not modelled, and why

* Pipe: planned (section 2). The project's twelve runs are all in use; a
  `Pipe` run must take the place of the weakest violation run.
* The Redis server's own failures (out of memory, failover): the model has
  the server execute each request or never, and answer or not.
* Broker, client and REPL server: wiring of go-micro plugins and HTTP handlers,
  with no state of their own beyond the config.
* The event emitter: it registers listeners in gookit's global table (a
  hazard in `PROJECT.json`), but it has no logic of its own beyond
  delegating.
* The JWT manager: its implementation is not in this repository. The MD5
  hasher and the state generator are pure functions of their input and of
  crypto/rand, with no state or control to check.
* The no-op store beyond its `Init`: every method returns nil and touches
  nothing.
* Numeric width of `int64(ops.Offset)`, the freecache byte size and the entry
  size limit: they matter only at sizes the model does not reach (see the
  hazards).

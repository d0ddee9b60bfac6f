------------------------------- MODULE Startup -------------------------------
(***************************************************************************)
(* Startup of the storage and cache handles.  fx runs the constructors one *)
(* after another in dependency order:                                      *)
(*   BuildNewStorageConfig (unnamed/part_001), BuildNewCacheConfig         *)
(*   (config/cache.go), NewStorage (storage/storage.go), NewCache          *)
(*   (cache/cache.go).                                                     *)
(* A constructor that returns an error stops the fx application, and       *)
(* NewStorage ends the process itself with log.Fatalln when Init fails.    *)
(* Startup is sequential.  What varies is the input: the YAML file, the    *)
(* environment, and whether the driver accepts the URL.  These are chosen  *)
(* nondeterministically, each within a small set.                          *)
(*                                                                         *)
(* A string field is abstracted to its body and whether blanks surround    *)
(* it, which is all that strings.TrimSpace and the == "" checks tell       *)
(* apart.                                                                  *)
(***************************************************************************)
EXTENDS Naturals

CONSTANTS
  Hosts,      \* bodies a URL or an address may have; "" is the empty body
  BadHosts,   \* bodies that mongo's ApplyURI rejects (no mongodb:// scheme)
  Unset,      \* a YAML key or an environment variable that is absent
  NotInt      \* an environment value that does not parse as an int

ASSUME "" \in Hosts /\ BadHosts \subseteq Hosts \ {""}

Str == [pad : BOOLEAN, body : Hosts]

\* strings.TrimSpace
TrimSpace(s) == [pad |-> FALSE, body |-> s.body]

\* s == "" in Go: no body and no blanks around it
IsEmpty(s) == ~s.pad /\ s.body = ""

Types == {0, 1, 2}

Maybe(S) == S \cup {Unset}

\* The YAML path: "" (no file), a path that does not open, a file the
\* decoder rejects (an empty file gives io.EOF), or a file that decodes.
Files == {"nopath", "missing", "undecodable", "yaml"}

Stages == {"storageConfig", "cacheConfig", "newStorage", "newCache", "serving", "aborted"}

StorageCfg == [type : Types, url : Str]
CacheCfg   == [type : Types, address : Str]
EnvIn      == [stype : Maybe(Types \cup {NotInt}), url : Maybe(Str),
               ctype : Maybe(Types \cup {NotInt}), address : Maybe(Str)]

Blank == [pad |-> FALSE, body |-> ""]

VARIABLES
  stage,       \* the constructor fx runs next, or how startup ended
  reason,      \* the error that stopped startup
  storageCfg,  \* the *StorageConfig handed to NewStorage
  cacheCfg,    \* the *CacheConfig handed to NewCache
  env,         \* the environment variables (fixed for the process)
  store,       \* the RefinedStore NewStorage picked and what Init was given
  cache        \* the cache NewCache picked and its address

vars == <<stage, reason, storageCfg, cacheCfg, env, store, cache>>

NoStore == [kind |-> "none", url |-> Blank, ok |-> FALSE]
NoCache == [kind |-> "none", address |-> Blank]

TypeOK ==
  /\ stage \in Stages
  /\ reason \in {"none", "FileError", "DecodeError", "EnvError", "URL", "Address", "InitError"}
  /\ storageCfg \in StorageCfg
  /\ cacheCfg \in CacheCfg
  /\ env \in EnvIn
  /\ store \in [kind : {"none", "mongo", "empty"}, url : Str, ok : BOOLEAN]
  /\ cache \in [kind : {"none", "freecache", "redis"}, address : Str]

Init ==
  /\ stage = "storageConfig"
  /\ reason = "none"
  /\ storageCfg = [type |-> 0, url |-> Blank]
  /\ cacheCfg = [type |-> 0, address |-> Blank]
  /\ env \in EnvIn
  /\ store = NoStore
  /\ cache = NoCache

Abort(r) == stage' = "aborted" /\ reason' = r

\* yaml.Decoder.Decode sets the keys present in the file
Decode(cur, y) == IF y = Unset THEN cur ELSE y

\* envconfig.Process on a field tagged `,overwrite`
ProcessEnvStorage(c, e) ==
  [type |-> IF e.stype # Unset THEN e.stype ELSE c.type,
   url  |-> IF e.url # Unset THEN e.url ELSE c.url]

ProcessEnvCache(c, e) ==
  [type    |-> IF e.ctype # Unset THEN e.ctype ELSE c.type,
   address |-> IF e.address # Unset THEN e.address ELSE c.address]

\* StorageConfig.Validate checking the URL before trimming it
ValidateStorageUntrimmed(c) ==
  [cfg |-> [c EXCEPT !.url = TrimSpace(c.url)],
   err |-> CASE c.type = 1 -> IF IsEmpty(c.url) THEN "URL" ELSE "none"
             [] OTHER      -> IF IsEmpty(c.url) THEN "URL" ELSE "none"]

\* StorageConfig.Validate: trim URL, then both branches require a URL
ValidateStorage(c) ==
  LET t == [c EXCEPT !.url = TrimSpace(c.url)]
  IN [cfg |-> t,
      err |-> CASE t.type = 1 -> IF IsEmpty(t.url) THEN "URL" ELSE "none"
                [] OTHER      -> IF IsEmpty(t.url) THEN "URL" ELSE "none"]

\* CacheConfig.Validate: only Redis needs an address, compared untrimmed
ValidateCache(c) ==
  IF c.type = 2 /\ IsEmpty(c.address) THEN "Address" ELSE "none"

\* A loader that lets an unparsable environment value through
LoadErrorLenient(f, envType) ==
  CASE f = "missing"     -> "FileError"
    [] f = "undecodable" -> "DecodeError"
    [] OTHER             -> "none"

\* The steps every BuildNewXConfig takes before Validate: open, decode,
\* then envconfig.Process; envconfig rejects a non-int for an int field.
LoadError(f, envType) ==
  CASE f = "missing"     -> "FileError"
    [] f = "undecodable" -> "DecodeError"
    [] envType = NotInt  -> "EnvError"
    [] OTHER             -> "none"

BuildNewStorageConfig ==
  /\ stage = "storageConfig"
  /\ \E f \in Files, yt \in Maybe(Types), yu \in Maybe(Str) :
       LET decoded == IF f = "yaml"
                        THEN [type |-> Decode(0, yt), url |-> Decode(Blank, yu)]
                        ELSE [type |-> 0, url |-> Blank]
           v == ValidateStorage(ProcessEnvStorage(decoded, env))
       IN \/ /\ LoadError(f, env.stype) # "none"
             /\ Abort(LoadError(f, env.stype))
             /\ UNCHANGED storageCfg
          \/ /\ LoadError(f, env.stype) = "none"
             /\ storageCfg' = v.cfg
             /\ IF v.err = "none" THEN stage' = "cacheConfig" /\ reason' = "none"
                                  ELSE Abort(v.err)
  /\ UNCHANGED <<cacheCfg, env, store, cache>>

BuildNewCacheConfig ==
  /\ stage = "cacheConfig"
  /\ \E f \in Files, yt \in Maybe(Types), ya \in Maybe(Str) :
       LET decoded == IF f = "yaml"
                        THEN [type |-> Decode(0, yt), address |-> Decode(Blank, ya)]
                        ELSE [type |-> 0, address |-> Blank]
           c == ProcessEnvCache(decoded, env)
       IN \/ /\ LoadError(f, env.ctype) # "none"
             /\ Abort(LoadError(f, env.ctype))
             /\ UNCHANGED cacheCfg
          \/ /\ LoadError(f, env.ctype) = "none"
             /\ cacheCfg' = c
             /\ IF ValidateCache(c) = "none" THEN stage' = "newStorage" /\ reason' = "none"
                                             ELSE Abort(ValidateCache(c))
  /\ UNCHANGED <<storageCfg, env, store, cache>>

\* What Init can return.  The empty store always succeeds.  mgm builds a
\* client from Nodes[0] and connects: ApplyURI rejects an empty or
\* scheme-less URI, and Connect may still fail (DNS, TLS).
InitResults(kind, url) ==
  CASE kind = "empty"                     -> {TRUE}
    [] IsEmpty(url) \/ url.body \in BadHosts -> {FALSE}
    [] OTHER                            -> BOOLEAN

\* NewStorage: pick by Storage.Type, Init with DB and URL, exit on error
NewStorage ==
  /\ stage = "newStorage"
  /\ LET kind == IF storageCfg.type = 1 THEN "mongo" ELSE "empty"
     IN \E ok \in InitResults(kind, storageCfg.url) :
          /\ store' = [kind |-> kind, url |-> storageCfg.url, ok |-> ok]
          /\ IF ok THEN stage' = "newCache" /\ UNCHANGED reason
                   ELSE Abort("InitError")
  /\ UNCHANGED <<storageCfg, cacheCfg, env, cache>>

\* NewCache: Redis for type 2, freecache otherwise; neither connects here
NewCache ==
  /\ stage = "newCache"
  /\ cache' = [kind |-> IF cacheCfg.type = 2 THEN "redis" ELSE "freecache",
               address |-> cacheCfg.address]
  /\ stage' = "serving"
  /\ UNCHANGED <<reason, storageCfg, cacheCfg, env, store>>

\* Startup is over: the process serves or has exited
Done ==
  /\ stage \in {"serving", "aborted"}
  /\ UNCHANGED vars

Next ==
  \/ BuildNewStorageConfig
  \/ BuildNewCacheConfig
  \/ NewStorage
  \/ NewCache
  \/ Done

Spec == Init /\ [][Next]_vars

-----------------------------------------------------------------------------
(* Properties *)

\* Storage type 1 with a URL that is empty or all blanks fails validation
\* before any connection attempt: the mongo driver is never handed an
\* empty URL (spec 8).  Relies on Validate trimming before it checks.
MongoNeverBlankURL ==
  store.kind = "mongo" => ~IsEmpty(store.url)

=============================================================================

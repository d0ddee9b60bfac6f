----------------------------- MODULE ConfigBuild -----------------------------
(***************************************************************************)
(* The configuration builders of package config other than storage and    *)
(* cache (modelled in Startup): logger, resilience, messaging, worker,     *)
(* registry, CORS, crypto, tracer and server.  Every BuildNewXConfig runs  *)
(* the same steps:                                                         *)
(*   1. set the code defaults on a zero struct;                            *)
(*   2. if a path is given, os.Open it and yaml.v2-decode it into the      *)
(*      struct;                                                            *)
(*   3. envconfig.Process the struct;                                      *)
(*   4. return the struct with Validate's error (crypto returns nil).      *)
(*      ServerConfig.Validate trims its four names in the struct first.    *)
(* The inputs are the YAML document, given as the state of each section    *)
(* and key, and the environment.  A builder returns the first error, and   *)
(* fx then stops.  Builders share no state and each reads only its own    *)
(* section and variables, so the model is one builder call: the initial   *)
(* state picks the builder, and the call picks the inputs.                 *)
(*                                                                         *)
(* Library semantics taken as given:                                       *)
(*  - yaml.v2 sets only the keys present in a mapping.  It sets the zero   *)
(*    value for a null node ("key:" with nothing after it), and for a      *)
(*    section that is null this zeroes the whole nested struct.            *)
(*  - go-envconfig skips a field whose tag lacks "overwrite" once it is    *)
(*    non-zero, before it even looks the variable up.  Otherwise it        *)
(*    parses a set variable into the field, and a parse error is           *)
(*    returned.                                                            *)
(***************************************************************************)
EXTENDS Naturals, Sequences, FiniteSets, TLC

CONSTANTS
  Builders,    \* the builders whose calls are explored: a set of config names
  Varied,      \* [config -> fields whose YAML key and variable are explored]
  IntInputs,   \* integers a YAML file or a variable may give
  Absent,      \* a YAML key or section that is not in the file
  Null,        \* a YAML key or section present with no value
  Unset,       \* an environment variable that is not set
  Malformed    \* a variable that does not parse as the field's type

Map == "map"   \* a YAML section present with keys under it

\* A field: its YAML path of sections, its Go kind, its env tag
F(path, kind, tag) == [path |-> path, kind |-> kind, tag |-> tag]

LoggerConfig ==
     "Name" :> F(<<"logger">>, "str", "overwrite")
  @@ "Level" :> F(<<"logger">>, "int", "overwrite")
  @@ "Pretty" :> F(<<"logger">>, "bool", "overwrite")
  @@ "Color" :> F(<<"logger">>, "bool", "overwrite")
  @@ "File.Filename" :> F(<<"logger", "file">>, "str", "overwrite")
  @@ "File.MaxSize" :> F(<<"logger", "file">>, "int", "overwrite")
  @@ "File.MaxAge" :> F(<<"logger", "file">>, "int", "overwrite")
  @@ "File.MaxBackups" :> F(<<"logger", "file">>, "int", "overwrite")
  @@ "File.LocalTime" :> F(<<"logger", "file">>, "bool", "none")
  @@ "File.Compress" :> F(<<"logger", "file">>, "bool", "overwrite")
  @@ "Elastic.Address" :> F(<<"logger", "elastic">>, "str", "overwrite")
  @@ "Elastic.Index" :> F(<<"logger", "elastic">>, "str", "overwrite")
  @@ "Elastic.Level" :> F(<<"logger", "elastic">>, "int", "overwrite")
  @@ "Elastic.Bulk" :> F(<<"logger", "elastic">>, "bool", "overwrite")
  @@ "Elastic.Async" :> F(<<"logger", "elastic">>, "bool", "overwrite")
  @@ "Elastic.HealthcheckEnabled" :> F(<<"logger", "elastic">>, "bool", "overwrite")
  @@ "Elastic.BasicAuthUsername" :> F(<<"logger", "elastic">>, "str", "overwrite")
  @@ "Elastic.BasicAuthPassword" :> F(<<"logger", "elastic">>, "str", "overwrite")
  @@ "Elastic.GzipEnabled" :> F(<<"logger", "elastic">>, "bool", "overwrite")

ResilienceConfig ==
     "RateLimiter.Limit" :> F(<<"resilience", "rate_limiter">>, "int", "overwrite")
  @@ "RateLimiter.IPLimit" :> F(<<"resilience", "rate_limiter">>, "int", "overwrite")
  @@ "CircuitBreaker.Timeout" :> F(<<"resilience", "circuit_breaker">>, "int", "overwrite")
  @@ "CircuitBreaker.MaxConcurrent" :> F(<<"resilience", "circuit_breaker">>, "int", "overwrite")
  @@ "CircuitBreaker.VolumeThreshold" :> F(<<"resilience", "circuit_breaker">>, "int", "overwrite")
  @@ "CircuitBreaker.SleepWindow" :> F(<<"resilience", "circuit_breaker">>, "int", "overwrite")
  @@ "CircuitBreaker.ErrorPercentThreshold" :> F(<<"resilience", "circuit_breaker">>, "int", "overwrite")

BrokerConfig ==
     "Enable" :> F(<<"messaging">>, "bool", "overwrite")
  @@ "Addrs" :> F(<<"messaging">>, "list", "overwrite")
  @@ "Type" :> F(<<"messaging">>, "int", "overwrite")
  @@ "DisableAutoAck" :> F(<<"messaging">>, "bool", "overwrite")
  @@ "Durable" :> F(<<"messaging">>, "bool", "overwrite")
  @@ "AckOnSuccess" :> F(<<"messaging">>, "bool", "overwrite")
  @@ "RequeueOnError" :> F(<<"messaging">>, "bool", "overwrite")

WorkerConfig ==
     "Enable" :> F(<<"worker">>, "bool", "overwrite")
  @@ "Type" :> F(<<"worker">>, "int", "overwrite")
  @@ "MaxConcurrency" :> F(<<"worker">>, "int", "overwrite")
  @@ "RedisAddresses" :> F(<<"worker">>, "list", "overwrite")
  @@ "RedisUsername" :> F(<<"worker">>, "str", "overwrite")
  @@ "RedisPassword" :> F(<<"worker">>, "str", "overwrite")
  @@ "RedisDatabase" :> F(<<"worker">>, "int", "overwrite")

\* CacheTTL is a time.Duration, counted here in seconds
RegistryConfig ==
     "Addresses" :> F(<<"registry">>, "list", "overwrite")
  @@ "CacheTTL" :> F(<<"registry">>, "int", "overwrite")
  @@ "Type" :> F(<<"registry">>, "int", "overwrite")

CORSConfig ==
     "AllowedOrigins" :> F(<<"cors">>, "list", "overwrite")
  @@ "AllowedMethods" :> F(<<"cors">>, "list", "overwrite")
  @@ "AllowedHeaders" :> F(<<"cors">>, "list", "overwrite")
  @@ "AllowCredentials" :> F(<<"cors">>, "bool", "overwrite")

\* The env tags of CryptoConfig have no ",overwrite"
CryptoConfig ==
     "EncryptorType" :> F(<<"crypto">>, "int", "keep")
  @@ "JwtManagerType" :> F(<<"crypto">>, "int", "keep")
  @@ "HasherType" :> F(<<"crypto">>, "int", "keep")

\* FractionRatio is a float64; IntInputs stand for the values it takes
TracerConfig ==
     "Name" :> F(<<"tracer">>, "str", "overwrite")
  @@ "Enable" :> F(<<"tracer">>, "bool", "overwrite")
  @@ "Address" :> F(<<"tracer">>, "str", "overwrite")
  @@ "TracerType" :> F(<<"tracer">>, "int", "overwrite")
  @@ "FractionRatio" :> F(<<"tracer">>, "float", "overwrite")

\* ServerConfig has no section: its keys are at the top of the file
ServerConfig ==
     "Namespace" :> F(<<>>, "str", "overwrite")
  @@ "Name" :> F(<<>>, "str", "overwrite")
  @@ "Version" :> F(<<>>, "str", "overwrite")
  @@ "Address" :> F(<<>>, "str", "overwrite")
  @@ "ReplAddress" :> F(<<>>, "str", "overwrite")
  @@ "Debug" :> F(<<>>, "bool", "overwrite")

Schema == [logger |-> LoggerConfig, resilience |-> ResilienceConfig,
           messaging |-> BrokerConfig, worker |-> WorkerConfig,
           registry |-> RegistryConfig, cors |-> CORSConfig, crypto |-> CryptoConfig,
           tracer |-> TracerConfig, server |-> ServerConfig]

Configs == DOMAIN Schema

ASSUME /\ Builders \subseteq Configs
       /\ \A c \in Configs : Varied[c] \subseteq DOMAIN Schema[c]
-----------------------------------------------------------------------------
(* Defaults each builder sets before decoding *)

LoggerDefaults == [Name |-> "unknown", Level |-> 4]

ResilienceDefaults ==
     "RateLimiter.Limit" :> 3000
  @@ "RateLimiter.IPLimit" :> 20
  @@ "CircuitBreaker.Timeout" :> 5000

WorkerDefaults == [MaxConcurrency |-> 3]

RegistryDefaults == [CacheTTL |-> 10]

CORSDefaults == [AllowedOrigins |-> <<"*">>, AllowedMethods |-> <<"*">>,
                 AllowedHeaders |-> <<"*">>]

TracerDefaults == [FractionRatio |-> 1]

Defaults == [logger |-> LoggerDefaults, resilience |-> ResilienceDefaults,
             messaging |-> <<>>, worker |-> WorkerDefaults,
             registry |-> RegistryDefaults, cors |-> CORSDefaults, crypto |-> <<>>,
             tracer |-> TracerDefaults, server |-> <<>>]

Kind(c, f) == Schema[c][f].kind

Zero(k) == CASE k = "bool" -> FALSE [] k \in {"int", "float"} -> 0 [] k = "str" -> ""
             [] k = "list" -> <<>>

GoType(k) == CASE k = "bool" -> BOOLEAN [] k \in {"int", "float"} -> Nat [] k = "str" -> STRING
               [] k = "list" -> Seq(STRING)

Blank == " "   \* a string of white space only

\* Values a YAML key or a variable may give a field of kind k
Given(k) == CASE k = "bool" -> BOOLEAN [] k \in {"int", "float"} -> IntInputs
               [] k = "str" -> {"s", Blank} [] k = "list" -> {<<>>, <<"a">>}

Sections(c) == UNION {{Schema[c][f].path[i] : i \in DOMAIN Schema[c][f].path} : f \in DOMAIN Schema[c]}

Files == {"nopath", "missing", "undecodable", "yaml"}

YamlIn(c, f) == {Absent, Null} \cup Given(Kind(c, f))

\* A set variable holds a value of the field's type, or text that does not
\* parse as one (any text is a string); an untagged field reads no variable
EnvIn(c, f) ==
  CASE Schema[c][f].tag = "none" -> {Unset}
    [] Kind(c, f) = "str"         -> {Unset} \cup Given("str")
    [] Kind(c, f) = "list"        -> {Unset, <<"a">>}
    [] OTHER                      -> {Unset, Malformed} \cup Given(Kind(c, f))

\* Extend a choice for the varied fields with `none` for the others
Total(c, g, none) == [f \in DOMAIN Schema[c] |-> IF f \in Varied[c] THEN g[f] ELSE none]

RECURSIVE Choices(_)
\* Every function on DOMAIN S that picks an element of S[f] for each f
Choices(S) ==
  IF DOMAIN S = {} THEN {<<>>}
  ELSE LET f == CHOOSE f \in DOMAIN S : TRUE
       IN {g @@ (f :> v) : g \in Choices([x \in DOMAIN S \ {f} |-> S[x]]), v \in S[f]}

Inputs(c) ==
  LET V == Varied[c]
      Yk == Choices([f \in V |-> YamlIn(c, f)])
      Ev == Choices([f \in V |-> EnvIn(c, f)])
      NoYaml == [ys |-> [s \in Sections(c) |-> Absent], yk |-> Total(c, [f \in V |-> Absent], Absent)]
      Yaml == {[ys |-> s, yk |-> Total(c, g, Absent)] :
                 s \in [Sections(c) -> {Absent, Null, Map}], g \in Yk}
      Docs(fl) == IF fl = "yaml" THEN Yaml ELSE {NoYaml}
  IN UNION {{[file |-> fl, ys |-> y.ys, yk |-> y.yk, ev |-> Total(c, e, Unset)] :
               y \in Docs(fl), e \in Ev} : fl \in Files}

\* The YAML node that decides field f: the first section on its path that
\* is not a mapping, else the field's own key
Node(c, f, ys, yk) ==
  LET p == Schema[c][f].path
      stops == {i \in DOMAIN p : ys[p[i]] # Map}
  IN IF stops = {} THEN yk[f]
     ELSE ys[p[CHOOSE i \in stops : \A j \in stops : i <= j]]

\* A decoder that stores a null node as it is
DecodeNullAsValue(c, f, v, ys, yk) ==
  IF Node(c, f, ys, yk) = Absent THEN v ELSE Node(c, f, ys, yk)

\* yaml.v2 Decode into the defaulted struct: an absent key keeps the field,
\* a null node zeroes it, a value replaces it
Decode(c, f, v, ys, yk) ==
  CASE Node(c, f, ys, yk) = Absent -> v
    [] Node(c, f, ys, yk) = Null   -> Zero(Kind(c, f))
    [] OTHER                      -> Node(c, f, ys, yk)

\* go-envconfig on one field: does it look the variable up and set it?
Applies(c, f, v, ev) ==
  /\ Schema[c][f].tag # "none"
  /\ ev[f] # Unset
  /\ Schema[c][f].tag = "overwrite" \/ v = Zero(Kind(c, f))

\* envconfig.Process on one field
Process(c, f, v, ev) == IF Applies(c, f, v, ev) THEN ev[f] ELSE v

\* BrokerConfig.Validate: an enabled broker of a remote type needs addresses
ValidateBroker(v) ==
  IF v["Enable"] /\ Len(v["Addrs"]) = 0 /\ v["Type"] > 0 THEN "Addrs" ELSE "none"

\* WorkerConfig.Validate: an enabled worker needs a Redis address
ValidateWorker(v) ==
  IF v["Enable"] /\ Len(v["RedisAddresses"]) < 1 THEN "Worker address" ELSE "none"

\* RegistryConfig.Validate: every type but Kubernetes needs addresses
ValidateRegistry(v) ==
  IF v["Type"] # 1 /\ Len(v["Addresses"]) <= 0 THEN "Addresses" ELSE "none"

\* strings.TrimSpace
TrimSpace(v) == IF v = Blank THEN "" ELSE v

\* The fields ServerConfig.Validate trims, in the order it checks them,
\* with the Parameter of its error
ServerChecks == <<[f |-> "Namespace", err |-> "Namespace"], [f |-> "Name", err |-> "Name"],
                  [f |-> "Address", err |-> "Address"], [f |-> "ReplAddress", err |-> "Repl Address"]>>

ServerTrimmed == {ServerChecks[i].f : i \in DOMAIN ServerChecks}

\* ServerConfig.Validate: the first of the trimmed names that is empty
ValidateServer(v) ==
  LET empty == {i \in DOMAIN ServerChecks : TrimSpace(v[ServerChecks[i].f]) = ""}
  IN IF empty = {} THEN "none"
     ELSE ServerChecks[CHOOSE i \in empty : \A j \in empty : i <= j].err

\* Logger, resilience, CORS and tracer Validate return nil; crypto has none
Validate(c, v) ==
  CASE c = "messaging" -> ValidateBroker(v)
    [] c = "worker"    -> ValidateWorker(v)
    [] c = "registry"  -> ValidateRegistry(v)
    [] c = "server"    -> ValidateServer(v)
    [] OTHER           -> "none"

\* The struct after Validate: ServerConfig.Validate trims in place
Validated(c, v) ==
  IF c = "server" THEN [f \in DOMAIN v |-> IF f \in ServerTrimmed THEN TrimSpace(v[f]) ELSE v[f]]
  ELSE v

NoConfig == <<>>   \* the nil *XConfig returned with a load error

Start(c) == [f \in DOMAIN Schema[c] |->
               IF f \in DOMAIN Defaults[c] THEN Defaults[c][f] ELSE Zero(Kind(c, f))]

Decoded(c, inp) ==
  IF inp.file = "yaml"
    THEN [f \in DOMAIN Schema[c] |-> Decode(c, f, Start(c)[f], inp.ys, inp.yk)]
    ELSE Start(c)

Processed(c, inp) ==
  [f \in DOMAIN Schema[c] |-> Process(c, f, Decoded(c, inp)[f], inp.ev)]

LoadError(c, inp) ==
  CASE inp.file = "missing"     -> "FileError"
    [] inp.file = "undecodable" -> "DecodeError"
    [] \E f \in DOMAIN Schema[c] : inp.ev[f] = Malformed
                                   /\ Applies(c, f, Decoded(c, inp)[f], inp.ev)
                                -> "EnvError"
    [] OTHER                    -> "none"

\* The body every BuildNewXConfig shares: defaults, open and decode the
\* file, envconfig.Process, then return &config with Validate's error
Run(c, inp) ==
  IF LoadError(c, inp) # "none"
    THEN [vals |-> NoConfig, err |-> LoadError(c, inp)]
    ELSE [vals |-> Validated(c, Processed(c, inp)), err |-> Validate(c, Processed(c, inp))]

VARIABLES
  cfg,     \* the config whose builder fx calls
  input,   \* the YAML document and environment it reads, NoInput before
  vals,    \* the struct it returned (NoConfig with a load error)
  err      \* the error it returned

vars == <<cfg, input, vals, err>>

Errors == {"none", "FileError", "DecodeError", "EnvError", "Addrs", "Worker address", "Addresses",
           "Namespace", "Name", "Address", "Repl Address"}

TypeOK ==
  /\ cfg \in Builders
  /\ err \in Errors
  /\ vals # NoConfig =>
       /\ DOMAIN vals = DOMAIN Schema[cfg]
       /\ \A f \in DOMAIN vals : vals[f] \in GoType(Kind(cfg, f))

NoInput == [file |-> "none", ys |-> <<>>, yk |-> <<>>, ev |-> <<>>]

Init ==
  /\ cfg \in Builders
  /\ input = NoInput
  /\ vals = NoConfig
  /\ err = "none"

\* fx calls the builder of config c with the service's path
Build(c) ==
  /\ cfg = c /\ input = NoInput
  /\ \E inp \in Inputs(c) :
       /\ input' = inp
       /\ vals' = Run(c, inp).vals
       /\ err' = Run(c, inp).err
  /\ UNCHANGED cfg

BuildNewLoggerConfig == Build("logger")
BuildNewResilienceConfig == Build("resilience")
BuildNewMessagingConfig == Build("messaging")
BuildNewWorkerConfig == Build("worker")
BuildNewRegistryConfig == Build("registry")
BuildNewCorsConfig == Build("cors")
BuildNewCryptoConfig == Build("crypto")
BuildNewTracerConfig == Build("tracer")
BuildNewServerConfig == Build("server")

\* The builder has returned
Done ==
  /\ input # NoInput
  /\ UNCHANGED vars

Next ==
  \/ BuildNewLoggerConfig
  \/ BuildNewResilienceConfig
  \/ BuildNewMessagingConfig
  \/ BuildNewWorkerConfig
  \/ BuildNewRegistryConfig
  \/ BuildNewCorsConfig
  \/ BuildNewCryptoConfig
  \/ BuildNewTracerConfig
  \/ BuildNewServerConfig
  \/ Done

Spec == Init /\ [][Next]_vars

-----------------------------------------------------------------------------
(* Properties *)

Loaded == input # NoInput /\ err \notin {"FileError", "DecodeError", "EnvError"}

\* "Env variables overwrite yaml configuration" (package config): a config
\* a builder returns without error holds, in every field whose variable is
\* set, the variable's value, whatever the YAML file gave it.
EnvOverridesYaml ==
  Loaded /\ err = "none" => \A f \in DOMAIN input.ev :
              input.ev[f] \notin {Unset, Malformed} => vals[f] = input.ev[f]

=============================================================================

---------------------------- MODULE MCConfigBuild ----------------------------
(* Instances of ConfigBuild for TLC.  Each builder varies the fields that  *)
(* carry a default, take part in Validate, lack an env tag or sit in a    *)
(* nested section; the other fields keep an absent key and an unset       *)
(* variable.                                                               *)
EXTENDS ConfigBuild

\* Every builder
MCBuilders == {"logger", "resilience", "messaging", "worker", "registry", "cors", "crypto",
               "tracer", "server"}

MCVaried ==
  [logger     |-> {"Name", "Level", "File.Filename"},
   resilience |-> {"RateLimiter.Limit", "CircuitBreaker.Timeout"},
   messaging  |-> {"Enable", "Addrs", "Type"},
   worker     |-> {"Enable", "MaxConcurrency", "RedisAddresses"},
   registry   |-> {"Addresses", "CacheTTL", "Type"},
   cors       |-> {"AllowedOrigins", "AllowCredentials"},
   crypto     |-> {},
   tracer     |-> {"FractionRatio", "Address"},
   server     |-> {"Namespace", "Name", "Address", "ReplAddress"}]

\* The crypto builder alone, with its types given by file and environment
MCCryptoBuilders == {"crypto"}
MCCryptoVaried == [MCVaried EXCEPT !.crypto = {"EncryptorType", "HasherType"}]

=============================================================================

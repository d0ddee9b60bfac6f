SPECIFICATION Spec
CONSTANTS
  Hosts = {"", "mongodb://db", "db"}
  BadHosts = {"db"}
  Unset = Unset
  NotInt = NotInt
INVARIANTS
  TypeOK
  MongoNeverBlankURL

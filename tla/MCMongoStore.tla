---------------------------- MODULE MCMongoStore ----------------------------
(* Model-checking instance of MongoStore: model values for callers, keys *)
(* and payloads come from the cfg files.                                 *)
EXTENDS MongoStore

=============================================================================

-------------------------- MODULE MCServiceControl --------------------------
(* Instances of Deployment for TLC.                                        *)
EXTENDS Deployment, TLC

Numbers == ("5" :> 5) @@ ("-1" :> -1) @@ ("9000" :> 9000)

PyNumbers == Numbers @@ (" 5 " :> 5)

\* Nothing but the bucket; much, in texts both servers know; texts only one of
\* them knows or none, twice; no bucket, and a directory that cannot be made.
SomeEnvironments ==
  {[S3_BUCKET |-> "b"],
   [S3_BUCKET |-> "b", AWS_REGION |-> "r", S3_FORCE_PATH_STYLE |-> "true",
    PORT |-> "9000", NEXUS_CACHE_DIR |-> "/cache", FIELD_MAX_LIMIT |-> "5",
    FIELD_DEFAULT_LIMIT |-> "many"],
   [S3_BUCKET |-> "b", S3_FORCE_PATH_STYLE |-> "yes", NEXUS_CACHE_DIR |-> ""],
   [S3_BUCKET |-> "b", FIELD_DEFAULT_LIMIT |-> " 5 "],
   [S3_PREFIX |-> "p", S3_FORCE_PATH_STYLE |-> "0", NEXUS_CACHE_DIR |-> "/proc"]}

\* config.yaml without settings, with a port, a bucket and a cache directory of
\* its own, with an empty bucket, or unreadable.
SomeFiles ==
  {<<>>, [Port |-> "9001", Bucket |-> "c", CacheDir |-> "/cache"],
   [Bucket |-> ""], Unreadable}
=============================================================================

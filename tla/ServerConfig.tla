---------------------------- MODULE ServerConfig ----------------------------
(***************************************************************************)
(* How the two servers come to their settings when they start: loadConfig  *)
(* of servers/go/config.go, from defaults, the environment and a file, and *)
(* Config of servers/py/config.py, from the first two.  An environment is  *)
(* a function from the names of the variables that are set to texts; a     *)
(* config file that can be parsed is a function from the settings it has.  *)
(* The settings for TLS, which only the Python server reads, are left out. *)
(***************************************************************************)
EXTENDS Integers

CONSTANTS
  IntOf,        \* IntOf[t]: the number strconv.Atoi reads in a text
  PyIntOf,      \* PyIntOf[t]: the number int() reads in a text
  TrueTexts,    \* texts that strconv.ParseBool takes for true
  FalseTexts,   \* texts that strconv.ParseBool takes for false
  PyTrueTexts,  \* texts that _env_bool takes for true
  TempDir,      \* $TMPDIR/nexus-cache
  Creatable     \* directories that exist or can be made

\* A text that is empty, as that of a variable that is not set.
NoText == ""

\* What both servers limit a slice of a field to when nothing else is said.
FieldLimit == 10000
FieldCap == 1000000

ASSUME ServerConfigAssumption ==
  /\ NoText \notin DOMAIN IntOf \cup DOMAIN PyIntOf
  /\ NoText \notin TrueTexts \cup FalseTexts \cup PyTrueTexts \cup {TempDir}
  /\ TrueTexts \cap FalseTexts = {}

Getenv(env, n) == IF n \in DOMAIN env THEN env[n] ELSE NoText

FirstNonEmpty(vals) ==
  LET set == {i \in DOMAIN vals : vals[i] # NoText}
  IN IF set = {} THEN NoText ELSE vals[CHOOSE i \in set : \A j \in set : i <= j]

\* A text that does not parse leaves the default in force.
EnvBool(env, n, default) ==
  IF Getenv(env, n) \in TrueTexts \cup FalseTexts THEN Getenv(env, n) \in TrueTexts
  ELSE default

MutEnvInt(env, n, default) ==
  CASE Getenv(env, n) = NoText -> default
    [] Getenv(env, n) \in DOMAIN IntOf -> IntOf[Getenv(env, n)]
    [] OTHER -> 0

EnvInt(env, n, default) ==
  IF Getenv(env, n) \in DOMAIN IntOf THEN IntOf[Getenv(env, n)] ELSE default

-----------------------------------------------------------------------------
(* The Go server.                                                          *)

FromEnvironment(env) ==
  [Bucket |-> Getenv(env, "S3_BUCKET"),
   Prefix |-> Getenv(env, "S3_PREFIX"),
   Region |-> FirstNonEmpty(<<Getenv(env, "S3_REGION"), Getenv(env, "AWS_REGION"),
                              "us-east-1">>),
   Endpoint |-> Getenv(env, "S3_ENDPOINT"),
   ForcePathStyle |-> EnvBool(env, "S3_FORCE_PATH_STYLE", FALSE),
   Port |-> FirstNonEmpty(<<Getenv(env, "PORT"), "8080">>),
   CacheDir |-> FirstNonEmpty(<<Getenv(env, "NEXUS_CACHE_DIR"), TempDir>>),
   DefaultFieldLimit |-> EnvInt(env, "FIELD_DEFAULT_LIMIT", FieldLimit),
   MaxFieldLimit |-> EnvInt(env, "FIELD_MAX_LIMIT", FieldCap),
   AccessKey |-> Getenv(env, "AWS_ACCESS_KEY_ID"),
   SecretKey |-> Getenv(env, "AWS_SECRET_ACCESS_KEY")]

\* A config file that is not there or cannot be parsed.
Unreadable == [file |-> "unreadable"]

\* Whatever the file has replaces what came before, an empty text too.
ApplyFileConfig(cfg, fc) ==
  [s \in DOMAIN cfg |-> IF s \in DOMAIN fc THEN fc[s] ELSE cfg[s]]

Settings(env, fc) == ApplyFileConfig(FromEnvironment(env), fc)

\* loadConfig returns without an error.
Loads(env, fc) ==
  /\ fc # Unreadable
  /\ Settings(env, fc).Bucket # NoText
  /\ Settings(env, fc).CacheDir \in Creatable

-----------------------------------------------------------------------------
(* The Python server.                                                      *)

PyEnvBool(env, n, default) ==
  IF Getenv(env, n) = NoText THEN default ELSE Getenv(env, n) \in PyTrueTexts

\* int() reads texts that Atoi does not: with spaces around the digits or
\* underscores between them, or of numbers that do not fit in 64 bits.
PyEnvInt(env, n, default) ==
  IF Getenv(env, n) = NoText \/ Getenv(env, n) \notin DOMAIN PyIntOf THEN default
  ELSE PyIntOf[Getenv(env, n)]

\* The settings the servers have in common.
PySettings(env) ==
  [Bucket |-> Getenv(env, "S3_BUCKET"),
   Prefix |-> Getenv(env, "S3_PREFIX"),
   Region |-> FirstNonEmpty(<<Getenv(env, "S3_REGION"), Getenv(env, "AWS_REGION"),
                              "us-east-1">>),
   Endpoint |-> Getenv(env, "S3_ENDPOINT"),
   ForcePathStyle |-> PyEnvBool(env, "S3_FORCE_PATH_STYLE", FALSE),
   CacheDir |-> IF "NEXUS_CACHE_DIR" \in DOMAIN env THEN env["NEXUS_CACHE_DIR"]
                ELSE TempDir,
   DefaultFieldLimit |-> PyEnvInt(env, "FIELD_DEFAULT_LIMIT", FieldLimit),
   MaxFieldLimit |-> PyEnvInt(env, "FIELD_MAX_LIMIT", FieldCap)]

PyLoads(env) ==
  PySettings(env).Bucket # NoText /\ PySettings(env).CacheDir \in Creatable
=============================================================================

------------------------------ MODULE Settings ------------------------------
(***************************************************************************)
(* How src/src/config.ts makes the settings: the defaults, overridden by a *)
(* JSON file, overridden by the environment, then validated as a whole.    *)
(*                                                                         *)
(* Two numbers stand for the numeric keys, one for each rule the schema    *)
(* has for them (port must be positive, log_retention_days may be zero).   *)
(* A JSON value is a record whose one field is its type; an environment      *)
(* variable is a text, and only those texts the code tells apart are used. *)
(***************************************************************************)
EXTENDS Integers

Refused == [refused |-> TRUE]    \* load failed with a ConfigError
Unset == "unset"        \* the variable is not in the environment

FILE_KEYS ==
  [host |-> "string", port |-> "number", db_path |-> "string", admin_token |-> "string",
   require_client_key |-> "boolean", default_strategy |-> "string",
   log_retention_days |-> "number", web_root |-> "string"]

Names == DOMAIN FILE_KEYS

Str(text) == [string |-> text]
Num(n) == [number |-> n]
Bool(b) == [boolean |-> b]
Null == [null |-> "null"]

typeof(value) == CHOOSE type \in DOMAIN value : TRUE

DEFAULTS ==
  [host |-> Str("0.0.0.0"), port |-> Num(8787),
   db_path |-> Str("./data/agg2api.db"), admin_token |-> Str(""),
   require_client_key |-> Bool(FALSE),
   default_strategy |-> Str("priority"),
   log_retention_days |-> Num(30), web_root |-> Null]

Blank(text) == text \in {"", " "}    \* text.trim() === ""

IsNumber(text) == Blank(text) \/ text \in {"0", "8080", "-1"}

\* Number(text): blank text is zero.
Number(text) == IF text = "8080" THEN 8080 ELSE IF text = "-1" THEN -1 ELSE 0

----------------------------------------------------------------------------

FileFits(file, key) ==
  \/ typeof(file[key]) = FILE_KEYS[key]
  \/ key = "web_root" /\ file[key] = Null

\* The file sets only the keys it has; others it may have are ignored.
FromFile(file) ==
  [key \in Names |-> IF key \in DOMAIN file THEN file[key] ELSE DEFAULTS[key]]

\* Seeded fault: a blank variable is taken at its word.
SetsBlank(env, key) == env[key] # Unset

Sets(env, key) == env[key] \notin {Unset, ""}

EnvFits(env, key) ==
  \/ ~Sets(env, key)
  \/ FILE_KEYS[key] = "string"
  \/ FILE_KEYS[key] = "boolean" /\ env[key] \in {"true", "false"}
  \/ FILE_KEYS[key] = "number" /\ IsNumber(env[key])

Spoken(type, text) ==
  CASE type = "string" -> Str(text)
    [] type = "boolean" -> Bool(text = "true")
    [] type = "number" -> Num(Number(text))

Merged(file, env) ==
  [key \in Names |-> IF Sets(env, key) THEN Spoken(FILE_KEYS[key], env[key])
                                       ELSE FromFile(file)[key]]

\* The schema's own checks, and the two refusals that follow it.
Decodes(s) ==
  /\ s.port.number > 0
  /\ s.log_retention_days.number >= 0
  /\ s.default_strategy.string \in {"priority", "weighted"}

isLoopback(host) == host \in {"127.0.0.1", "::1", "localhost"}

\* A blank web root is no web root, whatever source it came from.
Normalised(s) ==
  [s EXCEPT !.web_root = IF @ = Null \/ Blank(@.string) THEN Null ELSE @]

Accepts(s) ==
  /\ Decodes(s)
  /\ ~Blank(s.db_path.string)
  /\ s.admin_token.string # "" \/ isLoopback(s.host.string)

resolve(file, env) ==
  IF /\ \A key \in DOMAIN file \cap Names : FileFits(file, key)
     /\ \A key \in Names : EnvFits(env, key)
     /\ Accepts(Merged(file, env))
  THEN Normalised(Merged(file, env))
  ELSE Refused

\* A missing file is an empty one; a file that is no JSON object is fatal.
load(file, env) ==
  CASE file.is = "missing" -> resolve([key \in {} |-> Null], env)
    [] file.is = "malformed" -> Refused
    [] file.is = "object" -> resolve(file.keys, env)
=============================================================================

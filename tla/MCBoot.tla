------------------------------- MODULE MCBoot -------------------------------
\* Every configuration over a fresh file, and the file of every release under one configuration,
\* for TLC.
EXTENDS Boot

NoEnv == [key \in Names |-> Unset]
Empty == [key \in {} |-> Null]
File(keys) == [is |-> "object", keys |-> keys]
Secret == [key \in {"admin_token"} |-> Str("secret")]
With(keys, key, value) == [k \in DOMAIN keys \cup {key} |-> IF k = key THEN value ELSE keys[k]]

Loopback(path) ==
  With([key \in {"host"} |-> Str("127.0.0.1")], "db_path", Str(path))

Files ==
  {[is |-> "missing", keys |-> Empty], [is |-> "malformed", keys |-> Empty], File(Secret),
   File(With(Secret, "web_root", Null))}
  \cup {File(With(Secret, "web_root", Str(text))) : text \in {"", " ", "x"}}
  \cup {File(With(Secret, "log_retention_days", v)) :
           v \in {Num(0), Num(7), Num(-1), Str("7")}}
  \cup {File(Loopback(text)) : text \in {"", "x"}}

Envs ==
  {NoEnv} \cup {[NoEnv EXCEPT ![key] = text] : key \in Names \ {"host"}, text \in {"", " ", "0", "-1", "8080", "true", "x"}}

Fresh ==
  [columns |-> {}, listed |-> FALSE, ledger |-> {}, max_retries |-> 0, targets |-> 1, auto |-> FALSE]

\* The file of every release, with rows the fixes are about.
Released ==
  {[columns |-> ColumnsOf(1..n), listed |-> TRUE, ledger |-> 1..n,
    max_retries |-> IF n < 3 THEN r ELSE 30, targets |-> t, auto |-> n = 5 /\ t = 1] :
     n \in 1..5, r \in {-10, 15, 110}, t \in 1..2}

\* Every configuration over a fresh file, and every release's file under one configuration.
MCSites ==
  {[file |-> f, env |-> NoEnv, database |-> Fresh] : f \in Files}
  \cup {[file |-> File(Secret), env |-> e, database |-> Fresh] : e \in Envs}
  \cup {[file |-> File(Secret), env |-> NoEnv, database |-> d] : d \in Released}
=============================================================================

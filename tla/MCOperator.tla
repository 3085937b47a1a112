----------------------------- MODULE MCOperator -----------------------------
(***************************************************************************)
(* What an operator works with, for TLC: admission under the keys, and the *)
(* dashboard's pages for providers, keys and routes.  They share no state  *)
(* here: moving is the one that takes steps in a behaviour, and the others *)
(* rest in an initial state of theirs.                                     *)
(***************************************************************************)
EXTENDS Admission, Console, ClientKeys, MCPages

\* One key, and more requests than its limits allow in a minute, here two
\* seconds of two ticks each.
CONSTANTS k1, m1, m2

OneKey == {k1}
AnyModel == {{}, {m1}}
Interchangeable == Permutations(Requests)

\* Two secrets of one provider, one of them long enough to keep a prefix in its mask.
MCPrefix == [s \in Secrets |-> IF s = "sk-b-1" THEN "sk-b" ELSE "sk-a"]
ConfiguredRow(key, headers) == [key |-> key, headers |-> headers, enabled |-> TRUE, revision |-> 0]
MCConfigured == { ConfiguredRow("sk-a-1", [n \in {"authorization"} |-> "sk-a-1"]) }

VARIABLE moving

admissionVars == vars

Still ==
  /\ moving # "admission" => /\ \A k \in KeyIds : keys[k].limit = 0 /\ keys[k].scope = {}
                             /\ \A r \in Requests : req[r].token = Unknown
  /\ moving # "console" => fresh = Ids
  /\ moving # "pages" => ~route.there

OperatorInit ==
  /\ moving \in {"admission", "console", "keys", "pages"}
  /\ Init /\ ConsoleInit /\ KeysInit /\ PagesInit
  /\ Still

OperatorNext ==
  /\ UNCHANGED moving
  /\ \/ moving = "admission" /\ Next /\ UNCHANGED <<consoleVars, keyVars, pagesVars>>
     \/ moving = "console" /\ ConsoleNext /\ UNCHANGED <<admissionVars, keyVars, pagesVars>>
     \/ moving = "keys" /\ KeysNext /\ UNCHANGED <<admissionVars, consoleVars, pagesVars>>
     \/ moving = "pages" /\ PagesNext /\ UNCHANGED <<admissionVars, consoleVars, keyVars>>

OperatorSpec ==
  OperatorInit /\ [][OperatorNext]_<<admissionVars, consoleVars, keyVars, pagesVars, moving>>

Swappable == Interchangeable \cup Symmetry
=============================================================================

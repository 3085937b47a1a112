------------------------------ MODULE MCUpkeep ------------------------------
(***************************************************************************)
(* The parts that keep the gateway going besides its requests, for TLC:    *)
(* starting on a database, the credit refreshes, the capability index, the *)
(* session store, and the dashboard's token gate.  They share no state     *)
(* here: moving is the one that takes steps in a behaviour, and the others *)
(* rest in an initial state of theirs.                                     *)
(***************************************************************************)
EXTENDS MCBoot, Credits, MCCapabilities, SessionStore, TokenGate

\* What a pool's /status may list.
A(credits, resting) == [credits |-> credits, cooling |-> resting, disabled |-> FALSE]
MCAccounts == { <<>>, << A(5, FALSE) >>, << A(3, FALSE), A(4, TRUE) >> }

VARIABLE moving

storeVars == vars
everything == <<bootVars, creditsVars, capabilityVars, storeVars, gateVars>>

\* Somewhere to rest: a configuration no process starts on, an index of nothing,
\* and a token gate and pools that have seen nothing.
Unindexed ==
  /\ today = 0 /\ restarts = 0 /\ published = <<>> /\ index = Unsaid
  /\ discovery = [d \in Discoveries |-> AtRest] /\ facts = [o \in Offers |-> NoFacts]

Still ==
  /\ moving # "boot" => settings = Refused /\ database = Fresh /\ deployment.env = NoEnv
                        /\ deployment.file.is = "missing"
  /\ moving # "credits" => enabled = {} /\ pool = [p \in Pools |-> <<>>]
  /\ moving # "gate" => stored = NoToken

UpkeepInit ==
  /\ moving \in {"boot", "credits", "capabilities", "store", "gate"}
  /\ BootInit /\ CreditsInit /\ Init /\ GateInit
  /\ IF moving = "capabilities" THEN CapabilitiesInit ELSE Unindexed
  /\ Still

UpkeepNext ==
  /\ UNCHANGED moving
  /\ \/ moving = "boot" /\ BootNext
        /\ UNCHANGED <<creditsVars, capabilityVars, storeVars, gateVars>>
     \/ moving = "credits" /\ CreditsNext
        /\ UNCHANGED <<bootVars, capabilityVars, storeVars, gateVars>>
     \/ moving = "capabilities" /\ CapabilitiesNext
        /\ UNCHANGED <<bootVars, creditsVars, storeVars, gateVars>>
     \/ moving = "store" /\ Next
        /\ UNCHANGED <<bootVars, creditsVars, capabilityVars, gateVars>>
     \/ moving = "gate" /\ GateNext
        /\ UNCHANGED <<bootVars, creditsVars, capabilityVars, storeVars>>

\* The fairness of BootSpec, CreditsSpec and GateSpec, each where its part moves.
UpkeepSpec ==
  /\ UpkeepInit /\ [][UpkeepNext]_<<everything, moving>>
  /\ \A p \in Starters : WF_bootVars(moving = "boot" /\ Starts(p))
  /\ WF_creditsVars(moving = "credits" /\ Maintains)
  /\ \A c \in Calls : WF_gateVars(moving = "gate" /\ Reply(c))
  /\ WF_gateVars(moving = "gate" /\ Enters)

\* PassesGoOn where maintenance moves: it ends a pass and starts the next for
\* ever, whatever dies on the way, unless the upstream it waits for, discovering
\* or at a pool's /status, never answers (main.ts, maintenance).
MaintenanceGoesOn == moving = "credits" => PassesGoOn

\* Whatever crashes, collides or fails, every process comes to serve and the
\* maintenance of the one that does goes on while upstreams answer (main.ts).
ServesAndGoesOn == EveryStarterServes /\ MaintenanceGoesOn
=============================================================================

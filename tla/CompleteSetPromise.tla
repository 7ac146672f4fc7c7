------------------------- MODULE CompleteSetPromise -------------------------
(***************************************************************************)
(* What the platform promises to the owner of complete sets, without       *)
(* tokens, orders, workers, claims or ledger accounts: sets may be bought  *)
(* while a market trades, and the collateral of all of them comes back in  *)
(* one step, once, after the market was decided or voided.                 *)
(***************************************************************************)
EXTENDS Integers

CONSTANTS Markets, Users, PayoutAtoms

VARIABLES
  stage,  \* the market trades, is decided, is voided, or has paid
  sets,   \* complete sets of a user in a market
  paid    \* atoms paid back to a user for a market

promiseVars == <<stage, sets, paid>>

PromiseInit ==
  /\ stage = [m \in Markets |-> "trading"]
  /\ sets = [m \in Markets |-> [u \in Users |-> 0]]
  /\ paid = [m \in Markets |-> [u \in Users |-> 0]]

\* One user locks the collateral of one or more complete sets.
IssueSets(m, u) ==
  /\ stage[m] = "trading"
  /\ sets'[m][u] > sets[m][u]
  /\ sets' = [sets EXCEPT ![m][u] = sets'[m][u]]
  /\ UNCHANGED <<stage, paid>>

Decide(m) ==
  /\ stage[m] = "trading"
  /\ stage' = [stage EXCEPT ![m] = "decided"]
  /\ UNCHANGED <<sets, paid>>

Void(m) ==
  /\ stage[m] = "trading"
  /\ stage' = [stage EXCEPT ![m] = "voided"]
  /\ UNCHANGED <<sets, paid>>

\* Everybody is paid in the same step, the full collateral of their sets.
PayBack(m) ==
  /\ stage[m] \in {"decided", "voided"}
  /\ stage' = [stage EXCEPT ![m] = "paid"]
  /\ paid' = [paid EXCEPT ![m] = [u \in Users |-> PayoutAtoms[m] * sets[m][u]]]
  /\ UNCHANGED sets

PromiseNext ==
  \E m \in Markets :
    \/ \E u \in Users : IssueSets(m, u)
    \/ Decide(m)
    \/ Void(m)
    \/ PayBack(m)

PromiseSpec == PromiseInit /\ [][PromiseNext]_promiseVars
=============================================================================

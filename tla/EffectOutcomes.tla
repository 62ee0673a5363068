--------------------------- MODULE EffectOutcomes ---------------------------
(***************************************************************************)
(* What the operation ledger promises of an effect outside the store,      *)
(* without records, versions, keys or stale callers: its outcome is        *)
(* recorded once and for good, an unknown outcome is settled by a resolver *)
(* and by nobody else, and whoever is told an outcome is told the one that *)
(* stands.                                                                 *)
(***************************************************************************)

CONSTANT Requests

VARIABLES outcome,   \* what is known of each effect
          resolved,  \* the effects whose outcome a resolver settled
          told       \* the effects and outcomes somebody was told

effects == <<outcome, resolved, told>>

Known == {"committed", "failed"}

(* What may be known of an effect after it was so. *)
Later == [none      |-> {"none", "prepared", "unknown"} \cup Known,
          prepared  |-> {"prepared", "unknown"} \cup Known,
          unknown   |-> {"unknown"} \cup Known,
          committed |-> {"committed"},
          failed    |-> {"failed"}]

Start ==
    /\ \A r \in Requests : outcome[r] = "none"
    /\ resolved = {}
    /\ told = {}

NothingForgotten == \A r \in Requests : outcome'[r] \in Later[outcome[r]]

SettledByResolver ==
    resolved' = resolved \cup {r \in Requests : outcome[r] = "unknown" /\ outcome'[r] # "unknown"}

ToldAsItIs ==
    /\ told \subseteq told'
    /\ \A t \in told' \ told : t[2] \in Known /\ outcome'[t[1]] = t[2]

Learn == NothingForgotten /\ SettledByResolver /\ ToldAsItIs

Spec == Start /\ [][Learn]_effects
=============================================================================

---------------------------- MODULE CommandLedger ---------------------------
(***************************************************************************)
(* What the command store promises to its callers, without transactions,   *)
(* savepoints or tables: every logical request key is decided at most once *)
(* and for good, every committed command is stamped exactly once in one    *)
(* append-only stream, and it gives its target a version of its own.       *)
(* One step may decide several commands: a transaction publishes all of    *)
(* its commands together.                                                  *)
(***************************************************************************)
EXTENDS Integers, Sequences

CONSTANTS Keys, Ids, Streams

VARIABLES outcome,  \* the receipt of each key
          version,  \* the version of each identity
          log       \* the ids of the events of each stream, in order

ledger == <<outcome, version, log>>

Undecided(k) == outcome[k].status = "none"

(* k is decided as committed by this step. *)
CommitsNow(k) == Undecided(k) /\ outcome'[k].status = "committed"

(* The places of k in the stream s. *)
Places(stream, k) == {n \in DOMAIN stream : stream[n] = k}

Start ==
    /\ \A k \in Keys : Undecided(k)
    /\ \A i \in Ids : version[i] = 0
    /\ \A s \in Streams : log[s] = <<>>

DecisionsStand == \A k \in Keys : ~Undecided(k) => outcome'[k] = outcome[k]

StreamsGrow ==
    \A s \in Streams : /\ Len(log'[s]) >= Len(log[s])
                       /\ SubSeq(log'[s], 1, Len(log[s])) = log[s]

StampedOnce ==
    \A k \in Keys : CommitsNow(k) =>
        \E s \in Streams :
            /\ \E n \in Len(log[s]) + 1 .. Len(log'[s]) : Places(log'[s], k) = {n}
            /\ \A other \in Streams \ {s} : Places(log'[other], k) = {}

OnlyCommandsStamped ==
    \A k \in Keys : ~CommitsNow(k) =>
        \A s \in Streams : Places(log'[s], k) = Places(log[s], k)

VersionsAdvance ==
    /\ \A i \in Ids : version'[i] >= version[i]
    /\ \A k \in Keys : CommitsNow(k) => version'[outcome'[k].req.id] > version[outcome'[k].req.id]

Publish ==
    /\ DecisionsStand
    /\ StreamsGrow
    /\ StampedOnce
    /\ OnlyCommandsStamped
    /\ VersionsAdvance

Spec == Start /\ [][Publish]_ledger
=============================================================================

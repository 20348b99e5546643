--------------------------- MODULE ScoreRegister ---------------------------
(***************************************************************************)
(* What the handlers expect of the score cache, for one endpoint and one    *)
(* subject: a register that is replaced, never emptied, and that is read as *)
(* empty once the score in it has expired.                                  *)
(***************************************************************************)
EXTENDS Naturals

CONSTANTS
  Readers,
  Ttl,       \* seconds a score is served from the cache
  Empty      \* nothing was ever stored

VARIABLES
  now,       \* the clock of the database
  cell,      \* Empty, or the times of the score: scored, stored, expires
  lookup     \* what each reader is doing

vars == <<now, cell, lookup>>

Init ==
  /\ now = 0
  /\ cell = Empty
  /\ lookup = [r \in Readers |-> [at |-> "idle"]]

Tick == now' = now + 1 /\ UNCHANGED <<cell, lookup>>

\* A score that was ready at some earlier time, and was stored since.
Put ==
  /\ \E scored \in 0 .. now : \E stored \in scored .. now :
       cell' = [scored |-> scored, stored |-> stored, expires |-> stored + Ttl]
  /\ UNCHANGED <<now, lookup>>

Ask(r) ==
  /\ lookup[r].at = "idle"
  /\ lookup' = [lookup EXCEPT ![r] = [at |-> "asked", since |-> now]]
  /\ UNCHANGED <<now, cell>>

InForce(t) == cell # Empty /\ cell.expires > t

Hit(r) ==
  /\ lookup[r].at = "asked"
  /\ InForce(lookup[r].since)
  /\ lookup' = [lookup EXCEPT ![r] = [at |-> "hit", since |-> lookup[r].since, got |-> cell]]
  /\ UNCHANGED <<now, cell>>

Miss(r) ==
  /\ lookup[r].at = "asked"
  /\ ~InForce(lookup[r].since)
  /\ lookup' = [lookup EXCEPT ![r] = [at |-> "miss"]]
  /\ UNCHANGED <<now, cell>>

\* The read fails, which is not a miss: the handler scores afresh either way.
Unreadable(r) ==
  /\ lookup[r].at = "asked"
  /\ lookup' = [lookup EXCEPT ![r] = [at |-> "error"]]
  /\ UNCHANGED <<now, cell>>

Done(r) ==
  /\ lookup[r].at \in {"hit", "miss", "error"}
  /\ lookup' = [lookup EXCEPT ![r] = [at |-> "idle"]]
  /\ UNCHANGED <<now, cell>>

Next ==
  \/ Tick
  \/ Put
  \/ \E r \in Readers : Ask(r) \/ Hit(r) \/ Miss(r) \/ Unreadable(r) \/ Done(r)

Spec == Init /\ [][Next]_vars
=============================================================================

--------------------------- MODULE WindowCounter ---------------------------
(***************************************************************************)
(* What auth/dual.rs expects of the buckets: counters, one for each key and *)
(* window, where a request is counted and decided at once, by what was      *)
(* counted before it in the window it was made in.                          *)
(***************************************************************************)
EXTENDS Naturals

CONSTANTS
  Calls, Keys, Windows,
  Limits            \* the limit of each key

VARIABLES
  window,           \* the current one
  count,            \* requests counted for each key and window
  request           \* what each call is told

vars == <<window, count, request>>

Idle == [at |-> "idle"]
Told(answer) == [at |-> answer]

Init ==
  /\ window = 0
  /\ count = [k \in Keys |-> [w \in Windows |-> 0]]
  /\ request = [c \in Calls |-> Idle]

Turn == window' = window + 1 /\ UNCHANGED <<count, request>>

Make(c, k) ==
  /\ request[c] = Idle
  /\ request' = [request EXCEPT ![c] = [at |-> "made", key |-> k, window |-> window]]
  /\ UNCHANGED <<window, count>>

HasRoom(k, w) == count[k][w] < Limits[k]
CountIn(k, w) == count' = [count EXCEPT ![k][w] = @ + 1]

Decide(c) ==
  /\ request[c].at = "made"
  /\ CountIn(request[c].key, request[c].window)
  /\ request' = [request EXCEPT ![c] = Told(
       IF HasRoom(request[c].key, request[c].window) THEN "within" ELSE "exceeded")]
  /\ UNCHANGED window

\* Counted, and the answer is lost.
Lose(c) ==
  /\ request[c].at = "made"
  /\ CountIn(request[c].key, request[c].window)
  /\ request' = [request EXCEPT ![c] = Told("failed")]
  /\ UNCHANGED window

\* Never counted.
Miss(c) ==
  /\ request[c].at \in {"idle", "made"}
  /\ request' = [request EXCEPT ![c] = Told("failed")]
  /\ UNCHANGED <<window, count>>

\* The call goes on, or is cut off before its request is counted.
Forget(c) ==
  /\ request[c] # Idle
  /\ request' = [request EXCEPT ![c] = Idle]
  /\ UNCHANGED <<window, count>>

Next ==
  \/ Turn
  \/ \E c \in Calls : \/ \E k \in Keys : Make(c, k)
                      \/ Decide(c) \/ Lose(c) \/ Miss(c) \/ Forget(c)

Spec == Init /\ [][Next]_vars
=============================================================================

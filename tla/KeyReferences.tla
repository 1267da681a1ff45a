--------------------------- MODULE KeyReferences ---------------------------
(***************************************************************************)
(* What the key cache of the PKCS#11 engine promises (the comments on      *)
(* find_lock, active_list and KEY_HANDLE_REFHOLD in e_pk11.c and           *)
(* e_pk11_pub.c), with no handles, counters or locks: sessions hold keys,  *)
(* all sessions that hold a key share one object, and the object exists as *)
(* long as one of them does.                                               *)
(***************************************************************************)
CONSTANTS Sessions, Roles, Values, None

VARIABLES held,     \* the key a session holds in each role
          stored    \* keys of which the token has an object

Init == /\ held = [s \in Sessions |-> [r \in Roles |-> None]]
        /\ stored = {}

HeldBy(h, r, v) == \E s \in Sessions : h[s][r] = v

\* A session takes a key; its object is there from now on.
Hold(s, r, v) ==
    /\ held[s][r] = None
    /\ held' = [held EXCEPT ![s][r] = v]
    /\ stored' = stored \cup {<<r, v>>}

\* A session drops a key; the object goes with the last reference.
Drop(s, r) ==
    /\ held[s][r] # None
    /\ held' = [held EXCEPT ![s][r] = None]
    /\ stored' = IF HeldBy(held', r, held[s][r]) THEN stored
                 ELSE stored \ {<<r, held[s][r]>>}

Next == \E s \in Sessions, r \in Roles : Drop(s, r) \/ \E v \in Values : Hold(s, r, v)

Spec == Init /\ [][Next]_<<held, stored>>

=============================================================================

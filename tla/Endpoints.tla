------------------------------ MODULE Endpoints ------------------------------
(***************************************************************************)
(* What the endpoint tokens of a relay promise, whatever the mechanism: a  *)
(* token works from its first use to the revocation of its app, all of an  *)
(* app's tokens are revoked together, and what is revoked stays revoked.   *)
(***************************************************************************)
EXTENDS Naturals

CONSTANT Apps

VARIABLES
    usable,         \* tokens handed out that work, records with a field app
    dead,           \* tokens that were revoked
    revocations     \* of each app, so far

states == <<usable, dead, revocations>>

Begin ==
    /\ usable = {} /\ dead = {}
    /\ revocations = [a \in Apps |-> 0]

HandOut(e) ==
    /\ e \notin dead
    /\ usable' = usable \cup {e}
    /\ UNCHANGED <<dead, revocations>>

\* A token that was on its way to its owner when its app revoked.
Stillborn(e) ==
    /\ e \notin usable /\ revocations[e.app] > 0
    /\ dead' = dead \cup {e}
    /\ UNCHANGED <<usable, revocations>>

Revoke(a) ==
    LET of == {e \in usable : e.app = a}
    IN  /\ usable' = usable \ of
        /\ dead' = dead \cup of
        /\ revocations' = [revocations EXCEPT ![a] = @ + 1]

\* A step changes the state in one of these ways; the tokens are those that the
\* step adds.
Step ==
    \/ \E e \in (usable' \cup dead') \ (usable \cup dead) : HandOut(e) \/ Stillborn(e)
    \/ \E a \in Apps : Revoke(a)

\* Tokens work until all of their app's are revoked at once, and never again.
Promise == Begin /\ [][Step]_states
=============================================================================

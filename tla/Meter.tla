-------------------------------- MODULE Meter --------------------------------
(***************************************************************************)
(* What a durable daily quota promises, whatever the mechanism: it counts  *)
(* a push for all of its tenants or for none, only while each has room,    *)
(* never on a day to come; it saves what it has counted and no more, today *)
(* without taking back what is saved; and all it ever forgets is what it   *)
(* has not saved.                                                          *)
(***************************************************************************)
EXTENDS Integers

CONSTANTS
    Days,
    Tenants,        \* those that have a quota
    Quotas          \* what each may count per day

VARIABLES
    today,
    counted,        \* per day and tenant
    saved           \* of it, what outlives the process

states == <<today, counted, saved>>

Nothing == [d \in Days |-> [t \in Tenants |-> 0]]

Begin == today \in Days /\ counted = Nothing /\ saved = Nothing

Count(d, tenants) ==
    /\ d <= today
    /\ \A t \in tenants : counted[d][t] < Quotas[t]
    /\ counted' = [counted EXCEPT ![d] =
                      [t \in Tenants |-> IF t \in tenants THEN @[t] + 1 ELSE @[t]]]
    /\ UNCHANGED <<today, saved>>

\* Days that are over need not stay saved.
Save ==
    /\ saved' \in [Days -> [Tenants -> Nat]]
    /\ \A d \in Days, t \in Tenants :
          /\ saved'[d][t] <= counted[d][t]
          /\ d >= today => saved[d][t] <= saved'[d][t]
    /\ UNCHANGED <<today, counted>>

Forget ==
    /\ counted' = saved
    /\ UNCHANGED <<today, saved>>

NextDay ==
    /\ today' \in Days /\ today' > today
    /\ UNCHANGED <<counted, saved>>

Step ==
    \/ \E d \in Days, tenants \in SUBSET Tenants : Count(d, tenants)
    \/ Save \/ Forget \/ NextDay

Promise == Begin /\ [][Step]_states
=============================================================================

----------------------------- MODULE MCDelivery -----------------------------
(***************************************************************************)
(* Delivery for an app whose APNs credentials change between a valid key   *)
(* and one that builds no client, and whose FCM credentials come and go.   *)
(***************************************************************************)
EXTENDS Delivery, TLC

CONSTANTS key, account, brokenKey

MCOffers == [t \in Transport |-> CASE t = "apns"    -> {key, brokenKey}
                                   [] t = "fcm"     -> {account, None}
                                   [] t = "webpush" -> {}]
MCBundle == 1 .. 3

\* The wait before any further attempt is within its bounds, also where the
\* shift overflows, which it does from the second attempt on.
ASSUME BackoffBounded == \A attempt \in 1 .. 8 : Backoff(attempt) \subseteq 1 .. MaxWait

Symmetry == Permutations(Push)
=============================================================================

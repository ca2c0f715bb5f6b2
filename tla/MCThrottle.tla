----------------------------- MODULE MCThrottle -----------------------------
(***************************************************************************)
(* Throttle for three requests at once of one address, which a proxy       *)
(* inside the network or a named header tells the relay.                   *)
(***************************************************************************)
EXTENDS Throttle, ClientAddress, TLC

CONSTANTS req1, req2, req3, client, proxy

\* AddressNotForged, for short headers: the requests share a bucket.
ASSUME OneBucket ==
    \A n \in 0 .. 2 : \A claims \in [1 .. n -> Address \cup {Blank, NoAddress}] :
        /\ \A named \in BOOLEAN, more \in {<<>>, <<claims>>} :
              ClientIP(named, proxy, <<Append(claims, client)>> \o more) = client
        /\ ClientIP(FALSE, client, <<claims>>) = client

\* A token takes less than a tick to refill, and two take longer at the lower rate:
\* the reservations of failures at once then act at different times, and the bucket
\* may be left owing a token.
PerMin(n, burst) == [perMin |-> n, burst |-> burst]
MCConfig   == {PerMin(5, 1), PerMin(6, 2)}
MCDefaults == PerMin(5, 1)

\* The last request comes to what the others have left: at most one is there still.
LastComesLate ==
    requests = MaxRequests => Cardinality({q \in Request : guard[q].step # "idle"}) <= 2

Symmetry == Permutations(Request)
=============================================================================

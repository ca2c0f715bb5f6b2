-------------------------------- MODULE Push --------------------------------
(***************************************************************************)
(* POST /push/{token} (internal/api/send.go): a request presents the       *)
(* bearer token of an instance and the endpoint token of a device, is      *)
(* checked, read, admitted and handed to a platform, and is answered with  *)
(* a status.  Tokens turns over below it.  Admission is Gate's and the     *)
(* platform Delivery's: both answer here either way.                       *)
(***************************************************************************)
EXTENDS Tokens

CONSTANTS
    Request,        \* requests at once
    Unknown         \* an endpoint token that does not parse or does not open

VARIABLE request
vars == <<tokenVars, request>>

\* Where a request is: the next thing it does, or how it was answered; and what came
\* of handing it to the dispatcher, which asks no platform without credentials that it
\* can read and use.
Working == {"authenticate", "key", "expiry", "body", "admit", "send"}
Asked   == {"delivered", "gone", "retry", "rejected", "unreachable"}
Unasked == {"notConfigured", "credentials", "unread"}
Result  == Asked \cup Unasked
Status  == {"accepted", "endpointGone", "unavailable", "badGateway"} \cup
           {"unauthorized", "notFound", "expired", "forbidden",
            "tooLarge", "badRequest", "tooMany", "internal"}
NoRequest == [step |-> "idle", tok |-> None, ep |-> None, charged |-> FALSE, result |-> None,
              good |-> FALSE]
ASSUME PushAssumption == None \notin Result

\* The platform would be asked on behalf of this request, if nothing failed.  The
\* properties compare the answers with it; no step reads it.
Authorised(tok, ep) ==
    LET row == verifier[tok.inst]
    IN  /\ row # None /\ row.secret = tok.secret /\ {row.mkid, tok.mkid} \subseteq ring.keys
        /\ ep # Unknown /\ ep.app = AppOf[tok.inst]
        /\ ep.ver \notin 0..(key[ep.app].min - 1)
        /\ ep.mkid \in ring.keys
        /\ clock \in 0..ep.exp

Init ==
    /\ InitTokens
    /\ request = [q \in Request |-> NoRequest]

\* Answers that say that the caller or its endpoint is bad.  Any other request
\* forgets what it presented when it is answered.
Refusals == {"unauthorized", "notFound", "expired", "forbidden"}
Forget(r) == IF r.step \in Status \ Refusals THEN [r EXCEPT !.tok = None, !.ep = None] ELSE r

At(q, step) == request[q].step = step
To(q, r)    == request' = [request EXCEPT ![q] = Forget(r)] /\ UNCHANGED tokenVars
Go(q, step) == To(q, [request[q] EXCEPT !.step = step])

\* A request without a bearer token, or with one that never was an instance's, is
\* answered 401 at once and left out.
Arrive(q) ==
    /\ request[q].step \notin Working
    /\ \E tok \in issued, ep \in minted \cup {Unknown} :
          To(q, [NoRequest EXCEPT !.step = "authenticate", !.tok = tok, !.ep = ep,
                                  !.good = Authorised(tok, ep)])

\* The row is read; a failure to read it is not the client's.
\* Faulty variant, for mutation runs: it is answered like a bad token.
Authenticate_FailureRefuses(q) ==
    /\ At(q, "authenticate")
    /\ \/ Authentic(request[q].tok) /\ Go(q, "key")
       \/ Go(q, "unauthorized")

Authenticate(q) ==
    /\ At(q, "authenticate")
    /\ \/ Authentic(request[q].tok) /\ Go(q, "key")
       \/ ~Authentic(request[q].tok) /\ Go(q, "unauthorized")
       \/ Go(q, "internal")

\* Open, as far as the app's row goes.  A token that does not open may still name a
\* version that is revoked.
OpenKey(q) ==
    LET e == request[q].ep
    IN  /\ At(q, "key")
        /\ \/ e = Unknown /\ (Go(q, "notFound") \/ Go(q, "expired"))
           \/ e # Unknown /\ ~HasKey(e) /\ Go(q, "expired")
           \/ e # Unknown /\ HasKey(e) /\ Go(q, "expiry")
           \/ Go(q, "internal")

\* Open reads the clock; the endpoint's app and the instance's are compared.
OpenExpiry(q) ==
    LET e == request[q].ep  same == e.app = AppOf[request[q].tok.inst]
    IN  /\ At(q, "expiry")
        /\ \/ ~Unexpired(e) /\ Go(q, "expired")
           \/ Unexpired(e) /\ ~same /\ Go(q, "forbidden")
           \/ Unexpired(e) /\ same /\ Go(q, "body")

\* The body is longer than the limit, breaks off, or has an encoding the relay
\* does not know.
ReadBody(q) ==
    /\ At(q, "body")
    /\ \E next \in {"admit", "tooLarge", "internal", "badRequest"} : Go(q, next)

\* Faulty variant, for mutation runs: admitted before the body is read, as the
\* body then may fail.
Admit_BeforeBody(q) ==
    /\ At(q, "body") \/ At(q, "admit")
    /\ \/ To(q, [request[q] EXCEPT !.step = IF @ = "body" THEN "body" ELSE "send",
                                   !.charged = TRUE])
       \/ Go(q, "tooMany")

Admit(q) ==
    /\ At(q, "admit")
    /\ \/ To(q, [request[q] EXCEPT !.step = "send", !.charged = TRUE])
       \/ Go(q, "tooMany")

\* Dispatcher.Send and the status its result is turned into.
Answer(result) ==
    CASE result = "delivered"     -> "accepted"
      [] result = "gone"          -> "endpointGone"
      [] result \in {"retry", "notConfigured"} -> "unavailable"
      [] result = "credentials"   -> "internal"
      [] OTHER                    -> "badGateway"

Send(q) ==
    /\ At(q, "send")
    /\ \E result \in Result :
          To(q, [request[q] EXCEPT !.step = Answer(result), !.result = result])

Restart ==
    /\ RestartTokens
    /\ request' = [q \in Request |-> NoRequest]

RequestStep(q) ==
    \/ Arrive(q) \/ Authenticate(q) \/ OpenKey(q) \/ OpenExpiry(q) \/ ReadBody(q)
    \/ Admit(q) \/ Send(q)

Next ==
    \/ \E q \in Request : RequestStep(q)
    \/ TokenStep /\ UNCHANGED request
    \/ Restart

PushSpec == Init /\ [][Next]_vars

-----------------------------------------------------------------------------
\* Type invariant: the write lock is the one running rotation's, the minimum never
\* runs ahead of the version, and no verifier is newer than the tokens can be.
TypeOK ==
    /\ clock \in 0..MaxTime /\ ring \in Rings /\ restarts \in 0..MaxRestarts
    /\ \A a \in App : key[a].min \in 1..key[a].ver /\ key[a].ver \in 1..MaxVersion[a]
    /\ \A i \in Instance : verifier[i] # None => verifier[i].secret \in 1..MaxSecret
    /\ \A tok \in issued : tok.secret \in 1..MaxSecret /\ tok.inst \in Instance
    /\ \A e \in minted : e.ver \in 1..key[e.app].ver
    /\ {r \in Rotation : rotation[r] # None} = {writer} \ {None}
    /\ \A d \in Device : sealing[d] # None => sealing[d].ver \in 0..key[sealing[d].app].ver
    /\ \A q \in Request :
        /\ request[q].step \in Working \cup Status \cup {"idle"}
        /\ request[q].step \in Working \cup Refusals =>
              /\ request[q].tok \in issued
              /\ request[q].ep \in minted \cup {Unknown}

\* Nothing is handed on for a request that was not good when it came: its instance's
\* token rotated or its instance deleted, its endpoint revoked, expired, under a secret
\* that is gone, or another app's.  Revoking or rotating takes effect with the first
\* request after it (send.go:46-83).
OnlyGoodSent == \A q \in Request : request[q].result # None => request[q].good

\* The other way round: the statuses that say that the caller or its endpoint is
\* bad, and that make clients drop them, are given only if that is so; a failure
\* of the relay's own never is (send.go:56-62 "A storage/infra error isn't an
\* auth failure", 66-77).
GoodNeverRefused ==
    \A q \in Request :
        request[q].step \in Refusals => ~Authorised(request[q].tok, request[q].ep)

\* A request is charged if and only if it is handed to the dispatcher: one that fails
\* at a check or at its body costs nothing, and no platform is asked for free (send.go:85
\* "Read the body before charging quota; a 413/disconnect can't be refunded").  The
\* charge is not for the platform: a push for which there are no usable credentials is
\* charged too, and none is asked (send.go:104, dispatcher.go:66, 131-135).
ChargedWhenHandedOn ==
    \A q \in Request : request[q].step \in Status =>
        (request[q].charged <=> request[q].result # None)
=============================================================================

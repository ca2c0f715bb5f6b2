---------------------------- MODULE Registration ----------------------------
(***************************************************************************)
(* Registration of instances (internal/api/register.go): by the admin or   *)
(* an app's own token, or by anyone once the app is public and the         *)
(* challenge solved that it may ask for.  The app's row is read in several *)
(* steps while its owner opens and closes it and exchanges its Turnstile   *)
(* keys (internal/app).                                                    *)
(*                                                                         *)
(* The two limits of Resolver that apply, per address and per app, answer  *)
(* here either way, and so does the service that checks solutions.         *)
(***************************************************************************)
EXTENDS Naturals

CONSTANTS
    Request,        \* requests at once
    MaxChanges      \* bound of the changes to the app

ASSUME RegistrationAssumption == MaxChanges \in Nat

VARIABLES
    creating,       \* the next step of the app's creation; "over" once it is done or failed
    public,         \* apps.is_public
    challenge,      \* the app's Turnstile keys, numbered, 0 for none
    token,          \* the app's token, numbered, 0 for none; a rotation makes a new one
    changes,        \* changes to the app so far
    reg,            \* where each request is
    \* History, read by the properties only:
    seen            \* what the app has allowed while each request ran

appVars == <<creating, public, challenge, token, changes>>
vars    == <<appVars, reg, seen>>

\* What a request asks for: the page with the form, or an instance, with the
\* app's token, the admin's, or none; and where it is or how it was answered.
Kind     == {"page", "register", "bearer", "admin"}
Working  == {"start", "public", "challenge", "page", "verify", "budget", "issue"}
Answered == {"rendered", "issued", "refused", "unauthorized", "failed"}
NoReg    == [step |-> "idle", kind |-> "page", token |-> 0, current |-> FALSE,
             asked |-> 0, solved |-> 0]

\* The app was public, and the keys it had then or later, 0 for none.
Nothing == [public |-> FALSE, had |-> {}]
See(s, pub, keys) == [public |-> s.public \/ pub,
                      had |-> IF s.public \/ pub THEN s.had \cup {keys} ELSE s.had]

Init ==
    /\ creating = "app" /\ public = FALSE /\ challenge = 0 /\ token = 0 /\ changes = 0
    /\ reg = [q \in Request |-> NoReg] /\ seen = [q \in Request |-> Nothing]

-----------------------------------------------------------------------------
\* A request.

At(q, step) == reg[q].step = step
Proceed(q, r) ==
    /\ reg' = [reg EXCEPT ![q] = r]
    /\ UNCHANGED <<appVars, seen>>
Go(q, step) == Proceed(q, [reg[q] EXCEPT !.step = step])

Arrive(q) ==
    /\ reg[q].step \notin Working
    /\ \E kind \in Kind, n \in 0..token :
          /\ kind # "bearer" => n = 0
          /\ reg' = [reg EXCEPT ![q] = [NoReg EXCEPT !.step = "start", !.kind = kind,
                                                     !.token = n,
                                                     !.current = n > 0 /\ n = token]]
    /\ seen' = [seen EXCEPT ![q] = See(Nothing, public, challenge)]
    /\ UNCHANGED appVars

\* The two reads of the app's row, in this order.
\* Faulty variant, for mutation runs: the other way round.
Reads_Swapped == <<"challenge", "public">>
Reads         == <<"public", "challenge">>
\* Faulty variant, for mutation runs: the page goes on like the form.
After_Form(q, read) == IF read = Reads[1] THEN Reads[2] ELSE "verify"
After(q, read) ==
    IF read = Reads[1] THEN Reads[2] ELSE IF reg[q].kind = "page" THEN "page" ELSE "verify"

\* AuthenticateAppToken.
Entitled(q) == token > 0 /\ reg[q].token = token

\* authorizeApp and the label: an app without a token authenticates nobody, and a
\* failure to read the row counts as a bad token; the admin's needs no row but then
\* names an app that may not exist, or none.
Authorize(q) ==
    /\ At(q, "start")
    /\ \/ /\ reg[q].kind = "bearer" /\ Entitled(q)
          /\ Go(q, "issue") \/ Go(q, "failed")
       \/ /\ reg[q].kind = "admin"
          /\ (creating # "app" /\ Go(q, "issue")) \/ Go(q, "failed")
       \/ reg[q].kind \in {"bearer", "admin"} /\ Go(q, "unauthorized")

\* The limit of the address, on pages or on registrations at the app.
AddressLimit(q) ==
    /\ At(q, "start") /\ reg[q].kind \in {"page", "register"}
    /\ Go(q, Reads[1]) \/ Go(q, "refused")

\* IsPublic: an app that does not exist is refused as one that is private.
IsPublic(q) ==
    /\ At(q, "public")
    /\ \/ public /\ Go(q, After(q, "public"))
       \/ ~public /\ Go(q, "refused")
       \/ Go(q, "failed")

\* resolveTurnstile: a row that cannot be read or a secret that does not open
\* ends the request.
GetTurnstile(q) ==
    /\ At(q, "challenge")
    /\ \/ /\ creating # "app"
          /\ Proceed(q, [reg[q] EXCEPT !.step = After(q, "challenge"), !.asked = challenge])
       \/ Go(q, "failed")

\* The solution, checked with the secret that was read, when one is asked for, and
\* then the label.
Verify(q) ==
    /\ At(q, "verify")
    /\ \/ Proceed(q, [reg[q] EXCEPT !.step = "budget", !.solved = reg[q].asked])
       \/ Go(q, "refused")
       \/ reg[q].asked # 0 /\ Go(q, "failed")

\* The limit of the app.
AppLimit(q) ==
    /\ At(q, "budget")
    /\ Go(q, "issue") \/ Go(q, "refused")

\* mint: the instance's row is written and its token answered.
Mint(q) ==
    /\ At(q, "issue")
    /\ Go(q, "issued") \/ Go(q, "failed")

RenderPage(q) == At(q, "page") /\ Go(q, "rendered")

-----------------------------------------------------------------------------
\* The app.  It is created in three writes; a failure between them answers 500 and
\* leaves what there is, for the administrator to complete.

Noted ==
    /\ seen' = [q \in Request |-> IF reg[q].step \in Working
                                  THEN See(seen[q], public', challenge') ELSE seen[q]]
    /\ UNCHANGED reg

CreateApp ==
    /\ creating = "app"
    /\ creating' \in {"public", "token", "over"}
    /\ UNCHANGED <<public, challenge, token, changes>> /\ Noted

CreatePublic ==
    /\ creating = "public"
    /\ creating' \in {"token", "over"} /\ public' = TRUE
    /\ UNCHANGED <<challenge, token, changes>> /\ Noted

CreateToken ==
    /\ creating = "token"
    /\ creating' = "over" /\ token' = token + 1
    /\ UNCHANGED <<public, challenge, changes>> /\ Noted

\* Then PATCH of the app, PUT and DELETE of its Turnstile keys, and a new token, by
\* its owner or the administrator, each one UPDATE.
Change ==
    /\ creating # "app" /\ changes < MaxChanges
    /\ changes' = changes + 1
    /\ UNCHANGED creating /\ Noted

SetPublic        == public' = ~public /\ UNCHANGED <<challenge, token>> /\ Change
SetTurnstile     == challenge' = changes + 1 /\ UNCHANGED <<public, token>> /\ Change
DeleteTurnstile  == challenge' = 0 /\ UNCHANGED <<public, token>> /\ Change
GenerateAppToken == token' = token + 1 /\ UNCHANGED <<public, challenge>> /\ Change

RequestStep(q) ==
    \/ Arrive(q) \/ Authorize(q) \/ AddressLimit(q) \/ IsPublic(q) \/ GetTurnstile(q)
    \/ Verify(q) \/ AppLimit(q) \/ Mint(q) \/ RenderPage(q)

Next ==
    \/ \E q \in Request : RequestStep(q)
    \/ CreateApp \/ CreatePublic \/ CreateToken
    \/ SetPublic \/ SetTurnstile \/ DeleteTurnstile \/ GenerateAppToken

RegistrationSpec == Init /\ [][Next]_vars

-----------------------------------------------------------------------------
\* Type invariant: only the public path asks for a challenge, only the one that was
\* asked for is solved, and only a token skips the path.
TypeOK ==
    /\ public \in BOOLEAN
    /\ creating \in {"app", "public", "token", "over"}
    /\ changes \in 0..MaxChanges /\ token \in 0..(changes + 1) /\ challenge \in 0..changes
    /\ \A q \in Request :
        /\ reg[q].step \in Working \cup Answered \cup {"idle"}
        /\ reg[q].solved \in {0, reg[q].asked}
        /\ reg[q].token \in 0..token
        /\ reg[q].kind \notin {"page", "register"} => reg[q].asked = 0
        /\ reg[q].step \in {"verify", "budget"} => reg[q].kind = "register"

\* Nobody gets at an app's page, its budget or its instances unless the app let
\* them while the request ran, however its owner changes it meanwhile: it was public,
\* and from then on it had the very keys that were shown or whose challenge was
\* solved, or had none if none was solved; or the request had the token that was the
\* app's when it came, as a rotated one is of no use any more and an app may have none
\* (middleware.go:35-39; register.go:150-207 "consumed only after a solved challenge,
\* so a flood of unsolved requests cannot drain the shared bucket").
RegistrationGuarded ==
    \A q \in Request :
        /\ reg[q].step \in {"page", "rendered"} =>
              seen[q].public /\ reg[q].asked \in seen[q].had
        /\ reg[q].step \in {"budget", "issue", "issued"} /\ reg[q].kind = "register" =>
              seen[q].public /\ reg[q].solved \in seen[q].had
        /\ reg[q].step \in {"issue", "issued"} /\ reg[q].kind = "bearer" =>
              reg[q].current
=============================================================================

------------------------ MODULE Registration_proofs ------------------------
(***************************************************************************)
(* Proofs about Registration, for any number of requests and changes.      *)
(***************************************************************************)
EXTENDS TLAPS, Registration

Reg == [step : Working \cup Answered \cup {"idle"}, kind : Kind, token : Nat,
        current : BOOLEAN, asked : Nat, solved : Nat]

Seen == [public : BOOLEAN, had : SUBSET Nat]

RowInv ==
    /\ public \in BOOLEAN
    /\ creating \in {"app", "public", "token", "over"}
    /\ changes \in 0..MaxChanges /\ token \in 0..(changes + 1) /\ challenge \in 0..changes
    /\ creating # "over" => token <= changes

\* What a request knows.  Its token is the app's only if it was when it came, since
\* tokens are never given out twice.
Justified(r, s) ==
    /\ r.token <= token
    /\ r.kind = "bearer" /\ r.token > 0 /\ r.token = token => r.current
    /\ r.kind \notin {"page", "register"} =>
          r.asked = 0 /\ r.step \notin {"public", "challenge", "page", "verify", "budget", "rendered"}
    /\ r.step \in {"verify", "budget"} => r.kind = "register"
    /\ r.step \in {"budget", "issue", "issued"} => r.solved = r.asked
    /\ r.solved \in {0, r.asked}
    /\ r.step \in {"start", "public", "challenge"} => r.solved = 0
    /\ r.kind = "page" => r.step \notin {"issue", "issued"}
    /\ r.kind \in {"page", "register"}
          /\ r.step \in {"challenge", "page", "rendered", "verify", "budget", "issue", "issued"} =>
             s.public
    /\ r.kind \in {"page", "register"}
          /\ r.step \in {"page", "rendered", "verify", "budget", "issue", "issued"} =>
             r.asked \in s.had
    /\ r.kind = "bearer" /\ r.step \in {"issue", "issued"} => r.current

\* While it runs, a request has seen the app as it is now.
UpToDate(r, s) ==
    r.step \in Working => /\ public => s.public
                          /\ s.public => challenge \in s.had

RegistrationInv ==
    /\ RowInv
    /\ reg \in [Request -> Reg]
    /\ seen \in [Request -> Seen]
    /\ \A q \in Request : Justified(reg[q], seen[q]) /\ UpToDate(reg[q], seen[q])

-----------------------------------------------------------------------------
LEMMA InitInv == Init => RegistrationInv
  <1>1. SUFFICES ASSUME Init PROVE RegistrationInv
    OBVIOUS
  <1>2. RowInv
    <2>1. public \in BOOLEAN
      BY <1>1, Zenon DEF Init
    <2> QED
      BY <1>1, <2>1, RegistrationAssumption DEF Init, RowInv
  <1>3. NoReg \in Reg /\ Nothing \in Seen
    BY DEF NoReg, Nothing, Reg, Seen, Kind, Working, Answered
  <1>4. Justified(NoReg, Nothing) /\ UpToDate(NoReg, Nothing)
    <2>1. /\ NoReg.step = "idle" /\ NoReg.kind = "page" /\ NoReg.token = 0
          /\ NoReg.asked = 0 /\ NoReg.solved = 0
      BY DEF NoReg
    <2> QED
      BY <1>1, <2>1 DEF Init, Justified, UpToDate, Working
  <1> QED
    BY <1>1, <1>2, <1>3, <1>4 DEF Init, RegistrationInv

\* A request that goes on to something it may know.
LEMMA ProceedInv ==
    ASSUME RegistrationInv, NEW q \in Request, NEW r \in Reg, Proceed(q, r),
           Justified(r, seen[q]), UpToDate(r, seen[q])
    PROVE  RegistrationInv'
  BY DEF RegistrationInv, Proceed, appVars, RowInv, Justified, UpToDate

\* A request that goes on to a step at which what it knows suffices.
Step(q, step) == [reg[q] EXCEPT !.step = step]

LEMMA GoInv ==
    ASSUME RegistrationInv, NEW q \in Request, NEW step \in Working \cup Answered, Go(q, step),
           Justified(Step(q, step), seen[q]), UpToDate(Step(q, step), seen[q])
    PROVE  RegistrationInv'
  <1>1. Step(q, step) \in Reg
    BY DEF RegistrationInv, Reg, Step
  <1> QED
    BY <1>1, ProceedInv DEF Go, Step

\* What there is to know of a request in a step, field by field.
LEMMA StepFields ==
    ASSUME RegistrationInv, NEW q \in Request, NEW step
    PROVE  /\ reg[q] \in Reg
           /\ Step(q, step).step = step
           /\ Step(q, step).kind = reg[q].kind
           /\ Step(q, step).token = reg[q].token
           /\ Step(q, step).current = reg[q].current
           /\ Step(q, step).asked = reg[q].asked
           /\ Step(q, step).solved = reg[q].solved
  BY DEF RegistrationInv, Reg, Step

\* Answered with an error, whatever it was about to do.
LEMMA ErrorInv ==
    ASSUME RegistrationInv, NEW q \in Request, NEW step \in {"refused", "unauthorized", "failed"},
           Go(q, step)
    PROVE  RegistrationInv'
  <1>1. step \in Answered /\ step \notin Working
    BY DEF Answered, Working
  <1>2. Justified(Step(q, step), seen[q]) /\ UpToDate(Step(q, step), seen[q])
    BY <1>1, StepFields DEF RegistrationInv, Justified, UpToDate
  <1> QED
    BY <1>1, <1>2, GoInv

LEMMA ArriveInv == ASSUME RegistrationInv, NEW q \in Request, Arrive(q) PROVE RegistrationInv'
  <1>1. PICK kind \in Kind, n \in 0..token :
          /\ kind # "bearer" => n = 0
          /\ reg' = [reg EXCEPT ![q] = [NoReg EXCEPT !.step = "start", !.kind = kind,
                                                     !.token = n,
                                                     !.current = n > 0 /\ n = token]]
    BY DEF Arrive
  <1> DEFINE r == [step |-> "start", kind |-> kind, token |-> n, current |-> n > 0 /\ n = token,
                   asked |-> 0, solved |-> 0]
             s == See(Nothing, public, challenge)
  <1>2. reg' = [reg EXCEPT ![q] = r] /\ seen' = [seen EXCEPT ![q] = s] /\ UNCHANGED appVars
    BY <1>1 DEF Arrive, NoReg
  <1>3. r \in Reg /\ s \in Seen
    BY DEF Reg, Seen, Working, RegistrationInv, RowInv, See, Nothing
  <1>4. /\ r.step = "start" /\ r.kind = kind /\ r.token = n /\ r.asked = 0 /\ r.solved = 0
        /\ n > 0 /\ n = token => r.current
    OBVIOUS
  <1>5. (public => s.public) /\ (s.public => challenge \in s.had)
    BY DEF See, Nothing, RegistrationInv, RowInv
  <1> HIDE DEF r, s
  <1>6. Justified(r, s) /\ UpToDate(r, s)
    BY <1>1, <1>4, <1>5 DEF Justified, UpToDate, RegistrationInv, RowInv
  <1> QED
    BY <1>2, <1>3, <1>6 DEF RegistrationInv, RowInv, Justified, UpToDate, appVars

LEMMA AuthorizeInv ==
    ASSUME RegistrationInv, NEW q \in Request, Authorize(q) PROVE RegistrationInv'
  <1>1. CASE Go(q, "issue") /\ reg[q].kind = "admin"
    <2>1. Justified(Step(q, "issue"), seen[q]) /\ UpToDate(Step(q, "issue"), seen[q])
      BY <1>1, StepFields DEF RegistrationInv, Justified, UpToDate, Authorize, At, Working, Reg
    <2> QED
      BY <1>1, <2>1, GoInv DEF Working
  <1>2. CASE Go(q, "issue") /\ reg[q].kind = "bearer" /\ Entitled(q)
    <2>1. Justified(Step(q, "issue"), seen[q]) /\ UpToDate(Step(q, "issue"), seen[q])
      BY <1>2, StepFields
      DEF RegistrationInv, RowInv, Justified, UpToDate, Authorize, At, Working, Reg, Entitled
    <2> QED
      BY <1>2, <2>1, GoInv DEF Working
  <1> QED
    BY <1>1, <1>2, ErrorInv DEF Authorize

LEMMA AddressLimitInv ==
    ASSUME RegistrationInv, NEW q \in Request, AddressLimit(q) PROVE RegistrationInv'
  <1>1. CASE Go(q, "public")
    <2>1. Justified(Step(q, "public"), seen[q]) /\ UpToDate(Step(q, "public"), seen[q])
      BY StepFields DEF RegistrationInv, Justified, UpToDate, AddressLimit, At, Working
    <2> QED
      BY <1>1, <2>1, GoInv DEF Working
  <1> QED
    BY <1>1, ErrorInv DEF AddressLimit, Reads

\* An app that was found public was so while the request ran.
LEMMA IsPublicInv == ASSUME RegistrationInv, NEW q \in Request, IsPublic(q) PROVE RegistrationInv'
  <1>1. CASE public /\ Go(q, "challenge")
    <2>1. Justified(Step(q, "challenge"), seen[q]) /\ UpToDate(Step(q, "challenge"), seen[q])
      BY <1>1, StepFields DEF RegistrationInv, Justified, UpToDate, IsPublic, At, Working
    <2> QED
      BY <1>1, <2>1, GoInv DEF Working
  <1> QED
    BY <1>1, ErrorInv DEF IsPublic, After, Reads

\* The keys that were read are the app's, and the app was public before.
LEMMA GetTurnstileInv ==
    ASSUME RegistrationInv, NEW q \in Request, GetTurnstile(q) PROVE RegistrationInv'
  <1> DEFINE next == IF reg[q].kind = "page" THEN "page" ELSE "verify"
             r    == [reg[q] EXCEPT !.step = next, !.asked = challenge]
  <1>1. CASE Proceed(q, r)
    <2>1. next \in Working /\ reg[q] \in Reg /\ challenge \in Nat
      BY DEF Working, RegistrationInv, RowInv
    <2>2. /\ r \in Reg /\ r.step = next /\ r.asked = challenge
          /\ r.kind = reg[q].kind /\ r.token = reg[q].token
          /\ r.current = reg[q].current /\ r.solved = reg[q].solved
      BY <2>1 DEF Reg
    <2>3. reg[q].step = "challenge" /\ reg[q].kind \in {"page", "register"}
      BY <2>1 DEF GetTurnstile, At, RegistrationInv, Justified, Reg, Kind
    <2>4. reg[q].solved = 0
      BY <2>1, <2>3 DEF RegistrationInv, Justified, Reg
    <2>5. Justified(r, seen[q]) /\ UpToDate(r, seen[q])
      BY <2>1, <2>2, <2>3, <2>4 DEF RegistrationInv, Justified, UpToDate, Working
    <2> HIDE DEF r
    <2> QED
      BY <1>1, <2>2, <2>5, ProceedInv
  <1> QED
    BY <1>1, ErrorInv DEF GetTurnstile, After, Reads

LEMMA VerifyInv == ASSUME RegistrationInv, NEW q \in Request, Verify(q) PROVE RegistrationInv'
  <1> DEFINE r == [reg[q] EXCEPT !.step = "budget", !.solved = reg[q].asked]
  <1>1. CASE Proceed(q, r)
    <2>1. reg[q] \in Reg /\ reg[q].step = "verify" /\ reg[q].kind = "register"
      BY DEF RegistrationInv, Verify, At, Justified
    <2>2. /\ r \in Reg /\ r.step = "budget" /\ r.solved = reg[q].asked
          /\ r.kind = reg[q].kind /\ r.token = reg[q].token
          /\ r.current = reg[q].current /\ r.asked = reg[q].asked
      BY <2>1 DEF Reg, Working
    <2>3. Justified(r, seen[q]) /\ UpToDate(r, seen[q])
      BY <2>1, <2>2 DEF RegistrationInv, Justified, UpToDate, Working
    <2> HIDE DEF r
    <2> QED
      BY <1>1, <2>2, <2>3, ProceedInv
  <1> QED
    BY <1>1, ErrorInv DEF Verify

LEMMA AppLimitInv == ASSUME RegistrationInv, NEW q \in Request, AppLimit(q) PROVE RegistrationInv'
  <1>1. CASE Go(q, "issue")
    <2>1. Justified(Step(q, "issue"), seen[q]) /\ UpToDate(Step(q, "issue"), seen[q])
      BY StepFields DEF RegistrationInv, Justified, UpToDate, AppLimit, At, Working
    <2> QED
      BY <1>1, <2>1, GoInv DEF Working
  <1> QED
    BY <1>1, ErrorInv DEF AppLimit

LEMMA MintInv == ASSUME RegistrationInv, NEW q \in Request, Mint(q) PROVE RegistrationInv'
  <1>1. CASE Go(q, "issued")
    <2>1. Justified(Step(q, "issued"), seen[q]) /\ UpToDate(Step(q, "issued"), seen[q])
      BY StepFields DEF RegistrationInv, Justified, UpToDate, Mint, At, Working
    <2> QED
      BY <1>1, <2>1, GoInv DEF Answered
  <1> QED
    BY <1>1, ErrorInv DEF Mint

LEMMA RenderPageInv ==
    ASSUME RegistrationInv, NEW q \in Request, RenderPage(q) PROVE RegistrationInv'
  <1>1. Justified(Step(q, "rendered"), seen[q]) /\ UpToDate(Step(q, "rendered"), seen[q])
    BY StepFields DEF RegistrationInv, Justified, UpToDate, RenderPage, At, Working, Reg, Kind
  <1> QED
    BY <1>1, GoInv DEF RenderPage, Answered

-----------------------------------------------------------------------------
\* What is seen stays seen, and the app as it is now is.
LEMMA SeeFields ==
    ASSUME NEW s \in Seen, NEW pub \in BOOLEAN, NEW keys
    PROVE  /\ s.public \/ pub => See(s, pub, keys).public
           /\ s.had \subseteq See(s, pub, keys).had
           /\ See(s, pub, keys).public => keys \in See(s, pub, keys).had
  <1>1. CASE s.public \/ pub
    BY <1>1 DEF See, Seen
  <1>2. CASE ~(s.public \/ pub)
    BY <1>2 DEF See, Seen
  <1> QED
    BY <1>1, <1>2

\* The app changes: every request that runs sees it.
LEMMA NotedInv ==
    ASSUME RegistrationInv, RowInv', Noted, token' \in {token, token + 1}
    PROVE  RegistrationInv'
  <1>1. seen' \in [Request -> Seen]
    BY DEF Noted, RegistrationInv, RowInv, See, Seen
  <1>2. ASSUME NEW q \in Request
        PROVE  Justified(reg[q], seen[q])' /\ UpToDate(reg[q], seen[q])'
    <2>1. reg'[q] = reg[q] /\ reg[q] \in Reg /\ Justified(reg[q], seen[q])
          /\ UpToDate(reg[q], seen[q]) /\ seen[q] \in Seen
      BY DEF Noted, RegistrationInv
    <2>2. CASE reg[q].step \in Working
      <3>1. /\ seen[q].public \/ public' => seen'[q].public
            /\ seen[q].had \subseteq seen'[q].had
            /\ seen'[q].public => challenge' \in seen'[q].had
        <4>1. seen'[q] = See(seen[q], public', challenge')
          BY <2>2 DEF Noted
        <4> QED
          <5> PICK pub \in BOOLEAN : pub = public'
            BY DEF RowInv
          <5> PICK keys : keys = challenge'
            OBVIOUS
          <5>1. pub = public' /\ keys = challenge'
            OBVIOUS
          <5>2. seen'[q] = See(seen[q], pub, keys)
            BY <4>1, <5>1
          <5>3. /\ seen[q].public \/ pub => seen'[q].public
                /\ seen[q].had \subseteq seen'[q].had
                /\ seen'[q].public => keys \in seen'[q].had
            BY <2>1, <5>2, SeeFields
          <5> QED
            BY <5>1, <5>3
      <3>2. Justified(reg[q], seen[q])'
        BY <2>1, <3>1 DEF Justified, Reg, RegistrationInv, RowInv
      <3> QED
        BY <2>1, <3>1, <3>2 DEF UpToDate
    <2>3. CASE reg[q].step \notin Working
      <3>1. seen'[q] = seen[q]
        BY <2>3 DEF Noted
      <3> QED
        BY <2>1, <2>3, <3>1 DEF Justified, UpToDate, Reg, RegistrationInv, RowInv
    <2> QED
      BY <2>2, <2>3
  <1> QED
    BY <1>1, <1>2 DEF Noted, RegistrationInv

LEMMA CreationInv ==
    ASSUME RegistrationInv, CreateApp \/ CreatePublic \/ CreateToken PROVE RegistrationInv'
  <1>1. CASE CreateApp
    <2>1. RowInv' /\ Noted /\ token' \in {token, token + 1}
      BY <1>1, RegistrationAssumption DEF CreateApp, RegistrationInv, RowInv
    <2> QED
      BY <2>1, NotedInv
  <1>2. CASE CreatePublic
    <2>1. RowInv' /\ Noted /\ token' \in {token, token + 1}
      BY <1>2, RegistrationAssumption DEF CreatePublic, RegistrationInv, RowInv
    <2> QED
      BY <2>1, NotedInv
  <1>3. CASE CreateToken
    <2>1. RowInv' /\ Noted /\ token' \in {token, token + 1}
      BY <1>3, RegistrationAssumption DEF CreateToken, RegistrationInv, RowInv
    <2> QED
      BY <2>1, NotedInv
  <1> QED
    BY <1>1, <1>2, <1>3

LEMMA ChangeInv ==
    ASSUME RegistrationInv, SetPublic \/ SetTurnstile \/ DeleteTurnstile \/ GenerateAppToken
    PROVE  RegistrationInv'
  <1>1. CASE SetPublic
    <2>1. RowInv' /\ Noted /\ token' \in {token, token + 1}
      BY <1>1, RegistrationAssumption DEF SetPublic, Change, RegistrationInv, RowInv
    <2> QED
      BY <2>1, NotedInv
  <1>2. CASE SetTurnstile
    <2>1. RowInv' /\ Noted /\ token' \in {token, token + 1}
      BY <1>2, RegistrationAssumption DEF SetTurnstile, Change, RegistrationInv, RowInv
    <2> QED
      BY <2>1, NotedInv
  <1>3. CASE DeleteTurnstile
    <2>1. RowInv' /\ Noted /\ token' \in {token, token + 1}
      BY <1>3, RegistrationAssumption DEF DeleteTurnstile, Change, RegistrationInv, RowInv
    <2> QED
      BY <2>1, NotedInv
  <1>4. CASE GenerateAppToken
    <2>1. RowInv' /\ Noted /\ token' \in {token, token + 1}
      BY <1>4, RegistrationAssumption DEF GenerateAppToken, Change, RegistrationInv, RowInv
    <2> QED
      BY <2>1, NotedInv
  <1> QED
    BY <1>1, <1>2, <1>3, <1>4

-----------------------------------------------------------------------------
LEMMA NextInv == RegistrationInv /\ [Next]_vars => RegistrationInv'
  <1>1. SUFFICES ASSUME RegistrationInv, [Next]_vars PROVE RegistrationInv'
    OBVIOUS
  <1>2. ASSUME NEW q \in Request, RequestStep(q) PROVE RegistrationInv'
    BY <1>1, <1>2, ArriveInv, AuthorizeInv, AddressLimitInv, IsPublicInv, GetTurnstileInv,
       VerifyInv, AppLimitInv, MintInv, RenderPageInv DEF RequestStep
  <1>3. CASE UNCHANGED vars
    BY <1>1, <1>3 DEF vars, appVars, RegistrationInv, RowInv, Justified, UpToDate
  <1> QED
    BY <1>1, <1>2, <1>3, CreationInv, ChangeInv DEF Next

LEMMA SpecInv == RegistrationSpec => []RegistrationInv
  BY InitInv, NextInv, PTL DEF RegistrationSpec

\* Every request is where the code can take one of its kind, and the app has as
\* many tokens as were made (register.go, middleware.go).
THEOREM TypeCorrect == RegistrationSpec => []TypeOK
  <1>1. RegistrationInv => TypeOK
    BY DEF RegistrationInv, RowInv, Justified, TypeOK, Reg
  <1> QED
    BY <1>1, SpecInv, PTL

\* Nobody gets at an app's page, budget or instances unless the app has let them
\* while the request ran, whatever its owner changes meanwhile (register.go:150-207,
\* middleware.go:35-39).
THEOREM OnlyLetIn == RegistrationSpec => []RegistrationGuarded
  <1>1. RegistrationInv => RegistrationGuarded
    BY DEF RegistrationInv, Justified, RegistrationGuarded, Reg, Kind
  <1> QED
    BY <1>1, SpecInv, PTL
=============================================================================

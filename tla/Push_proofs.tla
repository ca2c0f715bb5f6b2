---------------------------- MODULE Push_proofs ----------------------------
(***************************************************************************)
(* Proofs about Push and the Tokens below it, for any number of apps,      *)
(* instances, rotations, subscriptions and requests.                       *)
(***************************************************************************)
EXTENDS TLAPS, Push

Secret    == UNION {r.keys : r \in Rings}
Key       == [ver : Nat, min : Nat]
Rotating  == [app : App, revoke : BOOLEAN, read : Key]
Sealing   == [app : App, exp : Nat, ver : Nat]
Row       == [secret : Nat, mkid : Secret]
Bearer    == [inst : Instance, secret : Nat, mkid : Secret]
Endpoint  == [app : App, mkid : Secret, ver : Nat, exp : Nat]

Types ==
    /\ clock \in 0..MaxTime /\ ring \in Rings /\ restarts \in 0..MaxRestarts
    /\ key \in [App -> Key]
    /\ verifier \in [Instance -> Row \cup {None}]
    /\ issued \subseteq Bearer
    /\ minted \subseteq Endpoint
    /\ rotation \in [Rotation -> Rotating \cup {None}]
    /\ sealing \in [Device -> Sealing \cup {None}]
    /\ revoked \in [App -> Nat]

\* The minimum has moved only by a revocation.
Keys ==
    \A a \in App : /\ key[a].min \in 1..key[a].ver
                   /\ key[a].ver \in 1..MaxVersion[a]
                   /\ key[a].min > 1 => revoked[a] > 0

\* A rotation that holds the write lock has read what is there.
Locked ==
    /\ writer # None => writer \in Rotation /\ rotation[writer] # None
    /\ \A r \in Rotation : rotation[r] # None =>
          /\ writer = r
          /\ rotation[r].read = key[rotation[r].app]
          /\ rotation[r].read.ver < MaxVersion[rotation[r].app]

\* No token is ahead of the row it is compared with.
NotAhead ==
    /\ \A i \in Instance : verifier[i] # None => verifier[i].secret \in 1..MaxSecret
    /\ \A tok \in issued :
          /\ tok.secret \in 1..MaxSecret
          /\ verifier[tok.inst] # None => tok.secret <= verifier[tok.inst].secret
    /\ \A e \in minted : e.ver \in 1..key[e.app].ver
    /\ \A d \in Device : sealing[d] # None => sealing[d].ver <= key[sealing[d].app].ver

TokensInv == Types /\ Keys /\ Locked /\ NotAhead

LEMMA RingFacts == ASSUME TokensInv PROVE ring.primary \in Secret /\ ring.primary \in ring.keys
  BY TokensAssumption DEF TokensInv, Types, Secret

-----------------------------------------------------------------------------
LEMMA InitTokensInv == InitTokens => TokensInv
  <1>1. SUFFICES ASSUME InitTokens PROVE TokensInv
    OBVIOUS
  <1>2. ring.primary \in Secret
    BY <1>1, TokensAssumption DEF InitTokens, Secret
  <1>3. Types
    BY <1>1, <1>2, TokensAssumption
    DEF InitTokens, Types, Key, Row, Bearer, Verifier, BearerToken
  <1>4. Keys /\ Locked
    BY <1>1, TokensAssumption DEF InitTokens, Keys, Locked
  <1>5. NotAhead
    BY <1>1, TokensAssumption DEF InitTokens, NotAhead, Verifier, BearerToken
  <1> QED
    BY <1>3, <1>4, <1>5 DEF TokensInv

LEMMA RotateBeginInv ==
    ASSUME TokensInv, NEW r \in Rotation, NEW a \in App, NEW revoke \in BOOLEAN,
           RotateBegin(r, a, revoke)
    PROVE  TokensInv'
  <1> DEFINE tx == [app |-> a, revoke |-> revoke, read |-> key[a]]
  <1>1. tx \in Rotating /\ tx # None /\ r # None
    BY TokensAssumption DEF TokensInv, Types, Rotating, Key
  <1>2. Types'
    BY <1>1 DEF TokensInv, Types, RotateBegin
  <1>3. Locked'
    <2>1. rotation' = [rotation EXCEPT ![r] = tx] /\ writer' = r /\ UNCHANGED key
      BY DEF RotateBegin
    <2>2. \A s \in Rotation : rotation[s] = None
      BY TokensAssumption DEF TokensInv, Locked, RotateBegin
    <2>3. tx.app = a /\ tx.read = key[a] /\ key[a].ver < MaxVersion[a]
      BY DEF RotateBegin
    <2> HIDE DEF tx
    <2> QED
      BY <1>1, <2>1, <2>2, <2>3 DEF TokensInv, Types, Locked
  <1>4. Keys' /\ NotAhead'
    BY DEF TokensInv, Keys, NotAhead, RotateBegin
  <1> QED
    BY <1>2, <1>3, <1>4 DEF TokensInv

\* What the commit writes: the next version of what is there.
LEMMA CommitWrites ==
    ASSUME TokensInv, NEW r \in Rotation, RotateCommit(r)
    PROVE  \E a \in App, revoke \in BOOLEAN :
              /\ rotation[r].app = a
              /\ key[a].ver < MaxVersion[a]
              /\ key' = [key EXCEPT ![a] =
                            [ver |-> key[a].ver + 1,
                             min |-> IF revoke THEN key[a].ver + 1 ELSE key[a].min]]
              /\ revoked' = [revoked EXCEPT ![a] = IF revoke THEN revoked[a] + 1 ELSE revoked[a]]
  <1>1. rotation[r] \in Rotating /\ rotation[r].read = key[rotation[r].app]
        /\ rotation[r].read.ver < MaxVersion[rotation[r].app]
    BY DEF TokensInv, Types, Locked, RotateCommit
  <1>2. rotation[r].app \in App /\ rotation[r].revoke \in BOOLEAN
        /\ revoked[rotation[r].app] \in Nat
    BY <1>1 DEF Rotating, TokensInv, Types
  <1> DEFINE a      == rotation[r].app
             revoke == rotation[r].revoke
  <1>3. key' = [key EXCEPT ![a] = [ver |-> key[a].ver + 1,
                                   min |-> IF revoke THEN key[a].ver + 1 ELSE key[a].min]]
    BY <1>1 DEF RotateCommit
  <1>4. revoked' = [revoked EXCEPT ![a] = IF revoke THEN revoked[a] + 1 ELSE revoked[a]]
    <2>1. revoked' = [revoked EXCEPT ![a] = revoked[a] + (IF revoke THEN 1 ELSE 0)]
      BY DEF RotateCommit
    <2>2. revoked[a] + (IF revoke THEN 1 ELSE 0) = IF revoke THEN revoked[a] + 1 ELSE revoked[a]
      BY <1>2
    <2> QED
      BY <2>1, <2>2
  <1>5. key[a].ver < MaxVersion[a]
    BY <1>1
  <1> HIDE DEF revoke
  <1> QED
    BY <1>2, <1>3, <1>4, <1>5 DEF revoke

LEMMA RotateCommitInv ==
    ASSUME TokensInv, NEW r \in Rotation, RotateCommit(r) PROVE TokensInv'
  <1>1. PICK a \in App, revoke \in BOOLEAN :
          /\ rotation[r].app = a
          /\ key[a].ver < MaxVersion[a]
          /\ key' = [key EXCEPT ![a] =
                        [ver |-> key[a].ver + 1,
                         min |-> IF revoke THEN key[a].ver + 1 ELSE key[a].min]]
          /\ revoked' = [revoked EXCEPT ![a] = IF revoke THEN revoked[a] + 1 ELSE revoked[a]]
    BY CommitWrites
  <1>2. /\ key' \in [App -> Key] /\ revoked' \in [App -> Nat]
        /\ key'[a].ver = key[a].ver + 1
        /\ key'[a].min = IF revoke THEN key[a].ver + 1 ELSE key[a].min
        /\ revoked'[a] = IF revoke THEN revoked[a] + 1 ELSE revoked[a]
        /\ \A b \in App \ {a} : key'[b] = key[b] /\ revoked'[b] = revoked[b]
    BY <1>1 DEF TokensInv, Types, Key
  <1>3. Types'
    BY <1>2 DEF TokensInv, Types, RotateCommit
  <1>4. Keys'
    BY <1>1, <1>2, TokensAssumption DEF TokensInv, Types, Key, Keys
  <1>5. \A s \in Rotation : rotation'[s] = None
    BY DEF TokensInv, Types, Locked, RotateCommit
  <1>6. Locked'
    BY <1>5 DEF Locked, RotateCommit
  <1>7. \A b \in App : key[b].ver \in Nat /\ key'[b].ver \in Nat /\ key[b].ver <= key'[b].ver
    BY <1>2 DEF TokensInv, Types, Key
  <1>8. NotAhead'
    BY <1>7 DEF TokensInv, Types, NotAhead, RotateCommit, Endpoint, Sealing
  <1> QED
    BY <1>3, <1>4, <1>6, <1>8 DEF TokensInv

LEMMA RotateFailsInv ==
    ASSUME TokensInv, NEW r \in Rotation, RotateFails(r) PROVE TokensInv'
  <1>1. \A s \in Rotation : rotation'[s] = None
    BY DEF TokensInv, Types, Locked, RotateFails
  <1> QED
    BY <1>1 DEF TokensInv, Types, Keys, Locked, NotAhead, RotateFails

\* Steps of a subscription change what it knows, and hand out a token at its end.
LEMMA SubscriptionInv ==
    ASSUME TokensInv, NEW d \in Device,
           \/ \E a \in App, ttl \in TTL : Subscribe(d, a, ttl)
           \/ CurrentKey(d) \/ SubscribeAnswer(d) \/ SubscribeFails(d)
    PROVE  TokensInv'
  <1>1. Keys' /\ Locked'
    BY DEF TokensInv, Keys, Locked, Subscribe, CurrentKey, SubscribeAnswer, SubscribeFails, rows
  <1>2. CASE \E a \in App, ttl \in TTL : Subscribe(d, a, ttl)
    <2>1. PICK a \in App, ttl \in TTL : Subscribe(d, a, ttl)
      BY <1>2
    <2> DEFINE s == [app |-> a, exp |-> clock + ttl, ver |-> 0]
    <2>2. s \in Sealing
      BY TokensAssumption DEF TokensInv, Types, Sealing
    <2>3. Types'
      BY <2>1, <2>2 DEF TokensInv, Types, Subscribe, rows
    <2>4. NotAhead'
      BY <2>1, <2>2 DEF TokensInv, Types, NotAhead, Subscribe, rows, Key
    <2> QED
      BY <1>1, <2>3, <2>4 DEF TokensInv
  <1>3. CASE CurrentKey(d)
    <2>1. sealing[d] \in Sealing /\ key[sealing[d].app].ver \in Nat
      BY <1>3 DEF CurrentKey, TokensInv, Types, Sealing, Key
    <2>2. Types'
      BY <1>3, <2>1 DEF TokensInv, Types, CurrentKey, rows, Sealing
    <2>3. NotAhead'
      BY <1>3, <2>1 DEF TokensInv, Types, NotAhead, CurrentKey, rows, Sealing
    <2> QED
      BY <1>1, <2>2, <2>3 DEF TokensInv
  <1>4. CASE SubscribeAnswer(d)
    <2>1. PICK e \in Endpoint : /\ minted' = minted \cup {e}
                                /\ e.ver \in 1..key[e.app].ver
      <3> DEFINE s == sealing[d]
                 e == [app |-> s.app, mkid |-> ring.primary, ver |-> s.ver, exp |-> s.exp]
      <3>1. s \in Sealing /\ s.ver > 0 /\ s.ver <= key[s.app].ver
        BY <1>4 DEF SubscribeAnswer, TokensInv, Types, NotAhead
      <3>2. e \in Endpoint /\ e.ver \in 1..key[e.app].ver
        BY <3>1, RingFacts DEF Sealing, Endpoint, TokensInv, Types, Key
      <3> QED
        BY <1>4, <3>2 DEF SubscribeAnswer
    <2>2. Types'
      BY <1>4, <2>1 DEF TokensInv, Types, SubscribeAnswer, rows
    <2>3. NotAhead'
      BY <1>4, <2>1 DEF TokensInv, Types, NotAhead, SubscribeAnswer, rows
    <2> QED
      BY <1>1, <2>2, <2>3 DEF TokensInv
  <1>5. CASE SubscribeFails(d)
    BY <1>1, <1>5 DEF TokensInv, Types, NotAhead, SubscribeFails, rows
  <1> QED
    BY <1>2, <1>3, <1>4, <1>5

LEMMA RotateTokenInv ==
    ASSUME TokensInv, NEW i \in Instance, RotateToken(i) PROVE TokensInv'
  <1> DEFINE n == verifier[i].secret + 1
  <1>1. n \in 1..MaxSecret /\ verifier[i].secret \in Nat
    BY TokensAssumption DEF RotateToken, TokensInv, Types, NotAhead, Row
  <1>2. /\ Verifier(n) \in Row /\ Verifier(n).secret = n
        /\ BearerToken(i, n) \in Bearer /\ BearerToken(i, n).secret = n
        /\ BearerToken(i, n).inst = i
    BY <1>1, RingFacts, TokensAssumption DEF Verifier, BearerToken, Row, Bearer
  <1>3. Types'
    BY <1>2 DEF TokensInv, Types, RotateToken
  <1>4. Keys' /\ Locked'
    BY DEF TokensInv, Keys, Locked, RotateToken
  <1>5. NotAhead'
    BY <1>1, <1>2 DEF TokensInv, Types, NotAhead, RotateToken, Bearer, Row
  <1> QED
    BY <1>3, <1>4, <1>5 DEF TokensInv

LEMMA DeleteInstanceInv ==
    ASSUME TokensInv, NEW i \in Instance, DeleteInstance(i) PROVE TokensInv'
  BY DEF TokensInv, Types, Keys, Locked, NotAhead, DeleteInstance

LEMMA TickInv == ASSUME TokensInv, Tick PROVE TokensInv'
  BY TokensAssumption DEF TokensInv, Types, Keys, Locked, NotAhead, Tick, rows

LEMMA RestartTokensInv == ASSUME TokensInv, RestartTokens PROVE TokensInv'
  <1>1. Types'
    BY TokensAssumption DEF TokensInv, Types, RestartTokens
  <1> QED
    BY <1>1 DEF TokensInv, Keys, Locked, NotAhead, RestartTokens

LEMMA TokenStepInv == ASSUME TokensInv, TokenStep PROVE TokensInv'
  BY RotateBeginInv, RotateCommitInv, RotateFailsInv, SubscriptionInv, RotateTokenInv,
     DeleteInstanceInv, TickInv DEF TokenStep

-----------------------------------------------------------------------------
\* The specification keeps TokensInv.

LEMMA TokensInvariant == PushSpec => []TokensInv
  <1>1. Init => TokensInv
    BY InitTokensInv DEF Init
  <1>2. TokensInv /\ [Next]_vars => TokensInv'
    <2>1. SUFFICES ASSUME TokensInv, [Next]_vars PROVE TokensInv'
      OBVIOUS
    <2>2. CASE UNCHANGED tokenVars
      BY <2>1, <2>2 DEF tokenVars, TokensInv, Types, Keys, Locked, NotAhead
    <2>3. ASSUME NEW q \in Request, RequestStep(q) PROVE UNCHANGED tokenVars
      BY <2>3 DEF RequestStep, Arrive, Authenticate, OpenKey, OpenExpiry, ReadBody, Admit, Send,
                  Go, To
    <2> QED
      BY <2>1, <2>2, <2>3, TokenStepInv, RestartTokensInv DEF Next, Restart, vars
  <1> QED
    BY <1>1, <1>2, PTL DEF PushSpec

-----------------------------------------------------------------------------
\* Tokens implements Endpoints.

Usable == {e \in minted : e.ver >= key[e.app].min}
Dead   == {e \in minted : e.ver < key[e.app].min}

\* A revocation takes exactly the tokens of its app: they were all sealed with a
\* version it has passed.
LEMMA CommitRefines ==
    ASSUME TokensInv, NEW r \in Rotation, RotateCommit(r)
    PROVE  Abstract!Step \/ UNCHANGED Abstract!states
  <1>1. PICK a \in App, revoke \in BOOLEAN :
          /\ rotation[r].app = a
          /\ key[a].ver < MaxVersion[a]
          /\ key' = [key EXCEPT ![a] =
                        [ver |-> key[a].ver + 1,
                         min |-> IF revoke THEN key[a].ver + 1 ELSE key[a].min]]
          /\ revoked' = [revoked EXCEPT ![a] = IF revoke THEN revoked[a] + 1 ELSE revoked[a]]
    BY CommitWrites
  <1>2. /\ key'[a].min = IF revoke THEN key[a].ver + 1 ELSE key[a].min
        /\ \A b \in App \ {a} : key'[b] = key[b]
        /\ minted' = minted
    BY <1>1 DEF RotateCommit, TokensInv, Types
  <1>3. \A e \in minted : /\ e.app \in App /\ e.ver \in Nat
                          /\ e.ver <= key[e.app].ver
                          /\ key[e.app].ver \in Nat /\ key[e.app].min \in Nat
    BY DEF TokensInv, Types, NotAhead, Endpoint, Key
  <1>4. CASE revoke
    <2> DEFINE of == {e \in Usable : e.app = a}
    <2>1. Usable' = Usable \ of /\ Dead' = Dead \cup of
      BY <1>2, <1>3, <1>4 DEF Usable, Dead
    <2>2. revoked' = [revoked EXCEPT ![a] = revoked[a] + 1]
      BY <1>1, <1>4
    <2> QED
      BY <2>1, <2>2 DEF Abstract!Step, Abstract!Revoke, Usable, Dead
  <1>5. CASE ~revoke
    <2>1. Usable' = Usable /\ Dead' = Dead
      BY <1>2, <1>3, <1>5 DEF Usable, Dead
    <2>2. revoked' = revoked
      BY <1>1, <1>5 DEF TokensInv, Types
    <2> QED
      BY <2>1, <2>2 DEF Abstract!states, Usable, Dead
  <1> QED
    BY <1>4, <1>5

\* A token is handed out usable, or dead if its app has revoked since its version
\* was read.
LEMMA AnswerRefines ==
    ASSUME TokensInv, NEW d \in Device, SubscribeAnswer(d)
    PROVE  Abstract!Step \/ UNCHANGED Abstract!states
  <1> DEFINE s == sealing[d]
             e == [app |-> s.app, mkid |-> ring.primary, ver |-> s.ver, exp |-> s.exp]
  <1>1. /\ minted' = minted \cup {e} /\ key' = key /\ revoked' = revoked
        /\ e.app \in App /\ e.ver \in Nat \ {0}
        /\ key[e.app].min \in Nat
        /\ key[e.app].min > 1 => revoked[e.app] > 0
    BY DEF SubscribeAnswer, rows, TokensInv, Types, Keys, Sealing, Key
  <1> HIDE DEF e
  <1>2. CASE e \in minted
    BY <1>1, <1>2 DEF Abstract!states
  <1>3. CASE e \notin minted /\ e.ver >= key[e.app].min
    <2>1. Usable' = Usable \cup {e} /\ Dead' = Dead /\ e \notin Dead
      BY <1>1, <1>3 DEF Usable, Dead
    <2>2. e \in (Usable' \cup Dead') \ (Usable \cup Dead)
      BY <1>3, <2>1 DEF Usable, Dead
    <2> QED
      BY <1>1, <2>1, <2>2 DEF Abstract!Step, Abstract!HandOut, Usable, Dead
  <1>4. CASE e \notin minted /\ e.ver < key[e.app].min
    <2>1. Dead' = Dead \cup {e} /\ Usable' = Usable /\ e \notin Usable
      BY <1>1, <1>4 DEF Usable, Dead
    <2>2. e \in (Usable' \cup Dead') \ (Usable \cup Dead)
      BY <1>4, <2>1 DEF Usable, Dead
    <2>3. revoked[e.app] > 0
      BY <1>1, <1>4
    <2> QED
      BY <1>1, <2>1, <2>2, <2>3 DEF Abstract!Step, Abstract!Stillborn, Usable, Dead
  <1> QED
    BY <1>1, <1>2, <1>3, <1>4

\* Whatever rotations and subscriptions overlap, no revocation is taken back and a
\* token that was on its way never works again (app.go:286-308, 130-141).
THEOREM RevocationsHold == PushSpec => RevocationsFinal
  <1>1. Init => Abstract!Begin
    BY DEF Init, InitTokens, Abstract!Begin
  <1>2. ASSUME TokensInv, [Next]_vars PROVE [Abstract!Step]_(Abstract!states)
    <2>1. CASE UNCHANGED <<key, minted, revoked>>
      BY <2>1 DEF Abstract!states
    <2>2. CASE \E r \in Rotation : RotateCommit(r)
      BY <1>2, <2>2, CommitRefines
    <2>3. CASE \E d \in Device : SubscribeAnswer(d)
      BY <1>2, <2>3, AnswerRefines
    <2>4. ASSUME NEW q \in Request, RequestStep(q) PROVE UNCHANGED <<key, minted, revoked>>
      BY <2>4 DEF RequestStep, Arrive, Authenticate, OpenKey, OpenExpiry, ReadBody, Admit, Send,
                  Go, To, tokenVars
    <2> QED
      BY <1>2, <2>1, <2>2, <2>3, <2>4
      DEF Next, Restart, RestartTokens, TokenStep, RotateBegin, RotateFails, Subscribe,
          CurrentKey, SubscribeFails, RotateToken, DeleteInstance, Tick, rows, vars, tokenVars
  <1> QED
    BY <1>1, <1>2, TokensInvariant, PTL DEF PushSpec, RevocationsFinal, Abstract!Promise

-----------------------------------------------------------------------------
\* Requests.

Open(r, e) == e # Unknown /\ HasKey(e)
Same(r, e) == e.app = AppOf[r.tok.inst]

\* What is still to be checked decides whether the request was good when it came;
\* once it has been handed on or refused, the decision was right.
Judged(r) ==
    /\ r.step = "authenticate" =>
          (Authentic(r.tok) /\ Open(r, r.ep) /\ Same(r, r.ep) /\ Unexpired(r.ep) => r.good)
    /\ r.step = "key" => (Open(r, r.ep) /\ Same(r, r.ep) /\ Unexpired(r.ep) => r.good)
    /\ r.step = "expiry" => r.ep # Unknown /\ (Same(r, r.ep) /\ Unexpired(r.ep) => r.good)
    /\ r.step \in {"body", "admit", "send"} => r.good
    /\ r.result # None => r.good
    /\ r.step \in Refusals => ~Authorised(r.tok, r.ep)

\* Charged with the admission, handed on with the answer.
Accounted(r) ==
    /\ r.charged \in BOOLEAN /\ r.result \in Result \cup {None}
    /\ r.step \in Working \ {"send"} => ~r.charged /\ r.result = None
    /\ r.step = "send" => r.charged /\ r.result = None
    /\ r.step \in Status => (r.charged <=> r.result # None)

Presented(r) ==
    /\ r.step \in Working \cup Status \cup {"idle"}
    /\ r.step \in Working \cup Refusals => /\ r.tok \in issued
                                           /\ r.ep \in minted \cup {Unknown}

RequestRec == [step : Working \cup Status \cup {"idle"},
               tok : Bearer \cup {None}, ep : Endpoint \cup {None, Unknown},
               charged : BOOLEAN, result : Result \cup {None}, good : BOOLEAN]

RequestsInv ==
    /\ request \in [Request -> RequestRec]
    /\ \A q \in Request : Judged(request[q]) /\ Accounted(request[q]) /\ Presented(request[q])

\* The checks together are what the properties compare with.
LEMMA AuthorisedIs ==
    ASSUME TokensInv, NEW tok \in issued, NEW e \in minted \cup {Unknown}
    PROVE  Authorised(tok, e) <=> /\ Authentic(tok)
                                  /\ e # Unknown /\ HasKey(e)
                                  /\ e.app = AppOf[tok.inst]
                                  /\ Unexpired(e)
  <1>1. CASE e # Unknown
    <2>1. /\ e.ver \in Nat /\ e.exp \in Nat /\ e.app \in App
          /\ key[e.app].min \in Nat /\ clock \in Nat
      BY <1>1, TokensAssumption DEF TokensInv, Types, Endpoint, Key
    <2>2. e.ver \notin 0..(key[e.app].min - 1) <=> e.ver >= key[e.app].min
      BY <2>1
    <2>3. clock \in 0..e.exp <=> clock <= e.exp
      BY <2>1
    <2> QED
      BY <1>1, <2>2, <2>3
      DEF Authorised, Authentic, Parses, Opens, HasKey, Derives, Unexpired
  <1>2. CASE e = Unknown
    BY <1>2 DEF Authorised
  <1> QED
    BY <1>1, <1>2

\* What is found wrong with a request stays wrong as long as the process lives:
\* secrets, minima and the clock only grow, and deleted instances do not come back.
LEMMA RowsGrow ==
    ASSUME TokensInv, TokenStep
    PROVE  /\ \A tok \in issued :
                 verifier'[tok.inst] # None /\ verifier'[tok.inst].secret = tok.secret
                    => verifier'[tok.inst] = verifier[tok.inst]
           /\ \A a \in App : key[a].min \in Nat /\ key'[a].min \in Nat
                             /\ key[a].min <= key'[a].min
           /\ clock \in Nat /\ clock' \in Nat /\ clock <= clock' /\ ring' = ring
           /\ issued \subseteq issued' /\ minted \subseteq minted'
  <1>1. CASE \E i \in Instance : RotateToken(i)
    <2>1. PICK i \in Instance : RotateToken(i)
      BY <1>1
    <2>2. /\ verifier[i] # None /\ verifier[i].secret \in Nat
          /\ verifier' = [verifier EXCEPT ![i] = Verifier(verifier[i].secret + 1)]
          /\ \A tok \in issued : /\ tok.inst \in Instance /\ tok.secret \in Nat
                                 /\ tok.inst = i => tok.secret <= verifier[i].secret
      BY <2>1, TokensAssumption DEF RotateToken, TokensInv, Types, NotAhead, Bearer, Row
    <2>3. ASSUME NEW tok \in issued,
                 verifier'[tok.inst] # None, verifier'[tok.inst].secret = tok.secret
          PROVE  verifier'[tok.inst] = verifier[tok.inst]
      <3>1. CASE tok.inst = i
        <4>1. verifier'[i].secret = verifier[i].secret + 1
          BY <2>2 DEF TokensInv, Types, Verifier
        <4> QED
          BY <2>2, <2>3, <3>1, <4>1
      <3> QED
        BY <2>2, <3>1 DEF TokensInv, Types
    <2> QED
      BY <2>1, <2>3 DEF RotateToken, TokensInv, Types, Key
  <1>2. CASE \E i \in Instance : DeleteInstance(i)
    BY <1>2 DEF DeleteInstance, TokensInv, Types, Key, Bearer
  <1>3. CASE \E r \in Rotation : RotateCommit(r)
    <2>1. PICK r \in Rotation : RotateCommit(r)
      BY <1>3
    <2>2. PICK a \in App, revoke \in BOOLEAN :
            key' = [key EXCEPT ![a] =
                       [ver |-> key[a].ver + 1,
                        min |-> IF revoke THEN key[a].ver + 1 ELSE key[a].min]]
      BY <2>1, CommitWrites
    <2>3. key'[a].min = IF revoke THEN key[a].ver + 1 ELSE key[a].min
      BY <2>2 DEF TokensInv, Types
    <2>4. \A b \in App : /\ key[b].ver \in Nat /\ key[b].min \in Nat
                         /\ key[b].min <= key[b].ver
      BY DEF TokensInv, Types, Keys, Key
    <2>5. \A b \in App : key[b].min \in Nat /\ key'[b].min \in Nat /\ key[b].min <= key'[b].min
      BY <2>2, <2>3, <2>4 DEF TokensInv, Types
    <2> QED
      BY <2>1, <2>5 DEF RotateCommit, TokensInv, Types
  <1>4. CASE Tick
    BY <1>4, TokensAssumption DEF Tick, rows, TokensInv, Types, Key
  <1>5. CASE \E r \in Rotation : RotateFails(r)
                \/ \E a \in App, revoke \in BOOLEAN : RotateBegin(r, a, revoke)
    BY <1>5, TokensAssumption DEF RotateBegin, RotateFails, TokensInv, Types, Key
  <1>6. CASE \E d \in Device : \/ \E a \in App, ttl \in TTL : Subscribe(d, a, ttl)
                               \/ CurrentKey(d) \/ SubscribeAnswer(d) \/ SubscribeFails(d)
    BY <1>6, TokensAssumption
    DEF Subscribe, CurrentKey, SubscribeAnswer, SubscribeFails, rows, TokensInv, Types, Key
  <1> QED
    BY <1>1, <1>2, <1>3, <1>4, <1>5, <1>6 DEF TokenStep

LEMMA ChecksOnlyFail ==
    ASSUME TokensInv, TokenStep
    PROVE  /\ \A tok \in issued : Authentic(tok)' => Authentic(tok)
           /\ \A e \in minted : HasKey(e)' => HasKey(e)
           /\ \A e \in minted : Unexpired(e)' => Unexpired(e)
           /\ \A tok \in issued, e \in minted \cup {Unknown} :
                 Authorised(tok, e)' => Authorised(tok, e)
  <1>1. \A tok \in issued : Authentic(tok)' => Authentic(tok)
    BY RowsGrow DEF Authentic, Parses, Opens
  <1>2. \A e \in minted : e.app \in App /\ e.ver \in Nat /\ e.exp \in Nat
    BY DEF TokensInv, Types, Endpoint
  <1>3. \A e \in minted : HasKey(e)' => HasKey(e)
    BY <1>2, RowsGrow DEF HasKey, Derives
  <1>4. \A e \in minted : Unexpired(e)' => Unexpired(e)
    BY <1>2, RowsGrow DEF Unexpired
  <1>5. ASSUME NEW tok \in issued, NEW e \in minted, Authorised(tok, e)'
        PROVE  Authorised(tok, e)
    <2>1. e.ver \notin 0..(key[e.app].min - 1)
      BY <1>2, <1>5, RowsGrow DEF Authorised
    <2>2. clock \in 0..e.exp
      BY <1>2, <1>5, RowsGrow DEF Authorised
    <2> QED
      BY <1>5, <2>1, <2>2, RowsGrow DEF Authorised
  <1>6. \A tok \in issued : Authorised(tok, Unknown)' => Authorised(tok, Unknown)
    BY DEF Authorised
  <1> QED
    BY <1>1, <1>3, <1>4, <1>5, <1>6

LEMMA NoRequestFields ==
    /\ NoRequest \in RequestRec
    /\ NoRequest.step = "idle" /\ ~NoRequest.charged /\ NoRequest.result = None
    /\ "idle" \notin Working \cup Refusals \cup Status
  BY DEF NoRequest, RequestRec, Working, Refusals, Status

LEMMA AllIdle == request = [q \in Request |-> NoRequest] => RequestsInv
  BY NoRequestFields DEF RequestsInv, Judged, Accounted, Presented, RequestRec

LEMMA TokenStepRequestsInv ==
    ASSUME TokensInv, RequestsInv, TokenStep, UNCHANGED request
    PROVE  RequestsInv'
  <1>1. ASSUME NEW q \in Request PROVE Presented(request[q])'
    BY RowsGrow DEF RequestsInv, Presented
  <1>2. ASSUME NEW q \in Request PROVE Judged(request[q])'
    <2> DEFINE r == request[q]
    <2>1. Judged(r) /\ Presented(r) /\ request'[q] = r
      BY DEF RequestsInv
    <2>2. CASE r.step \in Working \cup Refusals
      <3>1. r.tok \in issued /\ r.ep \in minted \cup {Unknown}
        BY <2>1, <2>2 DEF Presented
      <3>2. /\ Authentic(r.tok)' => Authentic(r.tok)
            /\ Open(r, r.ep)' => Open(r, r.ep)
            /\ r.ep # Unknown => (Unexpired(r.ep)' => Unexpired(r.ep))
            /\ Authorised(r.tok, r.ep)' => Authorised(r.tok, r.ep)
            /\ Same(r, r.ep)' => Same(r, r.ep)
        BY <2>1, <3>1, ChecksOnlyFail DEF Open, Same
      <3>3. Open(r, r.ep) => r.ep # Unknown
        BY DEF Open
      <3> QED
        BY <2>1, <2>2, <3>2, <3>3 DEF Judged
    <2>3. CASE r.step \notin Working \cup Refusals
      BY <2>1, <2>3 DEF Judged, Working
    <2> QED
      BY <2>2, <2>3
  <1> QED
    BY <1>1, <1>2 DEF RequestsInv, Accounted, RequestRec

\* A request goes on, or is answered and then may forget what it presented.
LEMMA ToInv ==
    ASSUME RequestsInv, NEW q \in Request, NEW r \in RequestRec,
           Judged(r), Accounted(r), Presented(r), To(q, r)
    PROVE  RequestsInv'
  <1> DEFINE f == Forget(r)
  <1>1. f \in RequestRec /\ Judged(f) /\ Accounted(f) /\ Presented(f)
    <2>1. CASE r.step \in Status \ Refusals
      <3>1. f = [r EXCEPT !.tok = None, !.ep = None]
        BY <2>1 DEF Forget
      <3>2. /\ f \in RequestRec /\ f.step = r.step
            /\ f.charged = r.charged /\ f.result = r.result /\ f.good = r.good
        BY <3>1 DEF RequestRec
      <3>3. r.step \notin Working \cup Refusals
        BY <2>1 DEF Status, Working, Refusals
      <3> HIDE DEF f
      <3> QED
        BY <2>1, <3>2, <3>3 DEF Judged, Accounted, Presented, Working
    <2>2. CASE r.step \notin Status \ Refusals
      BY <2>2 DEF Forget
    <2> QED
      BY <2>1, <2>2
  <1>2. request' = [request EXCEPT ![q] = f] /\ UNCHANGED tokenVars
    BY DEF To
  <1> HIDE DEF f
  <1>3. ASSUME NEW p \in Request PROVE (Judged(request[p]) /\ Presented(request[p]))'
    <2>1. /\ Judged(request'[p]) /\ Presented(request'[p])
      BY <1>1, <1>2 DEF RequestsInv
    <2> QED
      BY <1>2, <2>1
      DEF Judged, Presented, Authentic, Parses, Opens, Open, HasKey, Derives, Same, Unexpired,
          Authorised, tokenVars
  <1> QED
    BY <1>1, <1>2, <1>3 DEF RequestsInv, Accounted

\* The fields of a request that goes on to another step.
Step(q, step) == [request[q] EXCEPT !.step = step]

LEMMA StepFields ==
    ASSUME RequestsInv, NEW q \in Request, NEW step \in Working \cup Status
    PROVE  /\ request[q] \in RequestRec /\ Step(q, step) \in RequestRec
           /\ Step(q, step).step = step
           /\ Step(q, step).tok = request[q].tok
           /\ Step(q, step).ep = request[q].ep
           /\ Step(q, step).charged = request[q].charged
           /\ Step(q, step).result = request[q].result
           /\ Step(q, step).good = request[q].good
  BY DEF RequestsInv, RequestRec, Step

\* A request that goes on as it should and is not handed on yet.
LEMMA GoInv ==
    ASSUME RequestsInv, NEW q \in Request, NEW step \in (Working \ {"send"}) \cup Status,
           request[q].step \in Working \ {"send"}, Go(q, step), Judged(Step(q, step))
    PROVE  RequestsInv'
  <1>1. /\ Judged(request[q]) /\ Accounted(request[q]) /\ Presented(request[q])
    BY DEF RequestsInv
  <1>2. Accounted(Step(q, step))
    BY <1>1, StepFields DEF Accounted, Working, Status
  <1>3. Presented(Step(q, step))
    BY <1>1, StepFields DEF Presented
  <1> QED
    BY <1>2, <1>3, StepFields, ToInv DEF Go, Step

\* Answered with something that is not a refusal.
LEMMA AnswerInv ==
    ASSUME RequestsInv, NEW q \in Request, NEW step \in Status \ Refusals,
           request[q].step \in Working \ {"send"}, Go(q, step)
    PROVE  RequestsInv'
  <1>1. step \notin Working \cup Refusals
    BY DEF Working, Status, Refusals
  <1>2. Judged(request[q]) /\ Accounted(request[q])
    BY DEF RequestsInv
  <1>3. Judged(Step(q, step))
    BY <1>1, <1>2, StepFields DEF Judged, Accounted, Working
  <1> QED
    BY <1>3, GoInv

LEMMA ArriveInv ==
    ASSUME TokensInv, RequestsInv, NEW q \in Request, Arrive(q) PROVE RequestsInv'
  <1>1. PICK tok \in issued, ep \in minted \cup {Unknown} :
          To(q, [NoRequest EXCEPT !.step = "authenticate", !.tok = tok, !.ep = ep,
                                  !.good = Authorised(tok, ep)])
    BY DEF Arrive
  <1>2. PICK good \in BOOLEAN : good = Authorised(tok, ep)
    BY DEF Authorised
  <1> DEFINE r == [NoRequest EXCEPT !.step = "authenticate", !.tok = tok, !.ep = ep, !.good = good]
  <1>3. To(q, r)
    BY <1>1, <1>2, Zenon
  <1>4. tok \in Bearer /\ ep \in Endpoint \cup {Unknown} /\ "authenticate" \in Working
    BY DEF TokensInv, Types, Working
  <1>5. /\ r \in RequestRec
        /\ r.step = "authenticate" /\ r.tok = tok /\ r.ep = ep /\ r.good = good
        /\ ~r.charged /\ r.result = None
    BY <1>4, NoRequestFields DEF RequestRec
  <1> HIDE DEF r
  <1>6. Judged(r)
    BY <1>2, <1>5, AuthorisedIs DEF Judged, Open, Same, Refusals
  <1>7. Accounted(r) /\ Presented(r)
    BY <1>5 DEF Accounted, Presented, Working, Status, Refusals, RequestRec
  <1> QED
    BY <1>3, <1>5, <1>6, <1>7, ToInv

LEMMA AuthenticateInv ==
    ASSUME TokensInv, RequestsInv, NEW q \in Request, Authenticate(q) PROVE RequestsInv'
  <1>1. /\ request[q].step = "authenticate" /\ Judged(request[q])
        /\ Accounted(request[q]) /\ Presented(request[q])
    BY DEF RequestsInv, Authenticate, At
  <1>2. CASE Authentic(request[q].tok) /\ Go(q, "key")
    <2>1. Judged(Step(q, "key"))
      BY <1>1, <1>2, StepFields DEF Judged, Accounted, Working, Refusals, Open, Same
    <2> QED
      BY <1>1, <1>2, <2>1, GoInv DEF Working
  <1>3. CASE ~Authentic(request[q].tok) /\ Go(q, "unauthorized")
    <2>1. ~Authorised(request[q].tok, request[q].ep)
      BY <1>1, <1>3, AuthorisedIs DEF Presented, Working
    <2>2. Judged(Step(q, "unauthorized"))
      BY <1>1, <2>1, StepFields DEF Judged, Accounted, Working, Status
    <2> QED
      BY <1>1, <1>3, <2>2, GoInv DEF Working, Status
  <1> QED
    BY <1>1, <1>2, <1>3, AnswerInv DEF Authenticate, Working, Status, Refusals

LEMMA OpenKeyInv ==
    ASSUME TokensInv, RequestsInv, NEW q \in Request, OpenKey(q) PROVE RequestsInv'
  <1> DEFINE e == request[q].ep
  <1>1. /\ request[q].step = "key" /\ Judged(request[q])
        /\ Accounted(request[q]) /\ Presented(request[q])
    BY DEF RequestsInv, OpenKey, At
  <1>2. CASE Go(q, "expiry") /\ e # Unknown /\ HasKey(e)
    <2>1. Judged(Step(q, "expiry"))
      BY <1>1, <1>2, StepFields DEF Judged, Accounted, Working, Refusals, Open, Same
    <2> QED
      BY <1>1, <1>2, <2>1, GoInv DEF Working
  <1>3. ASSUME NEW step \in {"notFound", "expired"}, Go(q, step), e = Unknown \/ ~HasKey(e)
        PROVE  RequestsInv'
    <2>1. ~Authorised(request[q].tok, e)
      BY <1>1, <1>3, AuthorisedIs DEF Presented, Working
    <2>2. Judged(Step(q, step))
      BY <1>1, <1>3, <2>1, StepFields DEF Judged, Accounted, Working, Status
    <2> QED
      BY <1>1, <1>3, <2>2, GoInv DEF Working, Status
  <1> QED
    BY <1>1, <1>2, <1>3, AnswerInv DEF OpenKey, Working, Status, Refusals

LEMMA OpenExpiryInv ==
    ASSUME TokensInv, RequestsInv, NEW q \in Request, OpenExpiry(q) PROVE RequestsInv'
  <1> DEFINE e    == request[q].ep
             same == e.app = AppOf[request[q].tok.inst]
  <1>1. /\ request[q].step = "expiry" /\ Judged(request[q])
        /\ Accounted(request[q]) /\ Presented(request[q])
    BY DEF RequestsInv, OpenExpiry, At
  <1>2. CASE Unexpired(e) /\ same /\ Go(q, "body")
    <2>1. Judged(Step(q, "body"))
      BY <1>1, <1>2, StepFields DEF Judged, Accounted, Working, Refusals, Same
    <2> QED
      BY <1>1, <1>2, <2>1, GoInv DEF Working
  <1>3. ASSUME NEW step \in {"expired", "forbidden"}, Go(q, step), ~Unexpired(e) \/ ~same
        PROVE  RequestsInv'
    <2>1. ~Authorised(request[q].tok, e)
      BY <1>1, <1>3, AuthorisedIs DEF Presented, Working
    <2>2. Judged(Step(q, step))
      BY <1>1, <1>3, <2>1, StepFields DEF Judged, Accounted, Working, Status
    <2> QED
      BY <1>1, <1>3, <2>2, GoInv DEF Working, Status
  <1> QED
    BY <1>2, <1>3 DEF OpenExpiry

LEMMA ReadBodyInv ==
    ASSUME RequestsInv, NEW q \in Request, ReadBody(q) PROVE RequestsInv'
  <1>1. request[q].step = "body" /\ Judged(request[q]) /\ Accounted(request[q])
    BY DEF RequestsInv, ReadBody, At
  <1>2. CASE Go(q, "admit")
    <2>1. Judged(Step(q, "admit"))
      BY <1>1, StepFields DEF Judged, Refusals, Working
    <2> QED
      BY <1>1, <1>2, <2>1, GoInv DEF Working
  <1> QED
    BY <1>1, <1>2, AnswerInv DEF ReadBody, Working, Status, Refusals

LEMMA AdmitInv ==
    ASSUME RequestsInv, NEW q \in Request, Admit(q) PROVE RequestsInv'
  <1> DEFINE r == [request[q] EXCEPT !.step = "send", !.charged = TRUE]
  <1>1. /\ request[q].step = "admit" /\ request[q] \in RequestRec
        /\ Judged(request[q]) /\ Accounted(request[q]) /\ Presented(request[q])
    BY DEF RequestsInv, Admit, At
  <1>2. CASE To(q, r)
    <2>1. /\ r \in RequestRec /\ r.step = "send" /\ r.charged /\ r.result = request[q].result
          /\ r.good = request[q].good /\ r.tok = request[q].tok /\ r.ep = request[q].ep
      BY <1>1 DEF RequestRec, Working
    <2> HIDE DEF r
    <2>2. Judged(r) /\ Accounted(r) /\ Presented(r)
      BY <1>1, <2>1 DEF Judged, Accounted, Presented, Working, Status, Refusals, RequestRec
    <2> QED
      BY <1>2, <2>1, <2>2, ToInv
  <1> QED
    BY <1>1, <1>2, AnswerInv DEF Admit, Working, Status, Refusals

LEMMA SendInv ==
    ASSUME RequestsInv, NEW q \in Request, Send(q) PROVE RequestsInv'
  <1>1. PICK result \in Result :
          To(q, [request[q] EXCEPT !.step = Answer(result), !.result = result])
    BY DEF Send
  <1> DEFINE r == [request[q] EXCEPT !.step = Answer(result), !.result = result]
  <1>2. /\ request[q].step = "send" /\ request[q] \in RequestRec
        /\ Judged(request[q]) /\ Accounted(request[q])
    BY DEF RequestsInv, Send, At
  <1>3. Answer(result) \in Status \ Refusals
    BY DEF Answer, Result, Status, Refusals
  <1>4. /\ r \in RequestRec /\ r.step = Answer(result) /\ r.result = result
        /\ r.charged = request[q].charged /\ r.good = request[q].good
    BY <1>2, <1>3 DEF RequestRec
  <1>5. r.step \notin Working \cup Refusals
    BY <1>3, <1>4 DEF Working, Status, Refusals
  <1> HIDE DEF r
  <1>6. Judged(r) /\ Accounted(r) /\ Presented(r)
    BY <1>2, <1>3, <1>4, <1>5, PushAssumption DEF Judged, Accounted, Presented, Working, RequestRec
  <1> QED
    BY <1>1, <1>4, <1>6, ToInv DEF r

LEMMA RequestsInvariant == PushSpec => [](TokensInv /\ RequestsInv)
  <1>1. Init => RequestsInv
    BY AllIdle DEF Init
  <1>2. TokensInv /\ RequestsInv /\ [Next]_vars => RequestsInv'
    <2>1. SUFFICES ASSUME TokensInv, RequestsInv, [Next]_vars PROVE RequestsInv'
      OBVIOUS
    <2>2. ASSUME NEW q \in Request, RequestStep(q) PROVE RequestsInv'
      BY <2>1, <2>2, ArriveInv, AuthenticateInv, OpenKeyInv, OpenExpiryInv, ReadBodyInv, AdmitInv,
         SendInv DEF RequestStep
    <2>3. CASE UNCHANGED vars
      BY <2>1, <2>3
      DEF vars, tokenVars, RequestsInv, Judged, Accounted, Presented, Authentic, Parses, Opens,
          Open, HasKey, Derives, Same, Unexpired, Authorised
    <2>4. CASE Restart
      <3>1. request' = [q \in Request |-> NoRequest]
        BY <2>4 DEF Restart
      <3>2. RequestsInv'
        BY <3>1, NoRequestFields DEF RequestsInv, Judged, Accounted, Presented, RequestRec
      <3> QED
        BY <3>2
    <2> QED
      BY <2>1, <2>2, <2>3, <2>4, TokenStepRequestsInv DEF Next
  <1> QED
    BY <1>1, <1>2, TokensInvariant, PTL DEF PushSpec

-----------------------------------------------------------------------------
\* The rows, rotations, subscriptions and requests have their types, and no version
\* is ahead of its row (app.go, instance.go, send.go).
THEOREM TypeCorrect == PushSpec => []TypeOK
  <1>1. TokensInv /\ RequestsInv => TypeOK
    <2>1. SUFFICES ASSUME TokensInv, RequestsInv PROVE TypeOK
      OBVIOUS
    <2>2. {r \in Rotation : rotation[r] # None} = {writer} \ {None}
      BY <2>1, TokensAssumption DEF TokensInv, Locked
    <2>3. \A d \in Device : sealing[d] # None => sealing[d].ver \in 0..key[sealing[d].app].ver
      BY <2>1 DEF TokensInv, Types, NotAhead, Sealing, Key
    <2> QED
      BY <2>1, <2>2, <2>3
      DEF TypeOK, TokensInv, Types, Keys, NotAhead, RequestsInv, Presented, Bearer
  <1> QED
    BY <1>1, RequestsInvariant, PTL

\* Revoking, rotating and deleting take effect with the first request after them
\* (send.go:46-83).
THEOREM NothingBadSent == PushSpec => []OnlyGoodSent
  <1>1. RequestsInv => OnlyGoodSent
    BY DEF RequestsInv, Judged, OnlyGoodSent
  <1> QED
    BY <1>1, RequestsInvariant, PTL

\* No failure of the relay makes a client drop a good token or endpoint
\* (send.go:56-77).
THEOREM NothingGoodRefused == PushSpec => []GoodNeverRefused
  <1>1. RequestsInv => GoodNeverRefused
    BY DEF RequestsInv, Judged, GoodNeverRefused
  <1> QED
    BY <1>1, RequestsInvariant, PTL

\* Whatever a request fails at, it is charged if and only if it was handed to the
\* dispatcher (send.go:85-114).
THEOREM ChargesMatchHandOns == PushSpec => []ChargedWhenHandedOn
  <1>1. RequestsInv => ChargedWhenHandedOn
    BY DEF RequestsInv, Accounted, ChargedWhenHandedOn
  <1> QED
    BY <1>1, RequestsInvariant, PTL
=============================================================================

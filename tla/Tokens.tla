------------------------------- MODULE Tokens -------------------------------
(***************************************************************************)
(* The secrets a push presents and what becomes of them: the bearer token  *)
(* of an instance (internal/instance/instance.go) and the endpoint token   *)
(* of a device (internal/seal/seal.go), under the keys of internal/app     *)
(* and the keyring of internal/crypto.                                     *)
(*                                                                         *)
(* A sealed blob opens with the very key it was sealed with and with no    *)
(* other; keys are named by what they are derived from.  The keyring is    *)
(* read at the start of the process and may change from one to the next.   *)
(***************************************************************************)
EXTENDS Naturals, FiniteSets

CONSTANTS
    App, Instance,
    AppOf,          \* the app of an instance
    None,
    Rings,          \* keyrings: the primary secret and all of them
    Rotation,       \* rotations of endpoint keys that can run at once
    Device,         \* subscriptions that can run at once
    TTL,            \* lifetimes a subscription may ask for
    MaxTime, MaxVersion, MaxSecret, MaxMinted, MaxRestarts      \* bounds

ASSUME TokensAssumption ==
    /\ AppOf \in [Instance -> App]
    /\ \A r \in Rings : r.primary \in r.keys
    /\ TTL \subseteq Nat \ {0}
    /\ MaxVersion \in [App -> Nat \ {0}]
    /\ MaxTime \in Nat /\ MaxSecret \in Nat \ {0} /\ MaxRestarts \in Nat
    /\ None \notin Rotation \cup [app : App, revoke : BOOLEAN, read : [ver : Nat, min : Nat]]

VARIABLES
    clock,
    ring,           \* the process's keyring
    key,            \* apps.key_version and min_key_version of each row
    verifier,       \* instances.enc_token_hash, None for no row
    issued,         \* bearer tokens their owners have
    minted,         \* endpoint tokens handed to devices
    writer,         \* the transaction that holds SQLite's write lock, or None
    rotation,       \* what each rotation has read, None when it does not run
    sealing,        \* what each subscription has read, None when it does not run
    restarts,
    \* History, read by the properties only:
    revoked         \* revocations of each app

tokenVars == <<clock, ring, key, verifier, issued, minted, writer, rotation,
               sealing, restarts, revoked>>
rows == <<key, verifier, issued, writer, rotation, revoked>>

Verifier(n) == [secret |-> n, mkid |-> ring.primary]
BearerToken(i, n) == [inst |-> i, secret |-> n, mkid |-> ring.primary]

InitTokens ==
    /\ clock = 0
    /\ ring \in Rings
    /\ key = [a \in App |-> [ver |-> 1, min |-> 1]]
    /\ verifier = [i \in Instance |-> Verifier(1)]
    /\ issued = {BearerToken(i, 1) : i \in Instance}
    /\ minted = {}
    /\ writer = None
    /\ rotation = [r \in Rotation |-> None]
    /\ sealing = [d \in Device |-> None]
    /\ restarts = 0
    /\ revoked = [a \in App |-> 0]

-----------------------------------------------------------------------------
\* Checks of what is presented.

Opens(sealed) == sealed.mkid \in ring.keys
Parses(tok)   == Opens(tok)

\* Authenticate: the token and the row's verifier both open with the ring, and
\* the secret is the one whose hash the row holds.
Authentic(tok) ==
    LET row == verifier[tok.inst]
    IN  Parses(tok) /\ row # None /\ Opens(row) /\ row.secret = tok.secret

\* SealingKey has a key for the endpoint token.
Derives(e) == e.mkid \in ring.keys
\* Faulty variant, for mutation runs: a version before the minimum passes.
HasKey_OneBefore(e) == e.ver + 1 >= key[e.app].min /\ Derives(e)
HasKey(e)           == e.ver >= key[e.app].min /\ Derives(e)

Unexpired(e) == clock <= e.exp

-----------------------------------------------------------------------------
\* Rotation of an app's endpoint key, a transaction that begins with the write
\* lock, reads the versions and writes them.

\* Faulty variant, for mutation runs: the transaction takes the lock when it writes.
RotateBegin_Deferred(r, a, revoke) ==
    /\ rotation[r] = None
    /\ key[a].ver < MaxVersion[a]
    /\ rotation' = [rotation EXCEPT ![r] = [app |-> a, revoke |-> revoke, read |-> key[a]]]
    /\ UNCHANGED <<clock, ring, key, verifier, issued, minted, writer, sealing, restarts,
                   revoked>>

RotateBegin(r, a, revoke) ==
    /\ rotation[r] = None /\ writer = None
    /\ key[a].ver < MaxVersion[a]
    /\ writer' = r
    /\ rotation' = [rotation EXCEPT ![r] = [app |-> a, revoke |-> revoke, read |-> key[a]]]
    /\ UNCHANGED <<clock, ring, key, verifier, issued, minted, sealing, restarts, revoked>>

RotateCommit(r) ==
    LET tx == rotation[r]  next == tx.read.ver + 1
    IN  /\ tx # None
        /\ key' = [key EXCEPT ![tx.app] =
                      [ver |-> next, min |-> IF tx.revoke THEN next ELSE tx.read.min]]
        /\ revoked' = [revoked EXCEPT ![tx.app] = @ + (IF tx.revoke THEN 1 ELSE 0)]
        /\ writer' = None
        /\ rotation' = [rotation EXCEPT ![r] = None]
        /\ UNCHANGED <<clock, ring, verifier, issued, minted, sealing, restarts>>

\* The client has gone or the statement fails: the transaction is rolled back.
RotateFails(r) ==
    /\ rotation[r] # None
    /\ writer' = None
    /\ rotation' = [rotation EXCEPT ![r] = None]
    /\ UNCHANGED <<clock, ring, key, verifier, issued, minted, sealing, restarts, revoked>>

-----------------------------------------------------------------------------
\* A subscription: the app's rate, the body and the app's existence are checked,
\* the expiry is taken from the clock, the current key is read, and the answer
\* hands the token out.

Subscribe(d, a, ttl) ==
    /\ sealing[d] = None
    /\ Cardinality(minted) < MaxMinted
    /\ sealing' = [sealing EXCEPT ![d] = [app |-> a, exp |-> clock + ttl, ver |-> 0]]
    /\ UNCHANGED <<clock, ring, minted, restarts, rows>>

CurrentKey(d) ==
    /\ sealing[d] # None /\ sealing[d].ver = 0
    /\ sealing' = [sealing EXCEPT ![d].ver = key[sealing[d].app].ver]
    /\ UNCHANGED <<clock, ring, minted, restarts, rows>>

\* The device has its token; one whose answer is lost is never presented.
SubscribeAnswer(d) ==
    LET s == sealing[d]
        e == [app |-> s.app, mkid |-> ring.primary, ver |-> s.ver, exp |-> s.exp]
    IN  /\ s # None /\ s.ver > 0
        /\ Cardinality(minted \cup {e}) <= MaxMinted
        /\ minted' = minted \cup {e}
        /\ sealing' = [sealing EXCEPT ![d] = None]
        /\ UNCHANGED <<clock, ring, restarts, rows>>

SubscribeFails(d) ==
    /\ sealing[d] # None
    /\ sealing' = [sealing EXCEPT ![d] = None]
    /\ UNCHANGED <<clock, ring, minted, restarts, rows>>

-----------------------------------------------------------------------------
\* A new bearer token is one UPDATE, from which on the old one stops working,
\* whether the answer with the new one arrives or is lost.
RotateToken(i) ==
    LET n == verifier[i].secret + 1
    IN  /\ writer = None /\ verifier[i] # None /\ n <= MaxSecret
        /\ verifier' = [verifier EXCEPT ![i] = Verifier(n)]
        /\ issued' = issued \cup {BearerToken(i, n)}
        /\ UNCHANGED <<clock, ring, key, minted, writer, rotation, sealing, restarts,
                       revoked>>

DeleteInstance(i) ==
    /\ writer = None /\ verifier[i] # None
    /\ verifier' = [verifier EXCEPT ![i] = None]
    /\ UNCHANGED <<clock, ring, key, issued, minted, writer, rotation, sealing, restarts,
                   revoked>>

\* The process is stopped or dies, and is started with the ring it is given then.
RestartTokens ==
    /\ restarts < MaxRestarts
    /\ restarts' = restarts + 1
    /\ ring' \in Rings
    /\ writer' = None
    /\ rotation' = [r \in Rotation |-> None]
    /\ sealing' = [d \in Device |-> None]
    /\ UNCHANGED <<clock, key, verifier, issued, minted, revoked>>

Tick ==
    /\ clock < MaxTime
    /\ clock' = clock + 1
    /\ UNCHANGED <<ring, minted, sealing, restarts, rows>>

TokenStep ==
    \/ \E r \in Rotation : \/ \E a \in App, revoke \in BOOLEAN : RotateBegin(r, a, revoke)
                           \/ RotateCommit(r) \/ RotateFails(r)
    \/ \E d \in Device : \/ \E a \in App, ttl \in TTL : Subscribe(d, a, ttl)
                         \/ CurrentKey(d) \/ SubscribeAnswer(d) \/ SubscribeFails(d)
    \/ \E i \in Instance : RotateToken(i) \/ DeleteInstance(i)
    \/ Tick

-----------------------------------------------------------------------------
\* Rotations that overlap each other and subscriptions keep the promise of
\* Endpoints: app.go:286-287 "concurrent rotations serialize instead of
\* clobbering each other", so none takes back a revocation, and a subscription
\* that has read its version before one gets a token that never works.
Abstract == INSTANCE Endpoints WITH
    Apps        <- App,
    usable      <- {e \in minted : e.ver >= key[e.app].min},
    dead        <- {e \in minted : e.ver < key[e.app].min},
    revocations <- revoked
RevocationsFinal == Abstract!Promise
=============================================================================

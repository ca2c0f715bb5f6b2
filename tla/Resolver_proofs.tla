-------------------------- MODULE Resolver_proofs --------------------------
(***************************************************************************)
(* Proofs about Resolver, for any rows, callers and management requests.   *)
(***************************************************************************)
EXTENDS UsagePlans_proofs, Resolver

Steps == {"idle", "open"} \cup Call

\* A caller in a call asks for the limits of an app.
OfAnApp(c) == c.step \in Call => c.app \in App

\* A key that has been resolved has something to fall back to.
FallbackKept == \A k \in known : lastGood[k] # None

ResolverInv ==
    /\ PlansInv
    /\ ResolverTypeOK
    /\ \A r \in Reader : OfAnApp(reader[r])
    /\ CachedIsLastGood
    /\ FallbackKept

-----------------------------------------------------------------------------
\* A step of Resolver is one of UsagePlans, or none.

LEMMA StepOfPlans == [ResolverNext]_vars => [PlansNext]_plansVars
  <1>1. ASSUME NEW r \in Reader, ReaderStep(r) PROVE UNCHANGED plansVars
    BY <1>1
    DEF ReaderStep, Push, RegisterOrSubscribe, Begin, Lookup, GetApp, GetDefaultAppPlan,
        GetOwnAppPlan, GetDefaultInstPlan, GetOwnInstPlan, ReadFails, Store, Fallback,
        Took, ReadOnly
  <1>2. ASSUME PlansStep \/ (\E h \in Handler : FlushCache(h)) \/ RestartRelay PROVE PlansNext
    BY <1>2 DEF PlansStep, FlushCache, RestartRelay, PlansNext
  <1>3. UNCHANGED vars => UNCHANGED plansVars
    BY DEF vars
  <1> QED
    BY <1>1, <1>2, <1>3 DEF ResolverNext

-----------------------------------------------------------------------------
\* Records of callers.

LEMMA NoCallFits == NoCall \in ReaderRec /\ NoCall.step = "idle" /\ NoCall.lim = Unlimited
  BY ConstantFacts DEF NoCall, ReaderRec, Limits, Unlimited

LEMMA AnswerFits ==
    ASSUME NEW lim \in Limits PROVE Answer(lim) \in ReaderRec /\ Answer(lim).step = "idle"
  BY NoCallFits DEF Answer, ReaderRec

LEMMA CallFits ==
    ASSUME NEW a \in App, NEW p \in InstPlan \cup {None},
           NEW c, c = [NoCall EXCEPT !.step = "lookup", !.app = a, !.plan = p]
    PROVE  c \in ReaderRec /\ c.app = a
  BY NoCallFits DEF ReaderRec, Call

LEMMA StepFits ==
    ASSUME NEW c \in ReaderRec, NEW step \in Steps
    PROVE  [c EXCEPT !.step = step] \in ReaderRec /\ [c EXCEPT !.step = step].app = c.app
  BY DEF ReaderRec, Steps

\* A caller whose step changes nothing but its own record leaves the rest in order.
LEMMA TookInv ==
    ASSUME ResolverInv, NEW r \in Reader, NEW c \in ReaderRec, OfAnApp(c), Took(r, c)
    PROVE  ResolverInv'
  <1>1. PlansInv'
    BY NextInv DEF Took, ReadOnly, ResolverInv
  <1>2. reader' \in [Reader -> ReaderRec] /\ \A s \in Reader : OfAnApp(reader'[s])
    BY DEF Took, Go, ResolverInv, ResolverTypeOK
  <1>3. UNCHANGED <<cache, lastGood, overlap, tainted, known>>
    BY DEF Took, ReadOnly, cacheVars
  <1> QED
    BY <1>1, <1>2, <1>3 DEF ResolverInv, ResolverTypeOK, CachedIsLastGood, FallbackKept, OfAnApp

\* What is known when a caller is at a step.
LEMMA Asks ==
    ASSUME ResolverInv, NEW r \in Reader, reader[r].step \in Call
    PROVE  reader[r] \in ReaderRec /\ reader[r].app \in App /\ KeyOf(r) \in Key
  BY DEF ResolverInv, ResolverTypeOK, ReaderRec, OfAnApp, KeyOf, Key

LEMMA LiveTerms ==
    ASSUME ResolverInv, NEW p \in Plan PROVE terms[p] \in Terms
  BY DEF ResolverInv, PlansInv, TypeOK

LEMMA PushInv ==
    ASSUME ResolverInv, NEW r \in Reader, NEW i \in Instance, Push(r, i) PROVE ResolverInv'
  <1> DEFINE c == [NoCall EXCEPT !.step = "lookup", !.app = AppOf[i], !.plan = assigned[i]]
  <1>1. AppOf[i] \in App /\ assigned[i] \in InstPlan \cup {None}
    BY ConstantFacts DEF Push, ResolverInv, PlansInv, AssignmentsInScope, Owner
  <1>2. c \in ReaderRec /\ c.app = AppOf[i]
    BY <1>1, CallFits
  <1>3. Took(r, c)
    BY DEF Push, Begin
  <1> HIDE DEF c
  <1> QED
    BY <1>1, <1>2, <1>3, TookInv DEF OfAnApp

LEMMA RegisterOrSubscribeInv ==
    ASSUME ResolverInv, NEW r \in Reader, NEW a \in App, RegisterOrSubscribe(r, a)
    PROVE  ResolverInv'
  <1> DEFINE c == [NoCall EXCEPT !.step = "lookup", !.app = a]
  <1>1. c \in ReaderRec /\ c.app = a
    BY NoCallFits DEF ReaderRec, Call
  <1>2. Took(r, c)
    BY DEF RegisterOrSubscribe, Begin
  <1> HIDE DEF c
  <1> QED
    BY <1>1, <1>2, TookInv DEF OfAnApp

\* A caller goes on to its next step.
LEMMA StepInv ==
    ASSUME ResolverInv, NEW r \in Reader, reader[r].step \in Call, NEW step \in Steps,
           Took(r, [reader[r] EXCEPT !.step = step])
    PROVE  ResolverInv'
  <1> DEFINE c == [reader[r] EXCEPT !.step = step]
  <1>1. reader[r] \in ReaderRec /\ reader[r].app \in App
    BY Asks
  <1>2. c \in ReaderRec /\ c.app = reader[r].app
    BY <1>1, StepFits
  <1> HIDE DEF c
  <1> QED
    BY <1>1, <1>2, TookInv DEF OfAnApp, c

\* It goes on with the limit of an app, or of an instance.
LEMMA AppLimitInv ==
    ASSUME ResolverInv, NEW r \in Reader, reader[r].step \in Call, NEW step \in Steps,
           NEW t \in Terms, Took(r, [reader[r] EXCEPT !.step = step, !.lim.app = t])
    PROVE  ResolverInv'
  <1> DEFINE c == [reader[r] EXCEPT !.step = step, !.lim.app = t]
  <1>1. reader[r] \in ReaderRec /\ reader[r].app \in App
    BY Asks
  <1>2. c \in ReaderRec /\ c.app = reader[r].app
    BY <1>1 DEF ReaderRec, Limits, Steps
  <1>3. Took(r, c)
    OBVIOUS
  <1> HIDE DEF c
  <1> QED
    BY <1>1, <1>2, <1>3, TookInv DEF OfAnApp

LEMMA InstLimitInv ==
    ASSUME ResolverInv, NEW r \in Reader, reader[r].step \in Call, NEW step \in Steps,
           NEW t \in Terms, Took(r, [reader[r] EXCEPT !.step = step, !.lim.inst = t])
    PROVE  ResolverInv'
  <1> DEFINE c == [reader[r] EXCEPT !.step = step, !.lim.inst = t]
  <1>1. reader[r] \in ReaderRec /\ reader[r].app \in App
    BY Asks
  <1>2. c \in ReaderRec /\ c.app = reader[r].app
    BY <1>1 DEF ReaderRec, Limits, Steps
  <1>3. Took(r, c)
    OBVIOUS
  <1> HIDE DEF c
  <1> QED
    BY <1>1, <1>2, <1>3, TookInv DEF OfAnApp

LEMMA AnswerInv ==
    ASSUME ResolverInv, NEW r \in Reader, NEW lim \in Limits, Took(r, Answer(lim))
    PROVE  ResolverInv'
  <1>1. Answer(lim) \in ReaderRec /\ OfAnApp(Answer(lim))
    BY AnswerFits DEF OfAnApp, Call, Reading
  <1> QED
    BY <1>1, TookInv

LEMMA LookupInv ==
    ASSUME ResolverInv, NEW r \in Reader, Lookup(r) PROVE ResolverInv'
  <1>1. reader[r].step \in Call
    BY DEF Lookup, At, Call
  <1>2. CASE cache[KeyOf(r)] # None
    <2>1. cache[KeyOf(r)] \in Limits
      BY <1>1, <1>2, Asks DEF ResolverInv, ResolverTypeOK
    <2> QED
      BY <1>2, <2>1, AnswerInv DEF Lookup
  <1>3. CASE cache[KeyOf(r)] = None
    <2>1. "app" \in Steps
      BY DEF Steps, Call
    <2> QED
      BY <1>1, <1>3, <2>1, StepInv DEF Lookup
  <1> QED
    BY <1>2, <1>3

LEMMA GetAppInv ==
    ASSUME ResolverInv, NEW r \in Reader, GetApp(r) PROVE ResolverInv'
  <1>1. reader[r].step \in Call
    BY DEF GetApp, At, Call
  <1>2. CASE reader[r].app \in live
    <2> DEFINE own == assigned[reader[r].app]
               c   == [reader[r] EXCEPT !.step = "defaultApp", !.own = own]
    <2>1. reader[r] \in ReaderRec /\ reader[r].app \in App
      BY <1>1, Asks
    <2>2. own \in AppPlan \cup {None}
      BY <1>2, <2>1 DEF ResolverInv, PlansInv, AssignmentsInScope, Owner
    <2> HIDE DEF own
    <2>3. c \in ReaderRec /\ c.app = reader[r].app
      BY <2>1, <2>2 DEF ReaderRec, Call, Reading
    <2>4. Took(r, c)
      BY <1>2 DEF GetApp, own
    <2> HIDE DEF c
    <2> QED
      BY <2>1, <2>3, <2>4, TookInv DEF OfAnApp
  <1>3. CASE reader[r].app \notin live
    <2>1. "fallback" \in Steps
      BY DEF Steps, Call
    <2> QED
      BY <1>1, <1>3, <2>1, StepInv DEF GetApp
  <1> QED
    BY <1>2, <1>3

LEMMA GetDefaultAppPlanInv ==
    ASSUME ResolverInv, NEW r \in Reader, GetDefaultAppPlan(r) PROVE ResolverInv'
  <1>1. reader[r].step \in Call
    BY DEF GetDefaultAppPlan, At, Call, Reading
  <1>2. AfterDefault(r) \in Steps
    BY DEF AfterDefault, Steps, Call, Reading
  <1>3. CASE GlobalDefault \cap live = {}
    BY <1>1, <1>2, <1>3, StepInv DEF GetDefaultAppPlan
  <1>4. CASE GlobalDefault \cap live # {}
    <2>1. PICK g \in GlobalDefault \cap live :
             Took(r, [reader[r] EXCEPT !.step = AfterDefault(r), !.lim.app = terms[g]])
      BY <1>4 DEF GetDefaultAppPlan
    <2>2. terms[g] \in Terms
      BY LiveTerms, PlansAssumption DEF Plan
    <2> QED
      BY <1>1, <1>2, <2>1, <2>2, AppLimitInv
  <1> QED
    BY <1>3, <1>4

LEMMA GetOwnAppPlanInv ==
    ASSUME ResolverInv, NEW r \in Reader, GetOwnAppPlan(r) PROVE ResolverInv'
  <1> DEFINE own == reader[r].own
  <1>1. reader[r].step \in Call
    BY DEF GetOwnAppPlan, At, Call, Reading
  <1>2. reader[r] \in ReaderRec /\ reader[r].app \in App
    BY <1>1, Asks
  <1>3. CASE own \in live
    <2> DEFINE t == terms[own]
               c == [reader[r] EXCEPT !.step = "defaultInst", !.own = None, !.lim.app = t]
    <2>1. own \in Plan
      BY <1>2, <1>3, PlansAssumption DEF ReaderRec, ResolverInv, PlansInv, TypeOK, Plan
    <2>2. t \in Terms
      BY <2>1, LiveTerms
    <2>3. Took(r, c)
      BY <1>3 DEF GetOwnAppPlan
    <2> HIDE DEF t
    <2>4. c \in ReaderRec /\ c.app = reader[r].app
      BY <1>2, <2>2 DEF ReaderRec, Limits, Call, Reading
    <2> HIDE DEF c
    <2> QED
      BY <1>2, <2>3, <2>4, TookInv DEF OfAnApp
  <1>4. CASE own \notin live
    <2> DEFINE c == [reader[r] EXCEPT !.step = "defaultInst", !.own = None]
    <2>1. c \in ReaderRec /\ c.app = reader[r].app
      BY <1>2 DEF ReaderRec, Call, Reading
    <2>2. Took(r, c)
      BY <1>4 DEF GetOwnAppPlan
    <2> HIDE DEF c
    <2> QED
      BY <1>2, <2>1, <2>2, TookInv DEF OfAnApp
  <1> QED
    BY <1>3, <1>4

LEMMA GetDefaultInstPlanInv ==
    ASSUME ResolverInv, NEW r \in Reader, GetDefaultInstPlan(r) PROVE ResolverInv'
  <1> DEFINE d    == OwnDefault[reader[r].app]
             next == IF reader[r].plan # None THEN "ownInst" ELSE "store"
  <1>1. reader[r].step \in Call /\ next \in Steps
    BY DEF GetDefaultInstPlan, At, Call, Reading, Steps
  <1>2. d \in Plan
    BY <1>1, Asks, PlansAssumption DEF Plan
  <1>3. terms[d] \in Terms
    BY <1>2, LiveTerms
  <1>4. \/ Took(r, [reader[r] EXCEPT !.step = next, !.lim.inst = terms[d]])
        \/ Took(r, [reader[r] EXCEPT !.step = next])
    BY DEF GetDefaultInstPlan
  <1> HIDE DEF d, next
  <1> QED
    BY <1>1, <1>3, <1>4, StepInv, InstLimitInv

LEMMA GetOwnInstPlanInv ==
    ASSUME ResolverInv, NEW r \in Reader, GetOwnInstPlan(r) PROVE ResolverInv'
  <1> DEFINE p == reader[r].plan
  <1>1. reader[r].step \in Call /\ "store" \in Steps
    BY DEF GetOwnInstPlan, At, Call, Reading, Steps
  <1>2. CASE p \in live
    <2>1. p \in Plan
      BY <1>1, <1>2, Asks, PlansAssumption DEF ReaderRec, ResolverInv, PlansInv, TypeOK, Plan
    <2>2. terms[p] \in Terms
      BY <2>1, LiveTerms
    <2>3. Took(r, [reader[r] EXCEPT !.step = "store", !.lim.inst = terms[p]])
      BY <1>2 DEF GetOwnInstPlan
    <2> QED
      BY <1>1, <2>2, <2>3, InstLimitInv
  <1>3. CASE p \notin live
    BY <1>1, <1>3, StepInv DEF GetOwnInstPlan
  <1> QED
    BY <1>2, <1>3

LEMMA ReadFailsInv ==
    ASSUME ResolverInv, NEW r \in Reader, ReadFails(r) PROVE ResolverInv'
  <1> DEFINE c == [reader[r] EXCEPT !.step = "fallback", !.own = None, !.lim = Unlimited]
  <1>1. reader[r].step \in Call
    BY DEF ReadFails, Call, Reading
  <1>2. reader[r] \in ReaderRec /\ reader[r].app \in App /\ Unlimited \in Limits
    BY <1>1, Asks, ConstantFacts DEF Unlimited, Limits
  <1>3. c \in ReaderRec /\ c.app = reader[r].app
    BY <1>2 DEF ReaderRec, Call, Reading
  <1>4. Go(r, c) /\ ReadOnly /\ overlap' \subseteq overlap
    BY DEF ReadFails
  <1> HIDE DEF c
  <1>5. PlansInv'
    BY <1>4, NextInv DEF ReadOnly, ResolverInv
  <1>6. reader' \in [Reader -> ReaderRec] /\ \A s \in Reader : OfAnApp(reader'[s])
    BY <1>2, <1>3, <1>4 DEF Go, OfAnApp, ResolverInv, ResolverTypeOK
  <1> QED
    BY <1>4, <1>5, <1>6
    DEF ReadOnly, cacheVars, ResolverInv, ResolverTypeOK, CachedIsLastGood, FallbackKept, OfAnApp

LEMMA StoreInv ==
    ASSUME ResolverInv, NEW r \in Reader, Store(r) PROVE ResolverInv'
  <1> DEFINE k == KeyOf(r)
             lim == reader[r].lim
  <1>1. reader[r].step \in Call
    BY DEF Store, At, Call, Reading
  <1>2. k \in Key /\ lim \in Limits
    BY <1>1, Asks DEF ReaderRec
  <1>3. lim # None
    BY <1>2, ResolverAssumption
  <1>4. Answer(lim) \in ReaderRec /\ OfAnApp(Answer(lim))
    BY <1>2, AnswerFits DEF OfAnApp, Call, Reading
  <1>5. PlansInv'
    BY NextInv DEF Store, ResolverInv
  <1>6. /\ cache' = [cache EXCEPT ![k] = lim] /\ lastGood' = [lastGood EXCEPT ![k] = lim]
        /\ known' = known \cup {k} /\ overlap' \subseteq overlap
        /\ tainted' \subseteq tainted \cup {k}
        /\ Go(r, Answer(lim))
    BY DEF Store
  <1> HIDE DEF k, lim
  <1>7. reader' \in [Reader -> ReaderRec] /\ \A s \in Reader : OfAnApp(reader'[s])
    BY <1>4, <1>6 DEF Go, ResolverInv, ResolverTypeOK
  <1>8. ResolverTypeOK'
    BY <1>2, <1>6, <1>7 DEF ResolverInv, ResolverTypeOK
  <1>9. CachedIsLastGood' /\ FallbackKept'
    BY <1>2, <1>3, <1>6 DEF ResolverInv, ResolverTypeOK, CachedIsLastGood, FallbackKept
  <1> QED
    BY <1>5, <1>7, <1>8, <1>9 DEF ResolverInv, OfAnApp

LEMMA FallbackInv ==
    ASSUME ResolverInv, NEW r \in Reader, Fallback(r) PROVE ResolverInv'
  <1>1. reader[r].step \in Call
    BY DEF Fallback, At, Call
  <1>2. CASE lastGood[KeyOf(r)] # None
    <2>1. lastGood[KeyOf(r)] \in Limits
      BY <1>1, <1>2, Asks DEF ResolverInv, ResolverTypeOK
    <2> QED
      BY <1>2, <2>1, AnswerInv DEF Fallback
  <1>3. CASE lastGood[KeyOf(r)] = None
    <2> DEFINE c == [reader[r] EXCEPT !.step = "open", !.lim = Unlimited]
    <2>1. reader[r] \in ReaderRec /\ reader[r].app \in App /\ Unlimited \in Limits
      BY <1>1, Asks, ConstantFacts DEF Unlimited, Limits
    <2>2. c \in ReaderRec /\ c.app = reader[r].app
      BY <2>1 DEF ReaderRec
    <2>3. Took(r, c)
      BY <1>3 DEF Fallback
    <2> HIDE DEF c
    <2> QED
      BY <2>1, <2>2, <2>3, TookInv DEF OfAnApp
  <1> QED
    BY <1>2, <1>3

-----------------------------------------------------------------------------
LEMMA ResolverInitInv == ASSUME ResolverInit PROVE ResolverInv
  <1>1. PlansInv
    BY InitInv DEF ResolverInit
  <1>2. ResolverTypeOK
    BY NoCallFits DEF ResolverInit, ResolverTypeOK
  <1>3. \A r \in Reader : OfAnApp(reader[r])
    BY NoCallFits DEF ResolverInit, OfAnApp, Call, Reading
  <1> QED
    BY <1>1, <1>2, <1>3 DEF ResolverInit, ResolverInv, CachedIsLastGood, FallbackKept

LEMMA ReaderStepInv ==
    ASSUME ResolverInv, NEW r \in Reader, ReaderStep(r) PROVE ResolverInv'
  BY PushInv, RegisterOrSubscribeInv, LookupInv, GetAppInv, GetDefaultAppPlanInv,
     GetOwnAppPlanInv, GetDefaultInstPlanInv, GetOwnInstPlanInv, ReadFailsInv, StoreInv,
     FallbackInv DEF ReaderStep

LEMMA ResolverNextInv == ResolverInv /\ [ResolverNext]_vars => ResolverInv'
  <1>1. SUFFICES ASSUME ResolverInv, [ResolverNext]_vars PROVE ResolverInv'
    OBVIOUS
  <1>2. PlansInv'
    BY <1>1, StepOfPlans, NextInv DEF ResolverInv
  <1>3. CASE PlansStep
    BY <1>1, <1>2, <1>3
    DEF PlansStep, Overtaken, cacheVars, ResolverInv, ResolverTypeOK, CachedIsLastGood,
        FallbackKept, OfAnApp
  <1>4. ASSUME NEW h \in Handler, FlushCache(h) PROVE ResolverInv'
    BY <1>1, <1>2, <1>4
    DEF FlushCache, ResolverInv, ResolverTypeOK, CachedIsLastGood, FallbackKept, OfAnApp
  <1>5. CASE RestartRelay
    <2>1. ResolverTypeOK'
      BY <1>5, NoCallFits DEF RestartRelay, ResolverTypeOK
    <2>2. \A r \in Reader : OfAnApp(reader'[r])
      BY <1>5, NoCallFits DEF RestartRelay, OfAnApp, Call, Reading
    <2> QED
      BY <1>2, <1>5, <2>1, <2>2
      DEF RestartRelay, ResolverInv, CachedIsLastGood, FallbackKept, OfAnApp
  <1>6. CASE UNCHANGED vars
    BY <1>1, <1>2, <1>6
    DEF vars, cacheVars, ghosts, ResolverInv, ResolverTypeOK, CachedIsLastGood, FallbackKept,
        OfAnApp
  <1> QED
    BY <1>1, <1>3, <1>4, <1>5, <1>6, ReaderStepInv DEF ResolverNext

LEMMA ResolverSpecInv == ResolverSpec => []ResolverInv
  BY ResolverInitInv, ResolverNextInv, PTL DEF ResolverSpec

-----------------------------------------------------------------------------
\* Which callers are let through without limits.

LEMMA OthersStay ==
    ASSUME ResolverInv, NEW s \in Reader, ReaderStep(s), NEW r \in Reader, r # s
    PROVE  reader'[r] = reader[r]
  <1>1. ASSUME NEW c, Go(s, c) PROVE reader'[r] = reader[r]
    BY <1>1 DEF Go, ResolverInv, ResolverTypeOK
  <1>2. \E c : Go(s, c)
    BY DEF ReaderStep, Push, RegisterOrSubscribe, Begin, Lookup, GetApp, GetDefaultAppPlan,
           GetOwnAppPlan, GetDefaultInstPlan, GetOwnInstPlan, ReadFails, Store, Fallback, Took
  <1> QED
    BY <1>1, <1>2

LEMMA OnlyUnknownOpens ==
    ASSUME ResolverInv, NEW r \in Reader, ReaderStep(r), reader'[r].step = "open"
    PROVE  lastGood[KeyOf(r)] = None
  <1>1. \A c : Go(r, c) => reader'[r] = c
    BY DEF Go, ResolverInv, ResolverTypeOK
  <1>2. ASSUME NEW lim, Go(r, Answer(lim)) PROVE FALSE
    <2>1. Answer(lim).step = "idle"
      BY NoCallFits DEF Answer, ReaderRec
    <2> QED
      BY <1>1, <1>2, <2>1
  <1>3. reader[r] \in ReaderRec
    BY DEF ResolverInv, ResolverTypeOK
  <1>4. ASSUME NEW i \in Instance, Push(r, i) PROVE FALSE
    <2> DEFINE c == [NoCall EXCEPT !.step = "lookup", !.app = AppOf[i], !.plan = assigned[i]]
    <2>1. c.step = "lookup"
      BY NoCallFits DEF ReaderRec
    <2>2. Go(r, c)
      BY <1>4 DEF Push, Begin, Took
    <2> HIDE DEF c
    <2> QED
      BY <1>1, <2>1, <2>2
  <1>5. ASSUME NEW a \in App, RegisterOrSubscribe(r, a) PROVE FALSE
    <2> DEFINE c == [NoCall EXCEPT !.step = "lookup", !.app = a]
    <2>1. c.step = "lookup"
      BY NoCallFits DEF ReaderRec
    <2>2. Go(r, c)
      BY <1>5 DEF RegisterOrSubscribe, Begin, Took
    <2> HIDE DEF c
    <2> QED
      BY <1>1, <2>1, <2>2
  <1>6. ASSUME Lookup(r) \/ Store(r) PROVE FALSE
    <2>1. (\E lim : Go(r, Answer(lim))) \/ Go(r, [reader[r] EXCEPT !.step = "app"])
      BY <1>6 DEF Lookup, Store, Took
    <2>2. [reader[r] EXCEPT !.step = "app"].step = "app"
      BY <1>3 DEF ReaderRec
    <2> QED
      BY <1>1, <1>2, <2>1, <2>2
  <1>7. ASSUME GetApp(r) PROVE FALSE
    BY <1>1, <1>3, <1>7 DEF GetApp, Took, ReaderRec
  <1>8. ASSUME GetDefaultAppPlan(r) PROVE FALSE
    BY <1>1, <1>3, <1>8 DEF GetDefaultAppPlan, AfterDefault, Took, ReaderRec
  <1>9. ASSUME GetOwnAppPlan(r) PROVE FALSE
    BY <1>1, <1>3, <1>9 DEF GetOwnAppPlan, Took, ReaderRec
  <1>10. ASSUME GetDefaultInstPlan(r) PROVE FALSE
    BY <1>1, <1>3, <1>10 DEF GetDefaultInstPlan, Took, ReaderRec
  <1>11. ASSUME GetOwnInstPlan(r) PROVE FALSE
    BY <1>1, <1>3, <1>11 DEF GetOwnInstPlan, Took, ReaderRec
  <1>12. ASSUME ReadFails(r) PROVE FALSE
    BY <1>1, <1>3, <1>12 DEF ReadFails, ReaderRec
  <1>13. Fallback(r)
    BY <1>4, <1>5, <1>6, <1>7, <1>8, <1>9, <1>10, <1>11, <1>12 DEF ReaderStep
  <1> QED
    BY <1>2, <1>13 DEF Fallback, Took

-----------------------------------------------------------------------------
\* Callers of Limits change no row and the flush is the last step of a request, so what
\* is proved of UsagePlans holds beside them (resolver.go, usageplan.go).
THEOREM ImplementsPlans == ResolverSpec => PlansSpec
  <1>1. ResolverInit => Init
    BY DEF ResolverInit
  <1> QED
    BY <1>1, StepOfPlans, PTL DEF ResolverSpec, PlansSpec

\* The cache and what it falls back to hold limits, for keys of apps (resolver.go:21-62).
THEOREM ResolverTypeCorrect == ResolverSpec => []ResolverTypeOK
  <1>1. ResolverInv => ResolverTypeOK
    BY DEF ResolverInv
  <1> QED
    BY <1>1, ResolverSpecInv, PTL

\* A database error never answers with older limits than the cache (resolver.go:64-81).
THEOREM FallbackIsCurrent == ResolverSpec => []CachedIsLastGood
  <1>1. ResolverInv => CachedIsLastGood
    BY DEF ResolverInv
  <1> QED
    BY <1>1, ResolverSpecInv, PTL

\* Whoever has resolved a key once is never let through without limits because the
\* database fails later (resolver.go:139-141).
THEOREM KnownNeverOpen == ResolverSpec => FailsOpenOnlyUnknown
  <1>1. ASSUME ResolverInv, [ResolverNext]_vars, NEW r \in Reader, ~At(r, "open"), At(r, "open")'
        PROVE  KeyOf(r) \notin known
    <2>1. ASSUME reader' = reader PROVE FALSE
      BY <1>1, <2>1 DEF At
    <2>2. ASSUME RestartRelay PROVE FALSE
      BY <1>1, <2>2, NoCallFits DEF RestartRelay, At
    <2>3. PICK s \in Reader : ReaderStep(s)
      BY <1>1, <2>1, <2>2 DEF ResolverNext, PlansStep, FlushCache, vars
    <2>4. s = r
      BY <1>1, <2>3, OthersStay DEF At
    <2>5. lastGood[KeyOf(r)] = None
      BY <1>1, <2>3, <2>4, OnlyUnknownOpens DEF At
    <2> QED
      BY <1>1, <2>5 DEF ResolverInv, FallbackKept
  <1>2. ResolverInv /\ [ResolverNext]_vars =>
          [\A r \in Reader : ~At(r, "open") /\ At(r, "open")' => KeyOf(r) \notin known]_vars
    BY <1>1
  <1> QED
    BY <1>2, ResolverSpecInv, PTL DEF ResolverSpec, FailsOpenOnlyUnknown

-----------------------------------------------------------------------------
\* What the cache says of the tables.

\* A row that is not there limits nothing, and there is at most one default for all apps.
RowsInOrder ==
    /\ \A p \in Plan \ live : terms[p] = 0
    /\ \A g, h \in GlobalDefault \cap live : g = h

\* Only what was asked of an app that exists is cached, and apps are not deleted.
AppsLive ==
    /\ \A k \in Key : cache[k] # None => k[1] \in live
    /\ \A r \in Reader : reader[r].step \in Reading => reader[r].app \in live

\* What the default says where l are the rows there are and t their terms.
DefaultOf(l, t) == IF GlobalDefault \cap l # {}
                   THEN t[CHOOSE g \in GlobalDefault \cap l : TRUE] ELSE 0
DefaultTerms        == DefaultOf(live, terms)
DefaultInstTerms(a) == IF OwnDefault[a] \in live THEN terms[OwnDefault[a]] ELSE 0

\* What a caller c has made of its reads, if no row has changed since the first one.
CurrentSoFar(c) ==
    /\ c.step = "defaultApp" => c.own = assigned[c.app] /\ c.lim = Unlimited
    /\ c.step = "ownApp" => /\ c.own = assigned[c.app] /\ c.own # None
                            /\ c.lim = [app |-> DefaultTerms, inst |-> 0]
    /\ c.step = "defaultInst" => c.lim = [app |-> AppTerms(c.app), inst |-> 0]
    /\ c.step = "ownInst" => /\ c.plan # None
                             /\ c.lim = [app |-> AppTerms(c.app), inst |-> DefaultInstTerms(c.app)]
    /\ c.step = "store" => c.lim = Effective(c.app, c.plan)

ReadersCurrent ==
    /\ \A r \in Reader : reader[r].step \in {"lookup", "app"} => reader[r].lim = Unlimited
    /\ \A r \in Reader \ overlap : CurrentSoFar(reader[r])

CacheInv == RowsInOrder /\ AppsLive /\ ReadersCurrent /\ CacheCurrentUnlessOvertaken

LEMMA OneDefault ==
    ASSUME NEW l, NEW t, \A g, h \in GlobalDefault \cap l : g = h
    PROVE  /\ \A g \in GlobalDefault \cap l : DefaultOf(l, t) = t[g]
           /\ GlobalDefault \cap l = {} => DefaultOf(l, t) = 0
  <1>1. ASSUME NEW g \in GlobalDefault \cap l PROVE DefaultOf(l, t) = t[g]
    <2>1. (CHOOSE d \in GlobalDefault \cap l : TRUE) \in GlobalDefault \cap l
      OBVIOUS
    <2>2. (CHOOSE d \in GlobalDefault \cap l : TRUE) = g
      BY <2>1
    <2> QED
      BY <2>2 DEF DefaultOf
  <1> QED
    BY <1>1 DEF DefaultOf

LEMMA TermsOf ==
    /\ \A a \in App : AppTerms(a) = IF assigned[a] \in live THEN terms[assigned[a]] ELSE DefaultTerms
    /\ \A a, p : InstTerms(a, p) = IF p \in live THEN terms[p] ELSE DefaultInstTerms(a)
  BY DEF AppTerms, InstTerms, DefaultTerms, DefaultOf, DefaultInstTerms

\* Ids of rows of different tables, and those that are no id.
LEMMA Ids ==
    ASSUME PlansInv
    PROVE  /\ None \notin live /\ App \cap Plan = {} /\ Instance \cap Plan = {} /\ App \cap Instance = {}
           /\ GlobalDefault \subseteq AppPlan /\ AppPlan \cap InstPlan = {} /\ Plan = AppPlan \cup InstPlan
           /\ terms \in [Plan -> Terms] /\ assigned \in [Owner -> Plan \cup {None}]
           /\ Owner = App \cup Instance
  BY PlansAssumption, ConstantFacts DEF PlansInv, TypeOK, Owner, Plan

\* The limits of app a and plan p are what they were if no row of theirs has changed.
LEMMA SameTerms ==
    ASSUME NEW a \in App, NEW p, DefaultTerms' = DefaultTerms, assigned'[a] = assigned[a],
           \A q \in {assigned[a], p, OwnDefault[a]} :
               (q \in live' <=> q \in live) /\ (q \in live => terms'[q] = terms[q])
    PROVE  Effective(a, p)' = Effective(a, p)
  <1>1. AppTerms(a) = IF assigned[a] \in live THEN terms[assigned[a]] ELSE DefaultTerms
    BY TermsOf
  <1>2. AppTerms(a)' = IF assigned'[a] \in live' THEN terms'[assigned'[a]] ELSE DefaultTerms'
    BY DEF AppTerms, DefaultTerms, DefaultOf
  <1>3. InstTerms(a, p)' = InstTerms(a, p)
    BY DEF InstTerms
  <1> QED
    BY <1>1, <1>2, <1>3 DEF Effective

-----------------------------------------------------------------------------
\* Rows that change without a flush.

\* A step after which the tables say the same of every key that a request can ask for,
\* of an app there was before it.
Quiet ==
    \A k \in Key : InUse(k)' /\ k[1] \in live =>
        InUse(k) /\ Effective(k[1], k[2])' = Effective(k[1], k[2])

\* New rows concern none of the keys in use: nothing is assigned to a new owner, and a
\* new default limits nothing.
LEMMA NewRowsQuiet ==
    ASSUME PlansInv, PlansInv', RowsInOrder, RowsInOrder', NEW new, live' = live \cup new,
           assigned' = assigned, \A p \in live : terms'[p] = terms[p],
           \A g \in GlobalDefault \cap new : terms'[g] = 0
    PROVE  Quiet
  <1>1. DefaultTerms' = DefaultTerms
    <2>1. \A g, h \in GlobalDefault \cap live : g = h
      BY DEF RowsInOrder
    <2>2. \A g, h \in GlobalDefault \cap live' : g = h
      BY DEF RowsInOrder
    <2>3. /\ \A g \in GlobalDefault \cap live : DefaultOf(live, terms) = terms[g]
          /\ GlobalDefault \cap live = {} => DefaultOf(live, terms) = 0
      BY <2>1, OneDefault
    <2>4. /\ \A g \in GlobalDefault \cap live' : DefaultOf(live', terms') = terms'[g]
          /\ GlobalDefault \cap live' = {} => DefaultOf(live', terms') = 0
      BY <2>2, OneDefault
    <2>5. CASE GlobalDefault \cap live # {}
      <3>1. PICK g \in GlobalDefault : g \in live
        BY <2>5
      <3>2. g \in live' /\ terms'[g] = terms[g]
        BY <3>1
      <3> QED
        BY <2>3, <2>4, <3>1, <3>2 DEF DefaultTerms
    <2>6. CASE GlobalDefault \cap live = {} /\ GlobalDefault \cap live' # {}
      <3>1. PICK g \in GlobalDefault : g \in live' /\ g \in new
        BY <2>6
      <3>2. terms'[g] = 0
        BY <3>1
      <3> QED
        BY <2>3, <2>4, <2>6, <3>1, <3>2 DEF DefaultTerms
    <2>7. CASE GlobalDefault \cap live = {} /\ GlobalDefault \cap live' = {}
      BY <2>3, <2>4, <2>7 DEF DefaultTerms
    <2> QED
      BY <2>5, <2>6, <2>7
  <1>2. ASSUME NEW k \in Key, InUse(k)', k[1] \in live
        PROVE  InUse(k) /\ Effective(k[1], k[2])' = Effective(k[1], k[2])
    <2>1. k[1] \in App /\ None \notin live /\ None \notin live' /\ Owner = App \cup Instance
      BY Ids, PlansAssumption DEF Key, PlansInv, TypeOK
    <2>2. ASSUME k[2] # None
          PROVE  k[2] \in live /\ \E i \in Instance \cap live : AppOf[i] = k[1] /\ assigned[i] = k[2]
      <3>1. PICK i \in Instance \cap live' : AppOf[i] = k[1] /\ assigned'[i] = k[2]
        BY <1>2, <2>2 DEF InUse
      <3>2. assigned[i] = k[2] /\ i \in Owner
        BY <2>1, <3>1
      <3>3. i \in live
        BY <2>2, <3>2 DEF PlansInv, NothingLeftBehind
      <3>4. assigned[i] \in live
        BY <2>2, <3>2, <3>3 DEF PlansInv, AssignmentsInScope
      <3> QED
        BY <3>1, <3>2, <3>3, <3>4
    <2>3. InUse(k)
      BY <1>2, <2>2 DEF InUse
    <2>4. assigned[k[1]] \in live \cup {None} /\ OwnDefault[k[1]] \in live
      BY <1>2, <2>1 DEF PlansInv, AssignmentsInScope, OwnDefaultsStay
    <2>5. \A q \in {assigned[k[1]], k[2], OwnDefault[k[1]]} :
             (q \in live' <=> q \in live) /\ (q \in live => terms'[q] = terms[q])
      BY <2>1, <2>2, <2>4
    <2>6. Effective(k[1], k[2])' = Effective(k[1], k[2])
      BY <1>1, <2>1, <2>5, SameTerms
    <2> QED
      BY <2>3, <2>6
  <1> QED
    BY <1>2 DEF Quiet

LEMMA CreateAppQuiet ==
    ASSUME PlansInv, RowsInOrder, NEW a \in App, CreateApp(a) PROVE RowsInOrder' /\ Quiet
  <1>1. PlansInv'
    BY CreateAppInv
  <1>2. /\ UNCHANGED <<gone, assigned, terms, req>> /\ a \notin GlobalDefault
        /\ OwnDefault[a] \notin GlobalDefault
    BY Ids, PlansAssumption DEF CreateApp
  <1>3. PICK dflt \in SUBSET GlobalDefault :
           NewDefault(dflt) /\ live' = live \cup {a, OwnDefault[a]} \cup dflt
    BY DEF CreateApp
  <1> DEFINE new == {a, OwnDefault[a]} \cup dflt
  <1>4. live' = live \cup new /\ \A g, h \in GlobalDefault \cap live' : g = h
    BY <1>2, <1>3 DEF RowsInOrder, NewDefault
  <1>5. RowsInOrder'
    BY <1>2, <1>3, <1>4 DEF RowsInOrder
  <1>6. \A g \in GlobalDefault \cap new : terms'[g] = 0
    <2>1. GlobalDefault \subseteq Plan
      BY Ids
    <2>2. \A g \in GlobalDefault \cap new : g \notin live
      BY <1>2, <1>3 DEF NewDefault
    <2> QED
      BY <1>2, <2>1, <2>2 DEF RowsInOrder
  <1> HIDE DEF new
  <1> QED
    BY <1>1, <1>2, <1>4, <1>5, <1>6, NewRowsQuiet

LEMMA IssueQuiet ==
    ASSUME PlansInv, RowsInOrder, NEW i \in Instance, Issue(i) PROVE RowsInOrder' /\ Quiet
  <1>1. PlansInv' /\ live' = live \cup {i} /\ UNCHANGED <<assigned, terms>> /\ i \notin GlobalDefault
    BY IssueInv, Ids DEF Issue
  <1>2. RowsInOrder'
    BY <1>1 DEF RowsInOrder
  <1>3. (\A p \in live : terms'[p] = terms[p]) /\ \A g \in GlobalDefault \cap {i} : terms'[g] = 0
    BY <1>1
  <1> QED
    BY <1>1, <1>2, <1>3, NewRowsQuiet

\* The foreign keys have left nobody under the plans that go with an instance.
LEMMA DeleteInstanceQuiet ==
    ASSUME PlansInv, RowsInOrder, NEW a \in App, NEW i \in Instance, DeleteInstance(a, i)
    PROVE  RowsInOrder' /\ Quiet
  <1> DEFINE own == {p \in InstPlan \cap live : Scope[p] = i}
  <1>1. /\ live' = live \ ({i} \cup own) /\ assigned' = [assigned EXCEPT ![i] = None]
        /\ terms' = [p \in Plan |-> IF p \in own THEN 0 ELSE terms[p]]
        /\ \A j \in (Instance \cap live) \ {i} : assigned[j] \notin own
    BY DEF DeleteInstance
  <1>2. /\ PlansInv' /\ own \subseteq InstPlan /\ \A q \in own : Scope[q] = i
    BY DeleteInstanceInv
  <1> HIDE DEF own
  <1>3. /\ GlobalDefault \cap live' = GlobalDefault \cap live
        /\ \A g \in GlobalDefault : terms'[g] = terms[g]
    BY <1>1, <1>2, Ids
  <1>4. RowsInOrder'
    BY <1>1, <1>2, <1>3, Ids DEF RowsInOrder
  <1>5. DefaultTerms' = DefaultTerms
    <2>1. \A g, h \in GlobalDefault \cap live : g = h
      BY DEF RowsInOrder
    <2>2. \A g, h \in GlobalDefault \cap live' : g = h
      BY <1>4 DEF RowsInOrder
    <2>3. /\ \A g \in GlobalDefault \cap live : DefaultOf(live, terms) = terms[g]
          /\ GlobalDefault \cap live = {} => DefaultOf(live, terms) = 0
      BY <2>1, OneDefault
    <2>4. /\ \A g \in GlobalDefault \cap live' : DefaultOf(live', terms') = terms'[g]
          /\ GlobalDefault \cap live' = {} => DefaultOf(live', terms') = 0
      BY <2>2, OneDefault
    <2> QED
      BY <1>3, <2>3, <2>4 DEF DefaultTerms
  <1>6. ASSUME NEW k \in Key, InUse(k)', k[1] \in live
        PROVE  InUse(k) /\ Effective(k[1], k[2])' = Effective(k[1], k[2])
    <2>1. k[1] \in App /\ None \notin live /\ Owner = App \cup Instance /\ k[1] \in Owner /\ k[1] # i
      BY Ids DEF Key
    <2>2. ASSUME k[2] # None
          PROVE  /\ k[2] \in live /\ k[2] \notin own \cup {i}
                 /\ \E j \in Instance \cap live : AppOf[j] = k[1] /\ assigned[j] = k[2]
      <3>1. PICK j \in Instance \cap live' : AppOf[j] = k[1] /\ assigned'[j] = k[2]
        BY <1>6, <2>2 DEF InUse
      <3>2. j # i /\ j \in Instance \cap live /\ j \in Owner /\ assigned[j] = k[2]
        BY <1>1, <2>1, <3>1, Ids
      <3>3. k[2] \notin own /\ k[2] \in live
        BY <1>1, <2>2, <3>2 DEF PlansInv, AssignmentsInScope
      <3>4. k[2] \in Plan
        BY <2>2, <3>2, Ids
      <3> QED
        BY <3>1, <3>2, <3>3, <3>4, Ids
    <2>3. InUse(k)
      BY <1>6, <2>2 DEF InUse
    <2>4. assigned[k[1]] \in AppPlan \cup {None} /\ OwnDefault[k[1]] \in InstPlan /\ Scope[OwnDefault[k[1]]] = None
      BY <1>6, <2>1, ConstantFacts DEF PlansInv, AssignmentsInScope
    <2>5. i # None /\ i \notin AppPlan /\ i \notin InstPlan /\ None \notin InstPlan
      BY ConstantFacts, Ids DEF Owner
    <2>6. /\ assigned[k[1]] \notin own \cup {i} /\ OwnDefault[k[1]] \notin own \cup {i}
          /\ k[2] \notin own \cup {i}
      <3>1. assigned[k[1]] \notin own \cup {i}
        BY <1>2, <2>4, <2>5, Ids
      <3>2. OwnDefault[k[1]] \notin own \cup {i}
        BY <1>2, <2>4, <2>5
      <3>3. k[2] \notin own \cup {i}
        BY <1>2, <2>2, <2>5
      <3> QED
        BY <3>1, <3>2, <3>3
    <2>7. \A q : q \notin own \cup {i} => (q \in live' <=> q \in live)
      BY <1>1
    <2>8. \A q \in live \cap Plan : q \notin own => terms'[q] = terms[q]
      BY <1>1
    <2>9. /\ assigned[k[1]] \in Plan \cup {None} /\ OwnDefault[k[1]] \in Plan /\ k[2] \in Plan \cup {None}
      BY <2>4, Ids DEF Key
    <2>10. assigned'[k[1]] = assigned[k[1]]
      BY <1>1, <2>1, Ids
    <2>11. \A q \in {assigned[k[1]], k[2], OwnDefault[k[1]]} :
             (q \in live' <=> q \in live) /\ (q \in live => terms'[q] = terms[q])
      BY <2>1, <2>6, <2>7, <2>8, <2>9
    <2>12. Effective(k[1], k[2])' = Effective(k[1], k[2])
      BY <1>5, <2>1, <2>10, <2>11, SameTerms
    <2> QED
      BY <2>3, <2>12
  <1> QED
    BY <1>4, <1>6 DEF Quiet

LEMMA InsertPlanQuiet ==
    ASSUME PlansInv, RowsInOrder, NEW h \in Handler, NEW p \in Plan, NEW t \in Offers[p],
           InsertAppPlan(h, p, t) \/ InsertInstPlan(h, p, t)
    PROVE  RowsInOrder' /\ Quiet
  <1>1. /\ live' = live \cup {p} /\ assigned' = assigned /\ terms' = [terms EXCEPT ![p] = t]
        /\ p \notin live /\ p \notin GlobalDefault
    BY Ids DEF InsertAppPlan, InsertInstPlan, Unused, IsDefault
  <1>2. PlansInv'
    BY InsertAppPlanInv, InsertInstPlanInv
  <1>3. \A q \in Plan \ {p} : terms'[q] = terms[q]
    BY <1>1, Ids
  <1>4. RowsInOrder'
    BY <1>1, <1>3 DEF RowsInOrder
  <1>5. (\A q \in live : terms'[q] = terms[q]) /\ \A g \in GlobalDefault \cap {p} : terms'[g] = 0
    <2>1. \A q : q # p => terms'[q] = terms[q]
      BY <1>1, Ids
    <2> QED
      BY <1>1, <2>1
  <1> QED
    BY <1>1, <1>2, <1>4, <1>5, NewRowsQuiet

-----------------------------------------------------------------------------
\* The management requests: what they write, they flush.

AllFlushed == \A h \in Handler : ~IsAt(h, "flush")

LEMMA GoesOn ==
    ASSUME PlansInv, NEW h \in Handler, ~IsAt(h, "flush"), NEW r, Continue(h, r)
    PROVE  (AllFlushed' => AllFlushed) /\ (r.step = "flush" => ~AllFlushed')
  <1>1. req'[h] = r /\ \A g \in Handler \ {h} : req'[g] = req[g]
    BY DEF Continue, PlansInv, TypeOK
  <1> QED
    BY <1>1 DEF AllFlushed, IsAt

LEMMA Flushes ==
    /\ \A h \in Handler : PlansInv => Written(h).step = "flush"
    /\ \A a, o, p, t : Pending("flush", a, o, p, t).step = "flush"
  BY DEF Written, Pending, PlansInv, TypeOK, Request

\* A step of the rows or of a request changes no row, is going to flush, or is quiet.
RowsMove ==
    /\ RowsInOrder' /\ App \cap live \subseteq live' /\ (AllFlushed' => AllFlushed)
    /\ UNCHANGED <<live, assigned, terms>> \/ ~AllFlushed' \/ Quiet

LEMMA UpdateMoves ==
    ASSUME PlansInv, RowsInOrder, NEW h \in Handler,
           UpdateInstPlan(h) \/ \E p \in AppPlan : \E t \in Offers[p] : UpdateAppPlan(h, p, t)
    PROVE  RowsMove
  <1>1. UNCHANGED <<live, assigned>> /\ ~IsAt(h, "flush")
    BY DEF UpdateInstPlan, UpdateAppPlan, IsAt
  <1>2. ASSUME NEW p \in live, NEW t, terms' = [terms EXCEPT ![p] = t] PROVE RowsInOrder'
    BY <1>1, <1>2, Ids DEF RowsInOrder
  <1>3. CASE UpdateInstPlan(h)
    <2>1. CASE req[h].plan \in live
      <3>1. terms' = [terms EXCEPT ![req[h].plan] = req[h].terms] /\ Continue(h, Written(h))
        BY <1>3, <2>1 DEF UpdateInstPlan
      <3> QED
        BY <1>1, <1>2, <2>1, <3>1, GoesOn, Flushes DEF RowsMove
    <2>2. CASE req[h].plan \notin live
      <3>1. terms' = terms /\ Continue(h, Idle)
        BY <1>3, <2>2 DEF UpdateInstPlan
      <3>2. RowsInOrder'
        BY <1>1, <3>1 DEF RowsInOrder
      <3> QED
        BY <1>1, <3>1, <3>2, GoesOn DEF RowsMove
    <2> QED
      BY <2>1, <2>2
  <1>4. ASSUME NEW p \in AppPlan, NEW t \in Offers[p], UpdateAppPlan(h, p, t) PROVE RowsMove
    <2>1. /\ p \in live /\ terms' = [terms EXCEPT ![p] = t]
          /\ Continue(h, Pending("flush", None, None, p, t))
      BY <1>4 DEF UpdateAppPlan
    <2>2. RowsInOrder'
      BY <1>2, <2>1
    <2>3. (AllFlushed' => AllFlushed) /\ ~AllFlushed'
      BY <1>1, <2>1, GoesOn, Flushes
    <2> QED
      BY <1>1, <2>2, <2>3 DEF RowsMove
  <1> QED
    BY <1>3, <1>4

LEMMA DeletePlanMoves ==
    ASSUME PlansInv, RowsInOrder, NEW h \in Handler, DeletePlan(h) PROVE RowsMove
  <1> DEFINE p == req[h].plan
  <1>1. ~IsAt(h, "flush") /\ assigned' = assigned /\ p \in Plan
    BY DEF DeletePlan, IsAt, PlansInv, AllAllowed, Allowed
  <1>2. CASE /\ live' = live \ {p} /\ terms' = [terms EXCEPT ![p] = 0]
             /\ Continue(h, Written(h))
    <2>1. RowsInOrder'
      BY <1>1, <1>2, Ids DEF RowsInOrder
    <2>2. App \cap live \subseteq live'
      BY <1>1, <1>2, Ids
    <2> QED
      BY <1>1, <1>2, <2>1, <2>2, GoesOn, Flushes DEF RowsMove
  <1>3. CASE UNCHANGED <<live, terms>> /\ Continue(h, Idle)
    <2>1. RowsInOrder'
      BY <1>3 DEF RowsInOrder
    <2> QED
      BY <1>1, <1>3, <2>1, GoesOn DEF RowsMove
  <1> QED
    BY <1>2, <1>3 DEF DeletePlan

LEMMA AssignMoves ==
    ASSUME PlansInv, RowsInOrder, NEW h \in Handler, AssignToApp(h) \/ AssignToInst(h) PROVE RowsMove
  <1>1. ~IsAt(h, "flush") /\ UNCHANGED <<live, terms>>
    BY DEF AssignToApp, AssignToInst, IsAt
  <1>2. RowsInOrder'
    BY <1>1 DEF RowsInOrder
  <1>3. Continue(h, Written(h)) \/ (Continue(h, Idle) /\ assigned' = assigned)
    BY DEF AssignToApp, AssignToInst
  <1> QED
    BY <1>1, <1>2, <1>3, GoesOn, Flushes DEF RowsMove

\* The statements of a request that change no row.
LEMMA ReadsMove ==
    ASSUME PlansInv, RowsInOrder, NEW h \in Handler, ~IsAt(h, "flush"),
           UNCHANGED <<live, assigned, terms>>, NEW r, Continue(h, r)
    PROVE  RowsMove
  <1>1. RowsInOrder'
    BY DEF RowsInOrder
  <1> QED
    BY <1>1, GoesOn DEF RowsMove

LEMMA RequestMoves ==
    ASSUME PlansInv, RowsInOrder, NEW h \in Handler, RequestStep(h) PROVE RowsMove
  <1>1. ASSUME NEW p \in Plan, NEW t \in Offers[p], InsertAppPlan(h, p, t) \/ InsertInstPlan(h, p, t)
        PROVE  RowsMove
    <2>1. ~IsAt(h, "flush") /\ live \subseteq live' /\ \E r : Continue(h, r)
      BY <1>1 DEF InsertAppPlan, InsertInstPlan, IsAt
    <2> QED
      BY <1>1, <2>1, InsertPlanQuiet, GoesOn DEF RowsMove
  <1>2. ASSUME ~IsAt(h, "flush") /\ UNCHANGED <<live, assigned, terms>> /\ \E r : Continue(h, r)
        PROVE  RowsMove
    BY <1>2, ReadsMove
  <1>3. CASE Reread(h) \/ Fail(h)
    BY <1>2, <1>3 DEF Reread, Fail, IsAt
  <1>4. ASSUME NEW p \in AppPlan, CheckAppPlan(h, p) \/ CheckAppPlanFails(h, p) PROVE RowsMove
    BY <1>2, <1>4 DEF CheckAppPlan, CheckAppPlanFails, IsAt
  <1>5. ASSUME NEW a, NEW p, NEW step, NEW t, FetchInstPlan(h, a, p, step, t) PROVE RowsMove
    BY <1>2, <1>5 DEF FetchInstPlan, IsAt
  <1>6. ASSUME NEW a, NEW p, ValidateForApp(h, a, p) PROVE RowsMove
    BY <1>2, <1>6 DEF ValidateForApp, IsAt
  <1>7. ASSUME NEW a, NEW i, NEW p, ValidateForInst(h, a, i, p) PROVE RowsMove
    BY <1>2, <1>7 DEF ValidateForInst, IsAt
  <1> QED
    BY <1>1, <1>3, <1>4, <1>5, <1>6, <1>7, UpdateMoves, DeletePlanMoves, AssignMoves DEF RequestStep

LEMMA RowsDoMove ==
    ASSUME PlansInv, RowsInOrder, RowStep \/ \E h \in Handler : RequestStep(h) PROVE RowsMove
  <1>1. ASSUME NEW a \in App, CreateApp(a) PROVE RowsMove
    <2>1. req' = req /\ live \subseteq live'
      BY <1>1 DEF CreateApp
    <2> QED
      BY <1>1, <2>1, CreateAppQuiet DEF RowsMove, AllFlushed, IsAt
  <1>2. ASSUME NEW i \in Instance, Issue(i) PROVE RowsMove
    <2>1. req' = req /\ live \subseteq live'
      BY <1>2 DEF Issue
    <2> QED
      BY <1>2, <2>1, IssueQuiet DEF RowsMove, AllFlushed, IsAt
  <1>3. ASSUME NEW a \in App, NEW i \in Instance, DeleteInstance(a, i) PROVE RowsMove
    <2>1. req' = req /\ App \cap live \subseteq live'
      BY <1>3, Ids DEF DeleteInstance
    <2> QED
      BY <1>3, <2>1, DeleteInstanceQuiet DEF RowsMove, AllFlushed, IsAt
  <1> QED
    BY <1>1, <1>2, <1>3, RequestMoves DEF RowStep

-----------------------------------------------------------------------------
\* The callers.

LEMMA CallsOnly ==
    /\ "idle" \notin Reading /\ "open" \notin Reading /\ "lookup" \notin Reading
    /\ "app" \notin Reading /\ "fallback" \notin Reading
  BY DEF Reading

\* No caller changes a row: what the others have read stays as current as it was.
LEMMA StillCurrent ==
    ASSUME UNCHANGED plansVars, NEW r, NEW c, CurrentSoFar(c), reader'[r] = c
    PROVE  CurrentSoFar(reader[r])'
  BY DEF CurrentSoFar, AppTerms, InstTerms, Effective, DefaultTerms, DefaultOf, DefaultInstTerms,
         plansVars

LEMMA RowsStill ==
    ASSUME CacheInv, UNCHANGED <<live, assigned, terms>>
    PROVE  /\ RowsInOrder'
           /\ \A k \in Key : /\ InUse(k)' <=> InUse(k)
                             /\ Effective(k[1], k[2])' = Effective(k[1], k[2])
  BY DEF CacheInv, RowsInOrder, InUse, Effective, AppTerms, InstTerms

\* A caller becomes c, and what it has read is current unless it has been overtaken.
LEMMA BecomesCurrent ==
    ASSUME ResolverInv, CacheInv, NEW r \in Reader, NEW c, Go(r, c), UNCHANGED plansVars,
           overlap' = overlap \/ overlap' = overlap \ {r},
           c.step \in Reading => c.app \in live,
           c.step \in {"lookup", "app"} => c.lim = Unlimited,
           r \notin overlap' => CurrentSoFar(c)
    PROVE  /\ ReadersCurrent'
           /\ \A s \in Reader : reader'[s].step \in Reading => reader'[s].app \in live'
  <1>1. reader'[r] = c /\ \A s \in Reader \ {r} : reader'[s] = reader[s]
    BY DEF Go, ResolverInv, ResolverTypeOK
  <1>2. \A s \in Reader : reader'[s].step \in {"lookup", "app"} => reader'[s].lim = Unlimited
    BY <1>1 DEF CacheInv, ReadersCurrent
  <1>3. ASSUME NEW s \in Reader, s \notin overlap' PROVE CurrentSoFar(reader[s])'
    <2>1. CASE s = r
      BY <1>1, <1>3, <2>1, StillCurrent
    <2>2. CASE s # r
      <3>1. CurrentSoFar(reader[s]) /\ reader'[s] = reader[s]
        BY <1>1, <1>3, <2>2 DEF CacheInv, ReadersCurrent
      <3> QED
        BY <3>1, StillCurrent
    <2> QED
      BY <2>1, <2>2
  <1>4. \A s \in Reader : reader'[s].step \in Reading => reader'[s].app \in live'
    BY <1>1 DEF CacheInv, AppsLive, plansVars
  <1> QED
    BY <1>2, <1>3, <1>4 DEF ReadersCurrent

LEMMA TookCache ==
    ASSUME ResolverInv, CacheInv, NEW r \in Reader, NEW c, Go(r, c), ReadOnly,
           overlap' = overlap \/ overlap' = overlap \ {r},
           c.step \in Reading => c.app \in live,
           c.step \in {"lookup", "app"} => c.lim = Unlimited,
           r \notin overlap' => CurrentSoFar(c)
    PROVE  CacheInv'
  <1>1. UNCHANGED plansVars /\ UNCHANGED <<cache, tainted>> /\ UNCHANGED <<live, assigned, terms, req>>
    BY DEF ReadOnly, cacheVars, plansVars
  <1>2. /\ ReadersCurrent'
        /\ \A s \in Reader : reader'[s].step \in Reading => reader'[s].app \in live'
    BY <1>1, BecomesCurrent
  <1>3. /\ RowsInOrder'
        /\ \A k \in Key : /\ InUse(k)' <=> InUse(k)
                          /\ Effective(k[1], k[2])' = Effective(k[1], k[2])
    BY <1>1, RowsStill
  <1>4. CacheCurrentUnlessOvertaken'
    BY <1>1, <1>3 DEF CacheInv, CacheCurrentUnlessOvertaken, IsAt
  <1>5. AppsLive'
    BY <1>1, <1>2 DEF CacheInv, AppsLive
  <1> QED
    BY <1>2, <1>3, <1>4, <1>5 DEF CacheInv

\* A step of a caller that ends up reading no table.
LEMMA NotReadingCache ==
    ASSUME ResolverInv, CacheInv, NEW r \in Reader, NEW c, Go(r, c), ReadOnly,
           overlap' = overlap \/ overlap' = overlap \ {r},
           c.step \notin Reading, c.step \in {"lookup", "app"} => c.lim = Unlimited
    PROVE  CacheInv'
  <1>1. CurrentSoFar(c)
    BY DEF CurrentSoFar, Reading
  <1> QED
    BY <1>1, TookCache

LEMMA BeginCache ==
    ASSUME ResolverInv, CacheInv, NEW r \in Reader,
           (\E i \in Instance : Push(r, i)) \/ (\E a \in App : RegisterOrSubscribe(r, a))
    PROVE  CacheInv'
  <1>1. PICK c : Took(r, c) /\ c.step = "lookup" /\ c.lim = Unlimited
    <2>1. ASSUME NEW i \in Instance, Push(r, i)
          PROVE  \E c : Took(r, c) /\ c.step = "lookup" /\ c.lim = Unlimited
      <3> DEFINE c == [NoCall EXCEPT !.step = "lookup", !.app = AppOf[i], !.plan = assigned[i]]
      <3>1. Took(r, c) /\ c.step = "lookup" /\ c.lim = Unlimited
        BY <2>1 DEF Push, Begin, NoCall
      <3> QED
        BY <3>1
    <2>2. ASSUME NEW a \in App, RegisterOrSubscribe(r, a)
          PROVE  \E c : Took(r, c) /\ c.step = "lookup" /\ c.lim = Unlimited
      <3> DEFINE c == [NoCall EXCEPT !.step = "lookup", !.app = a]
      <3>1. Took(r, c) /\ c.step = "lookup" /\ c.lim = Unlimited
        BY <2>2 DEF RegisterOrSubscribe, Begin, NoCall
      <3> QED
        BY <3>1
    <2> QED
      BY <2>1, <2>2
  <1> QED
    BY <1>1, CallsOnly, NotReadingCache DEF Took

LEMMA AnswerCache ==
    ASSUME ResolverInv, CacheInv, NEW r \in Reader, NEW lim \in Limits, Took(r, Answer(lim))
    PROVE  CacheInv'
  <1>1. Answer(lim).step = "idle" /\ Go(r, Answer(lim)) /\ ReadOnly /\ overlap' = overlap
    BY AnswerFits DEF Took
  <1> QED
    BY <1>1, CallsOnly, NotReadingCache

LEMMA LookupCache ==
    ASSUME ResolverInv, CacheInv, NEW r \in Reader, Lookup(r) PROVE CacheInv'
  <1>1. reader[r].step = "lookup" /\ reader[r].step \in Call
    BY DEF Lookup, At, Call
  <1>2. CASE cache[KeyOf(r)] # None
    <2>1. cache[KeyOf(r)] \in Limits
      BY <1>1, <1>2, Asks DEF ResolverInv, ResolverTypeOK
    <2> QED
      BY <1>2, <2>1, AnswerCache DEF Lookup
  <1>3. CASE cache[KeyOf(r)] = None
    <2> DEFINE c == [reader[r] EXCEPT !.step = "app"]
    <2>1. Go(r, c) /\ ReadOnly /\ overlap' = overlap
      BY <1>3 DEF Lookup, Took
    <2>2. c.step = "app" /\ c.lim = reader[r].lim
      BY <1>1, Asks DEF ReaderRec
    <2>3. reader[r].lim = Unlimited
      BY <1>1 DEF CacheInv, ReadersCurrent
    <2> HIDE DEF c
    <2> QED
      BY <2>1, <2>2, <2>3, CallsOnly, NotReadingCache
  <1> QED
    BY <1>2, <1>3

LEMMA GetAppCache ==
    ASSUME ResolverInv, CacheInv, NEW r \in Reader, GetApp(r) PROVE CacheInv'
  <1>1. reader[r].step = "app" /\ reader[r] \in ReaderRec
    BY Asks DEF GetApp, At, Call
  <1>2. CASE reader[r].app \in live
    <2> DEFINE c == [reader[r] EXCEPT !.step = "defaultApp", !.own = assigned[reader[r].app]]
    <2>1. Go(r, c) /\ ReadOnly /\ overlap' = overlap
      BY <1>2 DEF GetApp, Took
    <2>2. /\ c.step = "defaultApp" /\ c.lim = reader[r].lim /\ c.app = reader[r].app
          /\ c.own = assigned[c.app]
      BY <1>1 DEF ReaderRec
    <2>3. reader[r].lim = Unlimited
      BY <1>1 DEF CacheInv, ReadersCurrent
    <2> HIDE DEF c
    <2>4. CurrentSoFar(c)
      BY <2>2, <2>3 DEF CurrentSoFar
    <2> QED
      BY <1>2, <2>1, <2>2, <2>4, TookCache
  <1>3. CASE reader[r].app \notin live
    <2> DEFINE c == [reader[r] EXCEPT !.step = "fallback"]
    <2>1. Go(r, c) /\ ReadOnly /\ overlap' = overlap /\ c.step = "fallback"
      BY <1>1, <1>3 DEF GetApp, Took, ReaderRec
    <2> HIDE DEF c
    <2> QED
      BY <2>1, CallsOnly, NotReadingCache
  <1> QED
    BY <1>2, <1>3

\* A read that takes a caller from one step of a call to the next.
LEMMA ReadCache ==
    ASSUME ResolverInv, CacheInv, NEW r \in Reader, reader[r].step \in Reading, NEW c, Took(r, c),
           c.step \in Reading, c.app = reader[r].app,
           CurrentSoFar(reader[r]) => CurrentSoFar(c)
    PROVE  CacheInv'
  <1>1. Go(r, c) /\ ReadOnly /\ overlap' = overlap
    BY DEF Took
  <1>2. c.app \in live /\ (r \notin overlap => CurrentSoFar(reader[r]))
    BY DEF CacheInv, AppsLive, ReadersCurrent
  <1> QED
    BY <1>1, <1>2, CallsOnly, TookCache

LEMMA GetDefaultAppPlanCache ==
    ASSUME ResolverInv, CacheInv, NEW r \in Reader, GetDefaultAppPlan(r) PROVE CacheInv'
  <1>1. /\ reader[r].step = "defaultApp" /\ reader[r] \in ReaderRec /\ reader[r].app \in App
        /\ reader[r].step \in Reading
    BY Asks DEF GetDefaultAppPlan, At, Call, Reading
  <1>2. /\ AfterDefault(r) \in {"ownApp", "defaultInst"} /\ AfterDefault(r) \in Reading
        /\ AfterDefault(r) = "ownApp" <=> reader[r].own # None
    BY DEF AfterDefault, Reading
  <1>3. PICK c \in ReaderRec :
           /\ Took(r, c) /\ c.step = AfterDefault(r) /\ c.app = reader[r].app /\ c.own = reader[r].own
           /\ reader[r].lim = Unlimited => c.lim = [app |-> DefaultTerms, inst |-> 0]
    <2>0. /\ \A g \in GlobalDefault \cap live : DefaultTerms = terms[g]
          /\ GlobalDefault \cap live = {} => DefaultTerms = 0
      BY OneDefault DEF CacheInv, RowsInOrder, DefaultTerms
    <2>1. CASE GlobalDefault \cap live = {}
      <3> DEFINE c == [reader[r] EXCEPT !.step = AfterDefault(r)]
      <3>1. /\ c \in ReaderRec /\ c.step = AfterDefault(r) /\ c.app = reader[r].app
            /\ c.own = reader[r].own /\ c.lim = reader[r].lim
        BY <1>1, <1>2 DEF ReaderRec, Call
      <3>2. Took(r, c)
        BY <2>1 DEF GetDefaultAppPlan
      <3> HIDE DEF c
      <3> QED
        BY <2>0, <2>1, <3>1, <3>2 DEF Unlimited
    <2>2. CASE GlobalDefault \cap live # {}
      <3>1. PICK g \in GlobalDefault \cap live :
               Took(r, [reader[r] EXCEPT !.step = AfterDefault(r), !.lim.app = terms[g]])
        BY <2>2 DEF GetDefaultAppPlan
      <3> DEFINE t == terms[g]
                 c == [reader[r] EXCEPT !.step = AfterDefault(r), !.lim.app = t]
      <3>2. t \in Terms /\ t = DefaultTerms
        BY <2>0, LiveTerms, PlansAssumption DEF Plan
      <3>3. Took(r, c)
        BY <3>1
      <3> HIDE DEF t
      <3>4. /\ c \in ReaderRec /\ c.step = AfterDefault(r) /\ c.app = reader[r].app
            /\ c.own = reader[r].own /\ c.lim = [reader[r].lim EXCEPT !.app = t]
        BY <1>1, <1>2, <3>2 DEF ReaderRec, Call, Limits
      <3> HIDE DEF c
      <3>5. reader[r].lim = Unlimited => c.lim = [app |-> DefaultTerms, inst |-> 0]
        BY <3>2, <3>4 DEF Unlimited
      <3> QED
        BY <3>3, <3>4, <3>5
    <2> QED
      BY <2>1, <2>2
  <1>4. ASSUME CurrentSoFar(reader[r]) PROVE CurrentSoFar(c)
    <2>1. c.own = assigned[c.app] /\ c.lim = [app |-> DefaultTerms, inst |-> 0]
      BY <1>1, <1>3, <1>4 DEF CurrentSoFar
    <2>2. assigned[c.app] = None => AppTerms(c.app) = DefaultTerms
      BY <1>1, <1>3, TermsOf, Ids DEF ResolverInv
    <2> QED
      BY <1>2, <1>3, <2>1, <2>2 DEF CurrentSoFar
  <1> QED
    BY <1>1, <1>2, <1>3, <1>4, ReadCache

LEMMA GetOwnAppPlanCache ==
    ASSUME ResolverInv, CacheInv, NEW r \in Reader, GetOwnAppPlan(r) PROVE CacheInv'
  <1> DEFINE own == reader[r].own
  <1>1. /\ reader[r].step = "ownApp" /\ reader[r] \in ReaderRec /\ reader[r].app \in App
        /\ reader[r].step \in Reading
    BY Asks DEF GetOwnAppPlan, At, Call, Reading
  <1>2. PICK c \in ReaderRec :
           /\ Took(r, c) /\ c.step = "defaultInst" /\ c.app = reader[r].app
           /\ c.lim = IF own \in live THEN [reader[r].lim EXCEPT !.app = terms[own]] ELSE reader[r].lim
    <2>1. CASE own \in live
      <3> DEFINE t == terms[own]
                 c == [reader[r] EXCEPT !.step = "defaultInst", !.own = None, !.lim.app = t]
      <3>1. own \in Plan
        BY <1>1, <2>1, Ids DEF ReaderRec, ResolverInv
      <3>2. t \in Terms /\ Took(r, c)
        BY <2>1, <3>1, LiveTerms DEF GetOwnAppPlan
      <3> HIDE DEF t
      <3>3. /\ c \in ReaderRec /\ c.step = "defaultInst" /\ c.app = reader[r].app
            /\ c.lim = [reader[r].lim EXCEPT !.app = t]
        BY <1>1, <3>2 DEF ReaderRec, Call, Reading, Limits
      <3> HIDE DEF c
      <3> QED
        BY <2>1, <3>2, <3>3 DEF t
    <2>2. CASE own \notin live
      <3> DEFINE c == [reader[r] EXCEPT !.step = "defaultInst", !.own = None]
      <3>1. /\ c \in ReaderRec /\ c.step = "defaultInst" /\ c.app = reader[r].app
            /\ c.lim = reader[r].lim
        BY <1>1 DEF ReaderRec, Call, Reading
      <3>2. Took(r, c)
        BY <2>2 DEF GetOwnAppPlan
      <3> HIDE DEF c
      <3> QED
        BY <2>2, <3>1, <3>2
    <2> QED
      BY <2>1, <2>2
  <1>3. ASSUME CurrentSoFar(reader[r]) PROVE CurrentSoFar(c)
    <2>1. own = assigned[c.app] /\ reader[r].lim = [app |-> DefaultTerms, inst |-> 0]
      BY <1>1, <1>2, <1>3 DEF CurrentSoFar
    <2>2. c.lim = [app |-> AppTerms(c.app), inst |-> 0]
      BY <1>1, <1>2, <2>1, TermsOf
    <2> QED
      BY <1>2, <2>2 DEF CurrentSoFar
  <1>4. c.step \in Reading
    BY <1>2 DEF Reading
  <1> QED
    BY <1>1, <1>2, <1>3, <1>4, ReadCache

LEMMA GetDefaultInstPlanCache ==
    ASSUME ResolverInv, CacheInv, NEW r \in Reader, GetDefaultInstPlan(r) PROVE CacheInv'
  <1> DEFINE d    == OwnDefault[reader[r].app]
             next == IF reader[r].plan # None THEN "ownInst" ELSE "store"
  <1>1. /\ reader[r].step = "defaultInst" /\ reader[r] \in ReaderRec /\ reader[r].app \in App
        /\ reader[r].step \in Reading /\ next \in Reading
    BY Asks DEF GetDefaultInstPlan, At, Call, Reading
  <1>2. PICK c \in ReaderRec :
           /\ Took(r, c) /\ c.step = next /\ c.app = reader[r].app /\ c.plan = reader[r].plan
           /\ c.lim = IF d \in live THEN [reader[r].lim EXCEPT !.inst = terms[d]] ELSE reader[r].lim
    <2>1. CASE d \in live
      <3> DEFINE t == terms[d]
                 c == [reader[r] EXCEPT !.step = next, !.lim.inst = t]
      <3>1. d \in Plan
        BY <1>1, PlansAssumption DEF Plan
      <3>2. t \in Terms /\ Took(r, c)
        BY <2>1, <3>1, LiveTerms DEF GetDefaultInstPlan
      <3> HIDE DEF t, next
      <3>3. /\ c \in ReaderRec /\ c.step = next /\ c.app = reader[r].app /\ c.plan = reader[r].plan
            /\ c.lim = [reader[r].lim EXCEPT !.inst = t]
        BY <1>1, <3>2 DEF ReaderRec, Call, Limits
      <3> HIDE DEF c
      <3> QED
        BY <2>1, <3>2, <3>3 DEF t
    <2>2. CASE d \notin live
      <3> DEFINE c == [reader[r] EXCEPT !.step = next]
      <3>1. Took(r, c)
        BY <2>2 DEF GetDefaultInstPlan
      <3> HIDE DEF next
      <3>2. /\ c \in ReaderRec /\ c.step = next /\ c.app = reader[r].app /\ c.plan = reader[r].plan
            /\ c.lim = reader[r].lim
        BY <1>1 DEF ReaderRec, Call
      <3> HIDE DEF c
      <3> QED
        BY <2>2, <3>1, <3>2
    <2> QED
      BY <2>1, <2>2
  <1>3. ASSUME CurrentSoFar(reader[r]) PROVE CurrentSoFar(c)
    <2>1. reader[r].lim = [app |-> AppTerms(c.app), inst |-> 0]
      BY <1>1, <1>2, <1>3 DEF CurrentSoFar
    <2>2. c.lim = [app |-> AppTerms(c.app), inst |-> DefaultInstTerms(c.app)]
      BY <1>2, <2>1 DEF DefaultInstTerms
    <2>3. InstTerms(c.app, None) = DefaultInstTerms(c.app)
      BY TermsOf, Ids DEF ResolverInv
    <2>4. next = "ownInst" => c.plan # None
      BY <1>2
    <2>5. next = "store" => c.lim = Effective(c.app, c.plan)
      BY <1>2, <2>2, <2>3 DEF Effective
    <2> QED
      BY <1>2, <2>2, <2>4, <2>5 DEF CurrentSoFar
  <1> HIDE DEF next
  <1> QED
    BY <1>1, <1>2, <1>3, ReadCache

LEMMA GetOwnInstPlanCache ==
    ASSUME ResolverInv, CacheInv, NEW r \in Reader, GetOwnInstPlan(r) PROVE CacheInv'
  <1> DEFINE p == reader[r].plan
  <1>1. /\ reader[r].step = "ownInst" /\ reader[r] \in ReaderRec /\ reader[r].app \in App
        /\ reader[r].step \in Reading
    BY Asks DEF GetOwnInstPlan, At, Call, Reading
  <1>2. PICK c \in ReaderRec :
           /\ Took(r, c) /\ c.step = "store" /\ c.app = reader[r].app /\ c.plan = p
           /\ c.lim = IF p \in live THEN [reader[r].lim EXCEPT !.inst = terms[p]] ELSE reader[r].lim
    <2>1. CASE p \in live
      <3> DEFINE t == terms[p]
                 c == [reader[r] EXCEPT !.step = "store", !.lim.inst = t]
      <3>1. p \in Plan
        BY <1>1, <2>1, Ids DEF ReaderRec, ResolverInv
      <3>2. t \in Terms /\ Took(r, c)
        BY <2>1, <3>1, LiveTerms DEF GetOwnInstPlan
      <3> HIDE DEF t
      <3>3. /\ c \in ReaderRec /\ c.step = "store" /\ c.app = reader[r].app /\ c.plan = p
            /\ c.lim = [reader[r].lim EXCEPT !.inst = t]
        BY <1>1, <3>2 DEF ReaderRec, Call, Reading, Limits
      <3> HIDE DEF c
      <3> QED
        BY <2>1, <3>2, <3>3 DEF t
    <2>2. CASE p \notin live
      <3> DEFINE c == [reader[r] EXCEPT !.step = "store"]
      <3>1. /\ c \in ReaderRec /\ c.step = "store" /\ c.app = reader[r].app /\ c.plan = p
            /\ c.lim = reader[r].lim
        BY <1>1 DEF ReaderRec, Call, Reading
      <3>2. Took(r, c)
        BY <2>2 DEF GetOwnInstPlan
      <3> HIDE DEF c
      <3> QED
        BY <2>2, <3>1, <3>2
    <2> QED
      BY <2>1, <2>2
  <1>3. ASSUME CurrentSoFar(reader[r]) PROVE CurrentSoFar(c)
    <2>1. reader[r].lim = [app |-> AppTerms(c.app), inst |-> DefaultInstTerms(c.app)]
      BY <1>1, <1>2, <1>3 DEF CurrentSoFar
    <2>2. c.lim = Effective(c.app, c.plan)
      BY <1>2, <2>1, TermsOf DEF Effective
    <2> QED
      BY <1>2, <2>2 DEF CurrentSoFar
  <1>4. c.step \in Reading
    BY <1>2 DEF Reading
  <1> QED
    BY <1>1, <1>2, <1>3, <1>4, ReadCache

LEMMA ReadFailsCache ==
    ASSUME ResolverInv, CacheInv, NEW r \in Reader, ReadFails(r) PROVE CacheInv'
  <1> DEFINE c == [reader[r] EXCEPT !.step = "fallback", !.own = None, !.lim = Unlimited]
  <1>1. reader[r] \in ReaderRec
    BY DEF ResolverInv, ResolverTypeOK
  <1>2. c.step = "fallback" /\ Go(r, c) /\ ReadOnly /\ overlap' = overlap \ {r}
    BY <1>1 DEF ReadFails, ReaderRec
  <1> HIDE DEF c
  <1> QED
    BY <1>2, CallsOnly, NotReadingCache

LEMMA FallbackCache ==
    ASSUME ResolverInv, CacheInv, NEW r \in Reader, Fallback(r) PROVE CacheInv'
  <1>1. reader[r].step \in Call /\ reader[r] \in ReaderRec
    BY Asks DEF Fallback, At, Call
  <1>2. CASE lastGood[KeyOf(r)] # None
    <2>1. lastGood[KeyOf(r)] \in Limits
      BY <1>1, <1>2, Asks DEF ResolverInv, ResolverTypeOK
    <2> QED
      BY <1>2, <2>1, AnswerCache DEF Fallback
  <1>3. CASE lastGood[KeyOf(r)] = None
    <2> DEFINE c == [reader[r] EXCEPT !.step = "open", !.lim = Unlimited]
    <2>1. c.step = "open" /\ Go(r, c) /\ ReadOnly /\ overlap' = overlap
      BY <1>1, <1>3 DEF Fallback, Took, ReaderRec
    <2> HIDE DEF c
    <2> QED
      BY <2>1, CallsOnly, NotReadingCache
  <1> QED
    BY <1>2, <1>3

\* What is stored is current, or stored by a caller that has been overtaken.
LEMMA StoreCache ==
    ASSUME ResolverInv, CacheInv, NEW r \in Reader, Store(r) PROVE CacheInv'
  <1> DEFINE k == KeyOf(r)
             lim == reader[r].lim
  <1>1. /\ reader[r].step = "store" /\ reader[r].app \in App /\ k \in Key /\ lim \in Limits
        /\ k = <<reader[r].app, reader[r].plan>> /\ reader[r].step \in Reading
    BY Asks DEF Store, At, Call, Reading, ReaderRec, KeyOf
  <1>2. /\ cache' = [cache EXCEPT ![k] = lim] /\ overlap' = overlap \ {r}
        /\ tainted' = IF r \in overlap THEN tainted \cup {k} ELSE tainted \ {k}
        /\ Go(r, Answer(lim)) /\ UNCHANGED plansVars
    BY DEF Store
  <1>3. /\ Answer(lim).step = "idle" /\ CurrentSoFar(Answer(lim))
    BY <1>1, AnswerFits DEF CurrentSoFar
  <1>4. /\ ReadersCurrent'
        /\ \A s \in Reader : reader'[s].step \in Reading => reader'[s].app \in live'
    BY <1>2, <1>3, CallsOnly, BecomesCurrent
  <1>5. UNCHANGED <<live, assigned, terms, req>>
    BY <1>2 DEF plansVars
  <1>6. /\ RowsInOrder'
        /\ \A j \in Key : /\ InUse(j)' <=> InUse(j)
                          /\ Effective(j[1], j[2])' = Effective(j[1], j[2])
    BY <1>5, RowsStill
  <1>7. k[1] \in live /\ (r \notin overlap => lim = Effective(k[1], k[2]))
    <2>1. reader[r].app \in live /\ (r \notin overlap => CurrentSoFar(reader[r]))
      BY <1>1 DEF CacheInv, AppsLive, ReadersCurrent
    <2>2. k[1] = reader[r].app /\ k[2] = reader[r].plan
      BY <1>1
    <2>3. r \notin overlap => lim = Effective(reader[r].app, reader[r].plan)
      BY <1>1, <2>1 DEF CurrentSoFar
    <2> HIDE DEF k, lim
    <2> QED
      BY <2>1, <2>2, <2>3
  <1> HIDE DEF k, lim
  <1>8. cache'[k] = lim /\ \A j \in Key \ {k} : cache'[j] = cache[j]
    BY <1>1, <1>2 DEF ResolverInv, ResolverTypeOK
  <1>9. AppsLive'
    BY <1>4, <1>5, <1>7, <1>8 DEF CacheInv, AppsLive
  <1>10. CacheCurrentUnlessOvertaken'
    <2> SUFFICES ASSUME \A h \in Handler : ~IsAt(h, "flush")', NEW j \in Key,
                        cache'[j] # None, j \notin tainted', InUse(j)'
                 PROVE  cache'[j] = Effective(j[1], j[2])'
      BY DEF CacheCurrentUnlessOvertaken
    <2>1. \A h \in Handler : ~IsAt(h, "flush")
      BY <1>5 DEF IsAt
    <2>2. CASE j = k
      BY <1>2, <1>6, <1>7, <1>8, <2>2
    <2>3. CASE j # k
      <3>1. j \notin tainted /\ cache[j] # None /\ InUse(j)
        BY <1>2, <1>6, <1>8, <2>3
      <3>2. cache[j] = Effective(j[1], j[2])
        BY <2>1, <3>1 DEF CacheInv, CacheCurrentUnlessOvertaken
      <3> QED
        BY <1>6, <1>8, <2>3, <3>2
    <2> QED
      BY <2>2, <2>3
  <1> QED
    BY <1>4, <1>6, <1>9, <1>10 DEF CacheInv

\* Whoever is reading while a row changes is overtaken.
LEMMA PlansStepCache ==
    ASSUME ResolverInv, CacheInv, PlansStep PROVE CacheInv'
  <1>1. /\ RowStep \/ \E h \in Handler : RequestStep(h)
        /\ UNCHANGED <<cache, reader, tainted>> /\ Overtaken
    BY DEF PlansStep, cacheVars
  <1>2. RowsMove /\ RowsInOrder'
    BY <1>1, RowsDoMove DEF ResolverInv, CacheInv, RowsMove
  <1>3. AppsLive'
    <2>1. ASSUME NEW k \in Key, cache'[k] # None PROVE k[1] \in live'
      BY <1>1, <1>2, <2>1 DEF CacheInv, AppsLive, RowsMove, Key
    <2>2. ASSUME NEW r \in Reader, reader'[r].step \in Reading PROVE reader'[r].app \in live'
      <3>1. reader[r].step \in Call
        BY <1>1, <2>2 DEF Call
      <3>2. reader[r].app \in App /\ reader[r].app \in live
        BY <1>1, <2>2, <3>1, Asks DEF CacheInv, AppsLive
      <3> QED
        BY <1>1, <1>2, <3>2 DEF RowsMove
    <2> QED
      BY <2>1, <2>2 DEF AppsLive
  <1>4. ASSUME UNCHANGED <<live, assigned, terms>>
        PROVE  ReadersCurrent' /\ CacheCurrentUnlessOvertaken'
    <2>1. overlap' = overlap
      BY <1>1, <1>4 DEF Overtaken
    <2>2. ASSUME NEW r \in Reader \ overlap PROVE CurrentSoFar(reader[r])'
      <3>1. CurrentSoFar(reader[r])
        BY DEF CacheInv, ReadersCurrent
      <3> QED
        BY <1>1, <1>4, <3>1
        DEF CurrentSoFar, AppTerms, InstTerms, Effective, DefaultTerms, DefaultOf, DefaultInstTerms
    <2>3. ReadersCurrent'
      BY <1>1, <2>1, <2>2 DEF CacheInv, ReadersCurrent
    <2>4. \A k \in Key : /\ InUse(k)' <=> InUse(k)
                         /\ Effective(k[1], k[2])' = Effective(k[1], k[2])
      BY <1>4, RowsStill
    <2>5. AllFlushed' => AllFlushed
      BY <1>2 DEF RowsMove
    <2>6. CacheCurrentUnlessOvertaken'
      BY <1>1, <2>4, <2>5 DEF CacheInv, CacheCurrentUnlessOvertaken, AllFlushed
    <2> QED
      BY <2>3, <2>6
  <1>5. ASSUME ~UNCHANGED <<live, assigned, terms>>
        PROVE  ReadersCurrent' /\ CacheCurrentUnlessOvertaken'
    <2>1. overlap' = overlap \cup {r \in Reader : reader[r].step \in Reading}
      BY <1>1, <1>5 DEF Overtaken
    <2>2. ASSUME NEW r \in Reader, r \notin overlap' PROVE CurrentSoFar(reader[r])'
      BY <1>1, <2>1, <2>2 DEF CurrentSoFar, Reading
    <2>3. ReadersCurrent'
      BY <1>1, <2>2 DEF CacheInv, ReadersCurrent
    <2>4. CASE Quiet
      <3>1. ASSUME AllFlushed', NEW k \in Key, cache'[k] # None, k \notin tainted', InUse(k)'
            PROVE  cache'[k] = Effective(k[1], k[2])'
        <4>1. AllFlushed /\ k[1] \in live /\ cache[k] # None /\ k \notin tainted
          BY <1>1, <1>2, <3>1 DEF RowsMove, CacheInv, AppsLive
        <4>2. InUse(k) /\ Effective(k[1], k[2])' = Effective(k[1], k[2])
          BY <2>4, <3>1, <4>1 DEF Quiet
        <4>3. cache[k] = Effective(k[1], k[2])
          BY <4>1, <4>2 DEF CacheInv, CacheCurrentUnlessOvertaken, AllFlushed
        <4> QED
          BY <1>1, <4>2, <4>3
      <3> QED
        BY <2>3, <3>1 DEF CacheCurrentUnlessOvertaken, AllFlushed, IsAt
    <2>5. CASE ~AllFlushed'
      BY <2>3, <2>5 DEF CacheCurrentUnlessOvertaken, AllFlushed, IsAt
    <2> QED
      BY <1>2, <1>5, <2>3, <2>4, <2>5 DEF RowsMove
  <1> QED
    BY <1>2, <1>3, <1>4, <1>5 DEF CacheInv

\* After a flush nothing is cached.
LEMMA FlushCacheCache ==
    ASSUME ResolverInv, CacheInv, NEW h \in Handler, FlushCache(h) PROVE CacheInv'
  <1>1. /\ UNCHANGED <<live, assigned, terms, reader, overlap>>
        /\ cache' = [k \in Key |-> None]
    BY DEF FlushCache, Flush
  <1>2. ReadersCurrent'
    <2>1. ASSUME NEW r \in Reader \ overlap PROVE CurrentSoFar(reader[r])'
      <3>1. CurrentSoFar(reader[r])
        BY DEF CacheInv, ReadersCurrent
      <3> QED
        BY <1>1, <3>1
        DEF CurrentSoFar, AppTerms, InstTerms, Effective, DefaultTerms, DefaultOf, DefaultInstTerms
    <2> QED
      BY <1>1, <2>1 DEF CacheInv, ReadersCurrent
  <1>3. RowsInOrder'
    BY <1>1, RowsStill
  <1> QED
    BY <1>1, <1>2, <1>3 DEF CacheInv, AppsLive, CacheCurrentUnlessOvertaken

LEMMA RestartRelayCache == ASSUME ResolverInv, CacheInv, RestartRelay PROVE CacheInv'
  <1>1. /\ UNCHANGED <<live, assigned, terms>> /\ reader' = [r \in Reader |-> NoCall]
        /\ cache' = [k \in Key |-> None]
    BY DEF RestartRelay, Restart
  <1>2. \A r \in Reader : reader'[r].step = "idle"
    BY <1>1 DEF NoCall
  <1>3. \A r \in Reader : CurrentSoFar(reader[r])'
    BY <1>2 DEF CurrentSoFar
  <1>4. RowsInOrder'
    BY <1>1, RowsStill
  <1> QED
    BY <1>1, <1>2, <1>3, <1>4, CallsOnly DEF CacheInv, AppsLive, ReadersCurrent, CacheCurrentUnlessOvertaken

LEMMA InitCache == ASSUME ResolverInit PROVE CacheInv
  <1>1. /\ live = {} /\ terms = [p \in Plan |-> 0] /\ reader = [r \in Reader |-> NoCall]
        /\ cache = [k \in Key |-> None]
    BY DEF ResolverInit, Init
  <1>2. \A r \in Reader : reader[r].step = "idle"
    BY <1>1 DEF NoCall
  <1>3. \A r \in Reader : CurrentSoFar(reader[r])
    BY <1>2 DEF CurrentSoFar
  <1>4. RowsInOrder
    BY <1>1 DEF RowsInOrder
  <1> QED
    BY <1>1, <1>2, <1>3, <1>4, CallsOnly DEF CacheInv, AppsLive, ReadersCurrent, CacheCurrentUnlessOvertaken

LEMMA NextCache == ResolverInv /\ CacheInv /\ [ResolverNext]_vars => CacheInv'
  <1> SUFFICES ASSUME ResolverInv, CacheInv, [ResolverNext]_vars PROVE CacheInv'
    OBVIOUS
  <1>1. ASSUME NEW r \in Reader, ReaderStep(r) PROVE CacheInv'
    BY <1>1, BeginCache, LookupCache, GetAppCache, GetDefaultAppPlanCache, GetOwnAppPlanCache,
       GetDefaultInstPlanCache, GetOwnInstPlanCache, ReadFailsCache, StoreCache, FallbackCache
    DEF ReaderStep
  <1>2. CASE UNCHANGED vars
    <2>1. UNCHANGED <<live, assigned, terms, req, cache, reader, overlap, tainted>>
      BY <1>2 DEF vars, plansVars, cacheVars, ghosts
    <2>2. ASSUME NEW r \in Reader \ overlap PROVE CurrentSoFar(reader[r])'
      <3>1. CurrentSoFar(reader[r])
        BY DEF CacheInv, ReadersCurrent
      <3> QED
        BY <2>1, <3>1
        DEF CurrentSoFar, AppTerms, InstTerms, Effective, DefaultTerms, DefaultOf, DefaultInstTerms
    <2>3. ReadersCurrent'
      BY <2>1, <2>2 DEF CacheInv, ReadersCurrent
    <2>4. CacheCurrentUnlessOvertaken'
      BY <2>1, RowsStill DEF CacheInv, CacheCurrentUnlessOvertaken, IsAt
    <2> QED
      BY <2>1, <2>3, <2>4, RowsStill DEF CacheInv, AppsLive
  <1> QED
    BY <1>1, <1>2, PlansStepCache, FlushCacheCache, RestartRelayCache DEF ResolverNext

\* Cached limits are those of the tables but for the time a change needs to reach its
\* flush, unless the entry was filled by a call that had begun to read before a change:
\* no write forgets to flush, for any rows, callers and requests at once
\* (usageplan.go:267, apps.go:172, resolver.go:83-141).
THEOREM CacheIsCurrent == ResolverSpec => []CacheCurrentUnlessOvertaken
  <1>1. ResolverInit => ResolverInv /\ CacheInv
    BY ResolverInitInv, InitCache
  <1>2. ResolverInv /\ CacheInv /\ [ResolverNext]_vars => ResolverInv' /\ CacheInv'
    BY ResolverNextInv, NextCache
  <1>3. ResolverInv /\ CacheInv => CacheCurrentUnlessOvertaken
    BY DEF CacheInv
  <1> QED
    BY <1>1, <1>2, <1>3, PTL DEF ResolverSpec
=============================================================================

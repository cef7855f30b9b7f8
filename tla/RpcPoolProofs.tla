---------------------------- MODULE RpcPoolProofs ----------------------------
(***************************************************************************)
(* Theorems about RpcPool, for any set of callers, any number of endpoints *)
(* and any cooldown.                                                       *)
(***************************************************************************)
EXTENDS RpcPool, TLAPS

(* The case split of every proof. *)
LEMMA PoolCases ==
  PoolNext <=>
    \/ Tick
    \/ \E t \in Caller : Begin(t) \/ GiveUp(t)
    \/ \E t \in Caller : Request(t)
    \/ \E t \in Caller : ApplicationError(t)
    \/ \E t \in Caller : Skip(t)
    \/ \E t \in Caller : Answered(t)
    \/ \E t \in Caller : FailOver(t)
    \/ \E t \in Caller : Return(t)
  BY DEF PoolNext, Step

-----------------------------------------------------------------------------
(* Type correctness needs to know that a call waits for an endpoint of the *)
(* list, or it could walk past its end.                                    *)

CallInv ==
  \A t \in Caller :
    /\ at[t] = "wait" => next[t] \in Endpoint
    /\ at[t] = "idle" => next[t] = 1

PoolTypeInv == PoolTypeOK /\ CallInv

LEMMA PoolTypeInit == PoolInit => PoolTypeInv
  BY RpcPoolAssumption
  DEF PoolInit, PoolTypeInv, CallInv, PoolTypeOK, CallState, Ended, LongAgo, Never,
      Endpoint

(* What may be written to the variables keeps their types. *)
LEMMA Ranges ==
  ASSUME PoolTypeOK
  PROVE  /\ \A t \in Caller : Cooldown - age[t] \in LongAgo..Cooldown
         /\ \A t \in Caller : next[t] \in Endpoint => next[t] + 1 \in 1..(NumEndpoints + 1)
         /\ LongAgo \in LongAgo..Cooldown /\ 0 \in 0..Never /\ 0 \in 0..MaxAge
         /\ 1 \in 1..(NumEndpoints + 1)
  BY RpcPoolAssumption DEF PoolTypeOK, LongAgo, Never, Endpoint

LEMMA PoolTypeNext == PoolTypeInv /\ [PoolNext]_poolVars => PoolTypeInv'
<1> SUFFICES ASSUME PoolTypeInv, [PoolNext]_poolVars PROVE PoolTypeInv'
  OBVIOUS
<1> USE DEF PoolTypeInv, CallInv, PoolTypeOK, CallState, Ended
<1>1. CASE Tick
  <2>1. age' \in [Caller -> 0..MaxAge]
    BY <1>1, RpcPoolAssumption DEF Tick
  <2>2. cool' \in [Endpoint -> LongAgo..Cooldown]
    BY <1>1, RpcPoolAssumption DEF Tick, AtLeast, LongAgo
  <2>3. failAge' \in [Endpoint -> 0..Never]
    BY <1>1, RpcPoolAssumption DEF Tick, AtMost, Never
  <2>4. QED BY <1>1, <2>1, <2>2, <2>3 DEF Tick
<1>2. ASSUME NEW t \in Caller, Begin(t) \/ GiveUp(t) PROVE PoolTypeInv'
  BY <1>2 DEF Begin, GiveUp, Goto
<1>3. ASSUME NEW t \in Caller, Request(t) PROVE PoolTypeInv'
  BY <1>3 DEF Request, Looking, Goto
<1>4. ASSUME NEW t \in Caller, ApplicationError(t) PROVE PoolTypeInv'
  BY <1>4 DEF ApplicationError, Goto
<1>5. ASSUME NEW t \in Caller, Skip(t) PROVE PoolTypeInv'
  BY <1>5, Ranges DEF Skip, Looking
<1>6. ASSUME NEW t \in Caller, Answered(t) PROVE PoolTypeInv'
  BY <1>6, Ranges DEF Answered, Goto
<1>7. ASSUME NEW t \in Caller, FailOver(t) PROVE PoolTypeInv'
  <2>1. next' \in [Caller -> 1..(NumEndpoints + 1)]
    BY <1>7, Ranges DEF FailOver
  <2>2. cool' \in [Endpoint -> LongAgo..Cooldown]
    BY <1>7, Ranges DEF FailOver
  <2>3. failAge' \in [Endpoint -> 0..Never]
    BY <1>7, Ranges DEF FailOver
  <2>4. QED BY <1>7, <2>1, <2>2, <2>3 DEF FailOver, Goto
<1>8. ASSUME NEW t \in Caller, Return(t) PROVE PoolTypeInv'
  BY <1>8, Ranges DEF Return, Goto
<1>9. CASE UNCHANGED poolVars
  BY <1>9 DEF poolVars
<1>10. QED
  BY <1>1, <1>2, <1>3, <1>4, <1>5, <1>6, <1>7, <1>8, <1>9, PoolCases

(* No call walks past the end of the list, and no cooldown reaches further *)
(* ahead than cooldown_s, whatever the threads do to the shared rows.      *)
THEOREM PoolTypeCorrect == PoolSpec => []PoolTypeOK
<1>1. PoolTypeInv => PoolTypeOK
  BY DEF PoolTypeInv
<1>2. QED BY <1>1, PoolTypeInit, PoolTypeNext, PTL DEF PoolSpec

-----------------------------------------------------------------------------
(* An endpoint is passed over only after a failure.  The invariant ties    *)
(* each cooldown to the failure that set it.                               *)

CooldownBounded ==
  \A u \in Endpoint : cool[u] = LongAgo \/ cool[u] + failAge[u] <= Cooldown

PassInv == CooldownBounded /\ PassedOverOnlyAfterFailure

LEMMA PassInit == PoolInit => PassInv
  BY RpcPoolAssumption
  DEF PoolInit, PassInv, CooldownBounded, PassedOverOnlyAfterFailure, LongAgo, Endpoint

LEMMA PassNext == PoolTypeInv /\ PassInv /\ [PoolNext]_poolVars => PassInv'
<1> SUFFICES ASSUME PoolTypeInv, PassInv, [PoolNext]_poolVars PROVE PassInv'
  OBVIOUS
<1> USE DEF PassInv, CooldownBounded, PassedOverOnlyAfterFailure
<1>a. /\ at \in [Caller -> CallState] /\ next \in [Caller -> 1..(NumEndpoints + 1)]
      /\ age \in [Caller -> 0..MaxAge] /\ cool \in [Endpoint -> LongAgo..Cooldown]
      /\ failAge \in [Endpoint -> 0..Never]
      /\ \A t \in Caller : at[t] = "wait" => next[t] \in Endpoint
      /\ \A t \in Caller : at[t] = "idle" => next[t] = 1
  BY DEF PoolTypeInv, PoolTypeOK, CallInv
<1>b. /\ Cooldown \in Nat /\ MaxAge \in Nat /\ LongAgo = -MaxAge
      /\ Never = Cooldown + MaxAge + 1 /\ NumEndpoints \in Nat
      /\ Endpoint = 1..NumEndpoints
  BY RpcPoolAssumption DEF LongAgo, Never, Endpoint
<1>c. /\ \A u \in Endpoint : /\ cool[u] \in Int /\ -MaxAge <= cool[u]
                             /\ failAge[u] \in Int /\ 0 <= failAge[u]
      /\ \A t \in Caller : /\ age[t] \in Int /\ 0 <= age[t] /\ age[t] <= MaxAge
                           /\ next[t] \in Int
  BY <1>a, <1>b
<1>1. CASE Tick
  <2>1. \A u \in Endpoint : /\ cool'[u] = AtLeast(LongAgo, cool[u] - 1)
                            /\ failAge'[u] = AtMost(Never, failAge[u] + 1)
    BY <1>1 DEF Tick
  <2>2. ASSUME NEW u \in Endpoint
        PROVE  /\ cool'[u] \in Int /\ failAge'[u] \in Int
               /\ failAge'[u] <= failAge[u] + 1
               /\ cool'[u] = LongAgo \/ (cool[u] # LongAgo /\ cool'[u] = cool[u] - 1)
    <3>1. cool'[u] = AtLeast(LongAgo, cool[u] - 1) /\ cool[u] \in Int /\ LongAgo <= cool[u]
      BY <2>1, <1>b, <1>c
    <3>2. /\ cool'[u] \in Int
          /\ cool'[u] = LongAgo \/ (cool[u] # LongAgo /\ cool'[u] = cool[u] - 1)
      BY <3>1, <1>b DEF AtLeast
    <3>3. failAge'[u] = AtMost(Never, failAge[u] + 1) /\ failAge[u] \in Int
      BY <2>1, <1>c
    <3>4. failAge'[u] \in Int /\ failAge'[u] <= failAge[u] + 1
      BY <3>3, <1>b DEF AtMost
    <3>5. QED BY <3>2, <3>4
  <2>3. CooldownBounded'
    <3> SUFFICES ASSUME NEW u \in Endpoint
                 PROVE  cool'[u] = LongAgo \/ cool'[u] + failAge'[u] <= Cooldown
      OBVIOUS
    <3>1. CASE cool[u] # LongAgo /\ cool'[u] = cool[u] - 1
      <4>1. cool[u] + failAge[u] <= Cooldown
        BY <3>1
      <4>2. QED BY <4>1, <3>1, <2>2, <1>b, <1>c
    <3>2. QED BY <3>1, <2>2
  <2>4. PassedOverOnlyAfterFailure'
    <3> SUFFICES ASSUME NEW t \in Caller, NEW u \in Endpoint, at[t] # "idle", u < next[t]
                 PROVE  failAge'[u] <= Cooldown + age'[t]
      BY <1>1 DEF Tick
    <3>1. age'[t] = age[t] + 1
      BY <1>1 DEF Tick
    <3>2. failAge[u] <= Cooldown + age[t]
      OBVIOUS
    <3>3. QED BY <3>1, <3>2, <2>2, <1>b, <1>c
  <2>5. QED BY <2>3, <2>4
<1>2. ASSUME NEW t \in Caller, Begin(t) \/ GiveUp(t) PROVE PassInv'
  <2>1. /\ UNCHANGED <<next, age, cool, failAge>>
        /\ \A s \in Caller : at'[s] = at[s] \/ s = t
        /\ at[t] # "idle" \/ next[t] = 1
    BY <1>2, <1>a DEF Begin, GiveUp, Goto
  <2>2. QED BY <2>1, <1>a, <1>b
<1>3. ASSUME NEW t \in Caller, Request(t) PROVE PassInv'
  <2>1. /\ UNCHANGED <<next, age, cool, failAge>>
        /\ at[t] # "idle" /\ \A s \in Caller : at'[s] = at[s] \/ s = t
    BY <1>3, <1>a DEF Request, Looking, Goto
  <2>2. QED BY <2>1
<1>4. ASSUME NEW t \in Caller, ApplicationError(t) PROVE PassInv'
  <2>1. /\ UNCHANGED <<next, age, cool, failAge>>
        /\ at[t] # "idle" /\ \A s \in Caller : at'[s] = at[s] \/ s = t
    BY <1>4, <1>a DEF ApplicationError, Goto
  <2>2. QED BY <2>1
<1>5. ASSUME NEW t \in Caller, Skip(t) PROVE PassInv'
  <2>1. /\ UNCHANGED <<at, age, cool, failAge>>
        /\ next[t] \in Endpoint /\ next' = [next EXCEPT ![t] = next[t] + 1]
        /\ at[t] = "look" /\ age[t] + cool[next[t]] > 0
    BY <1>5 DEF Skip, Looking, Cooling
  <2>2. failAge[next[t]] <= Cooldown + age[t]
    <3>1. cool[next[t]] # LongAgo
      BY <2>1, <1>b, <1>c
    <3>2. cool[next[t]] + failAge[next[t]] <= Cooldown
      BY <2>1, <3>1
    <3>3. QED BY <2>1, <3>2, <1>b, <1>c
  <2>3. ASSUME NEW s \in Caller, NEW u \in Endpoint, at[s] # "idle", u < next'[s]
        PROVE  failAge[u] <= Cooldown + age[s]
    <3>1. CASE s = t /\ u = next[t]
      BY <3>1, <2>2
    <3>2. CASE s = t /\ u # next[t]
      <4>1. u < next[t] + 1 /\ u \in Int
        BY <3>2, <2>1, <2>3, <1>a, <1>b
      <4>2. u < next[t]
        BY <3>2, <4>1, <1>c
      <4>3. QED BY <3>2, <4>2, <2>1
    <3>3. CASE s # t
      BY <3>3, <2>1, <2>3, <1>a
    <3>4. QED BY <3>1, <3>2, <3>3
  <2>4. QED BY <2>1, <2>3
<1>6. ASSUME NEW t \in Caller, Answered(t) PROVE PassInv'
  <2>1. /\ UNCHANGED <<next, age, failAge>> /\ next[t] \in Endpoint
        /\ cool' = [cool EXCEPT ![next[t]] = LongAgo]
        /\ at[t] # "idle" /\ \A s \in Caller : at'[s] = at[s] \/ s = t
    BY <1>6, <1>a DEF Answered, Goto
  <2>2. QED BY <2>1, <1>a
<1>7. ASSUME NEW t \in Caller, FailOver(t) PROVE PassInv'
  <2>1. /\ UNCHANGED age /\ next[t] \in Endpoint
        /\ cool' = [cool EXCEPT ![next[t]] = Cooldown - age[t]]
        /\ failAge' = [failAge EXCEPT ![next[t]] = 0]
        /\ next' = [next EXCEPT ![t] = next[t] + 1]
        /\ at[t] # "idle" /\ \A s \in Caller : at'[s] = at[s] \/ s = t
    BY <1>7, <1>a DEF FailOver, Goto
  <2>2. CooldownBounded'
    <3> SUFFICES ASSUME NEW u \in Endpoint
                 PROVE  cool'[u] = LongAgo \/ cool'[u] + failAge'[u] <= Cooldown
      OBVIOUS
    <3>1. CASE u = next[t]
      <4>1. cool'[u] = Cooldown - age[t] /\ failAge'[u] = 0
        BY <3>1, <2>1, <1>a
      <4>2. QED BY <4>1, <1>b, <1>c
    <3>2. CASE u # next[t]
      <4>1. cool'[u] = cool[u] /\ failAge'[u] = failAge[u]
        BY <3>2, <2>1, <1>a
      <4>2. QED BY <4>1
    <3>3. QED BY <3>1, <3>2
  <2>3. ASSUME NEW s \in Caller, NEW u \in Endpoint, at'[s] # "idle", u < next'[s]
        PROVE  failAge'[u] <= Cooldown + age[s]
    <3>1. CASE u = next[t]
      <4>1. failAge'[u] = 0
        BY <3>1, <2>1, <1>a
      <4>2. QED BY <4>1, <1>b, <1>c
    <3>2. CASE u # next[t]
      <4>1. at[s] # "idle" /\ u < next[s]
        <5>1. CASE s = t
          <6>1. u < next[t] + 1 /\ u \in Int
            BY <5>1, <2>1, <2>3, <1>a, <1>b
          <6>2. QED BY <5>1, <6>1, <3>2, <2>1, <1>c
        <5>2. CASE s # t
          BY <5>2, <2>1, <2>3, <1>a
        <5>3. QED BY <5>1, <5>2
      <4>2. failAge'[u] = failAge[u]
        BY <3>2, <2>1, <1>a
      <4>3. QED BY <4>1, <4>2
    <3>3. QED BY <3>1, <3>2
  <2>4. QED BY <2>1, <2>2, <2>3
<1>8. ASSUME NEW t \in Caller, Return(t) PROVE PassInv'
  <2>1. /\ UNCHANGED <<cool, failAge>> /\ at'[t] = "idle"
        /\ \A s \in Caller : s # t => at'[s] = at[s] /\ next'[s] = next[s] /\ age'[s] = age[s]
    BY <1>8, <1>a DEF Return, Goto
  <2>2. QED BY <2>1
<1>9. CASE UNCHANGED poolVars
  BY <1>9 DEF poolVars
<1>10. QED
  BY <1>1, <1>2, <1>3, <1>4, <1>5, <1>6, <1>7, <1>8, <1>9, PoolCases

(* However the threads interleave on the shared rows, a call passes an     *)
(* endpoint over, or gives up, only after that endpoint failed somebody's  *)
(* request during the call or within cooldown_s before it.                 *)
THEOREM PassedOverHolds == PoolSpec => []PassedOverOnlyAfterFailure
<1>1. PassInv => PassedOverOnlyAfterFailure
  BY DEF PassInv
<1>2. QED
  BY <1>1, PoolTypeInit, PoolTypeNext, PassInit, PassNext, PTL DEF PoolSpec

-----------------------------------------------------------------------------
(* The README's sentence holds of a pool whose calls end before cooldown_s *)
(* is over: it is the slow failures that are not cooled.                   *)
THEOREM QuickFailuresCool == MaxAge < Cooldown => (PoolSpec => FailureCools)
<1> SUFFICES ASSUME MaxAge < Cooldown PROVE PoolSpec => FailureCools
  OBVIOUS
<1>1. PoolTypeInv /\ [PoolNext]_poolVars =>
        [\A t \in Caller : FailOver(t) => cool'[next[t]] > 0]_poolVars
  <2> SUFFICES ASSUME PoolTypeInv, NEW t \in Caller, FailOver(t)
               PROVE  cool'[next[t]] > 0
    OBVIOUS
  <2>1. next[t] \in Endpoint /\ age[t] \in 0..MaxAge /\ cool'[next[t]] = Cooldown - age[t]
    BY DEF FailOver, PoolTypeInv, CallInv, PoolTypeOK
  <2>2. QED BY <2>1, RpcPoolAssumption
<1>2. QED
  BY <1>1, PoolTypeInit, PoolTypeNext, PTL DEF PoolSpec, FailureCools
=============================================================================

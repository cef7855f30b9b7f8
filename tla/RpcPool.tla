------------------------------- MODULE RpcPool -------------------------------
(***************************************************************************)
(* RpcPool (zero/rpc_pool.py): an ordered list of endpoints shared without *)
(* a lock by the worker threads and the CEO.  A call reads the clock once, *)
(* walks the endpoints in order, skips those that are cooling, and passes  *)
(* to the next one when a request fails in transport or is rate limited.   *)
(*                                                                         *)
(* Time is relative, so that the clock needs no bound: cool[u] is          *)
(* cooldown_until minus the clock, age[t] is the clock minus the `now` a   *)
(* call read, and the test now < cooldown_until is age + cool > 0.  No     *)
(* call lasts longer than MaxAge, so a cooldown that ended MaxAge ago, or  *)
(* the 0.0 of an endpoint that works, is the same to every call.           *)
(***************************************************************************)
EXTENDS Integers

CONSTANTS
  Caller,        \* threads that share the pool
  NumEndpoints,  \* endpoints, in order of preference
  Cooldown,      \* cooldown_s
  MaxAge         \* the longest a call can take: every request has timeouts and retries

ASSUME RpcPoolAssumption ==
  /\ NumEndpoints \in Nat \ {0}
  /\ Cooldown \in Nat
  /\ MaxAge \in Nat \ {0}

Endpoint == 1..NumEndpoints
LongAgo == -MaxAge
Never == Cooldown + MaxAge + 1

VARIABLES
  at,       \* how a call stands: "idle", "look", "wait", or how it ended
  next,     \* the endpoint a call is looking at or waiting for
  tried,    \* attempted # 0
  age,      \* time since the call read the clock
  cool,     \* cooldown_until of each endpoint, relative to the clock
  failAge   \* history: time since each endpoint last failed a request

poolVars == <<at, next, tried, age, cool, failAge>>

Ended == {"answered", "error", "exhausted", "refused"}
CallState == {"idle", "look", "wait"} \cup Ended

PoolInit ==
  /\ at = [t \in Caller |-> "idle"]
  /\ next = [t \in Caller |-> 1]
  /\ tried = [t \in Caller |-> FALSE]
  /\ age = [t \in Caller |-> 0]
  /\ cool = [u \in Endpoint |-> LongAgo]
  /\ failAge = [u \in Endpoint |-> Never]

Goto(t, label) == at' = [at EXCEPT ![t] = label]

(* _invoke reads the clock, once: its `now` has age 0.                     *)
Begin(t) ==
  /\ at[t] = "idle"
  /\ Goto(t, "look")
  /\ UNCHANGED <<next, tried, age, cool, failAge>>

Looking(t) == at[t] = "look" /\ next[t] \in Endpoint
Cooling(t) == age[t] + cool[next[t]] > 0

(* Faulty variant: the call stays with a cooling endpoint and waits. *)
SkipInPlace(t) ==
  /\ Looking(t) /\ Cooling(t)
  /\ UNCHANGED poolVars

(* The walk compares each cooldown with the `now` of the call's beginning. *)
Skip(t) ==
  /\ Looking(t) /\ Cooling(t)
  /\ next' = [next EXCEPT ![t] = @ + 1]
  /\ UNCHANGED <<at, tried, age, cool, failAge>>

(* Faulty variant: cooling endpoints are tried as well. *)
RequestAnyway(t) ==
  /\ Looking(t)
  /\ Goto(t, "wait")
  /\ tried' = [tried EXCEPT ![t] = TRUE]
  /\ UNCHANGED <<next, age, cool, failAge>>

Request(t) ==
  /\ Looking(t) /\ ~ Cooling(t)
  /\ Goto(t, "wait")
  /\ tried' = [tried EXCEPT ![t] = TRUE]
  /\ UNCHANGED <<next, age, cool, failAge>>

(* A success clears the endpoint's cooldown, whoever set it and when. *)
Answered(t) ==
  /\ at[t] = "wait"
  /\ Goto(t, "answered")
  /\ cool' = [cool EXCEPT ![next[t]] = LongAgo]
  /\ UNCHANGED <<next, tried, age, failAge>>

(* Faulty variant: an error of the application cools the endpoint too. *)
ApplicationErrorCools(t) ==
  /\ at[t] = "wait"
  /\ Goto(t, "error")
  /\ cool' = [cool EXCEPT ![next[t]] = Cooldown - age[t]]
  /\ UNCHANGED <<next, tried, age, failAge>>

(* A JSON-RPC error is the caller's business: no failover, no cooldown. *)
ApplicationError(t) ==
  /\ at[t] = "wait"
  /\ Goto(t, "error")
  /\ UNCHANGED <<next, tried, age, cool, failAge>>

(* Faulty variant: a failure extends a cooldown that is already running.   *)
FailOverExtending(t) ==
  /\ at[t] = "wait"
  /\ Goto(t, "look")
  /\ next' = [next EXCEPT ![t] = @ + 1]
  /\ cool' = [cool EXCEPT ![next[t]] = (IF @ > 0 THEN @ ELSE 0) + Cooldown - age[t]]
  /\ failAge' = [failAge EXCEPT ![next[t]] = 0]
  /\ UNCHANGED <<tried, age>>

(* A transport failure or a rate limit cools the endpoint until cooldown_s *)
(* after the call began, and the call goes on to the next endpoint.        *)
FailOver(t) ==
  /\ at[t] = "wait"
  /\ Goto(t, "look")
  /\ next' = [next EXCEPT ![t] = @ + 1]
  /\ cool' = [cool EXCEPT ![next[t]] = Cooldown - age[t]]
  /\ failAge' = [failAge EXCEPT ![next[t]] = 0]
  /\ UNCHANGED <<tried, age>>

(* The loop is over: "all RPC endpoints failed", or, when nothing was      *)
(* tried, "all RPC endpoints are cooling down".                            *)
GiveUp(t) ==
  /\ at[t] = "look"
  /\ next[t] \notin Endpoint
  /\ Goto(t, IF tried[t] THEN "exhausted" ELSE "refused")
  /\ UNCHANGED <<next, tried, age, cool, failAge>>

Return(t) ==
  /\ at[t] \in Ended
  /\ Goto(t, "idle")
  /\ next' = [next EXCEPT ![t] = 1]
  /\ tried' = [tried EXCEPT ![t] = FALSE]
  /\ age' = [age EXCEPT ![t] = 0]
  /\ UNCHANGED <<cool, failAge>>

AtLeast(low, n) == IF n < low THEN low ELSE n
AtMost(high, n) == IF n > high THEN high ELSE n

(* The clock.  It waits for no call, but no call outlasts MaxAge. *)
Tick ==
  /\ \A t \in Caller : at[t] # "idle" => age[t] < MaxAge
  /\ age' = [t \in Caller |-> IF at[t] = "idle" THEN age[t] ELSE age[t] + 1]
  /\ cool' = [u \in Endpoint |-> AtLeast(LongAgo, cool[u] - 1)]
  /\ failAge' = [u \in Endpoint |-> AtMost(Never, failAge[u] + 1)]
  /\ UNCHANGED <<at, next, tried>>

Step(t) ==
  \/ Skip(t) \/ Request(t)
  \/ Answered(t) \/ ApplicationError(t) \/ FailOver(t)
  \/ GiveUp(t) \/ Return(t)

PoolNext ==
  \/ Tick
  \/ \E t \in Caller : Begin(t) \/ Step(t)

PoolSpec == PoolInit /\ [][PoolNext]_poolVars

(* A thread runs, and a request ends: in an answer, an error or a timeout. *)
FairPoolSpec ==
  PoolSpec /\ WF_poolVars(Tick) /\ \A t \in Caller : WF_poolVars(Step(t))

-----------------------------------------------------------------------------
(* Properties. *)

PoolTypeOK ==
  /\ at \in [Caller -> CallState]
  /\ next \in [Caller -> 1..(NumEndpoints + 1)]
  /\ tried \in [Caller -> BOOLEAN]
  /\ age \in [Caller -> 0..MaxAge]
  /\ cool \in [Endpoint -> LongAgo..Cooldown]
  /\ failAge \in [Endpoint -> 0..Never]

(* A call passes an endpoint over, to fail over to a later one or to give  *)
(* up altogether, only when that endpoint failed somebody's request during *)
(* the call or within cooldown_s before it: an application error, a late   *)
(* success or another endpoint's trouble never takes an endpoint out.      *)
PassedOverOnlyAfterFailure ==
  \A t \in Caller, u \in Endpoint :
    at[t] # "idle" /\ u < next[t] => failAge[u] <= Cooldown + age[t]

(* Every call ends, and comes back with something.                         *)
CallsEnd == \A t \in Caller : at[t] # "idle" ~> at[t] \in Ended

(* An endpoint that cools comes back, although calls that began before it  *)
(* failed are still under way and may cool it again.                       *)
EndpointComesBack == \A u \in Endpoint : cool[u] > 0 ~> cool[u] <= 0

(* "Transport and rate-limit failures cool the failing endpoint": right    *)
(* after such a failure its cooldown lies ahead.                           *)
FailureCools ==
  [][\A t \in Caller : FailOver(t) => cool'[next[t]] > 0]_poolVars
=============================================================================

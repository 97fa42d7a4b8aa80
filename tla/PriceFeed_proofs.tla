-------------------------- MODULE PriceFeed_proofs --------------------------
(***************************************************************************)
(* The round robin over the endpoints and the price fetch, for any number  *)
(* of endpoints, of attempts and of changes of their health.               *)
(***************************************************************************)
EXTENDS PriceFeed, TLAPS

-----------------------------------------------------------------------------
(* Type correctness.                                                       *)

LEMMA WrappedType ==
  ASSUME NEW k \in 0 .. 2 * Urls - 1
  PROVE  Wrapped(k) \in Endpoints
BY RpcAssumption DEF Wrapped, Endpoints

LEMMA IndexType ==
  ASSUME RpcTypeOK, NEW c \in Clients
  PROVE  Index(c) \in Endpoints
<1>1. call[c].start + call[c].i \in 0 .. 2 * Urls - 1
  BY RpcAssumption DEF RpcTypeOK, Endpoints
<1> QED BY <1>1, WrappedType DEF Index

LEMMA StartCallType ==
  ASSUME RpcTypeOK, NEW c \in Clients, StartCall(c), UNCHANGED <<health, turns>>
  PROVE  RpcTypeOK'
<1>1. 0 \in Endpoints /\ Wrapped(roundRobin + 1) \in Endpoints
  BY RpcAssumption DEF RpcTypeOK, Endpoints, Wrapped
<1> QED BY <1>1 DEF RpcTypeOK, StartCall, Idle

LEMMA EndCallType ==
  ASSUME RpcTypeOK, NEW c \in Clients, EndCall(c), UNCHANGED <<health, turns>>
  PROVE  RpcTypeOK'
<1>1. 0 \in Endpoints
  BY RpcAssumption DEF Endpoints
<1> QED BY <1>1 DEF RpcTypeOK, EndCall, Idle

LEMMA NextUrlType ==
  ASSUME RpcTypeOK, NEW c \in Clients, NextUrl(c)
  PROVE  RpcTypeOK'
<1>1. call[c].i + 1 \in Endpoints
  BY RpcAssumption DEF RpcTypeOK, NextUrl, LastUrl, Endpoints
<1> QED BY <1>1, IndexType DEF RpcTypeOK, NextUrl

LEMMA TurnType ==
  ASSUME RpcTypeOK, NEW u \in Endpoints, Turn(u)
  PROVE  RpcTypeOK'
BY RpcAssumption DEF RpcTypeOK, Turn

\* the rest of the type invariant
FeedTypeOK ==
  /\ curve \in Curves
  /\ view \in [Endpoints -> Curves]
  /\ final \in [Endpoints -> Curves]
  /\ monPc \in MonPhases
  /\ attempt \in 1 .. Attempts
  /\ lastErr \in {"plain", "wordy"}
  /\ probe \in Endpoints
  /\ steady \subseteq Endpoints
  /\ cached \in BOOLEAN
  /\ migrated \in BOOLEAN
  /\ pending \in BOOLEAN
  /\ buyPc \in BuyPhases

LEMMA InitType == Init => TypeOK
<1> SUFFICES ASSUME Init PROVE TypeOK
  OBVIOUS
<1>1. 0 \in Endpoints /\ turns = 0 /\ 0 \in 0 .. MaxTurns
  BY RpcAssumption DEF Endpoints, Init, RpcInit
<1>2. RpcTypeOK
  BY <1>1 DEF RpcTypeOK, Init, RpcInit, Idle
<1>3. curve \in Curves /\ view \in [Endpoints -> Curves] /\ final \in [Endpoints -> Curves]
  BY DEF Init, Curves
<1>4. monPc \in MonPhases /\ buyPc \in BuyPhases
  BY DEF Init, MonPhases, BuyPhases
<1>5. attempt \in 1 .. Attempts
  BY PriceFeedAssumption DEF Init, Attempts
<1> QED BY <1>1, <1>2, <1>3, <1>4, <1>5 DEF TypeOK, Init

LEMMA StepType == TypeOK /\ [Next]_vars => TypeOK'
<1> SUFFICES ASSUME TypeOK, [Next]_vars PROVE TypeOK'
  OBVIOUS
<1> USE DEF FeedTypeOK, chainVars, posVars, monVars
<1>0. RpcTypeOK /\ FeedTypeOK /\ 0 \in Endpoints /\ "monitor" \in Clients /\ "buy" \in Clients
  BY RpcAssumption DEF TypeOK, Endpoints, Clients
<1>a. ASSUME UNCHANGED rpcVars PROVE RpcTypeOK'
  BY <1>0, <1>a DEF rpcVars, RpcTypeOK
<1>d. ASSUME Decimals PROVE RpcTypeOK'
  BY <1>0, <1>d DEF Decimals, RpcTypeOK
<1>f. ASSUME FetchOver
      PROVE  /\ attempt' \in 1 .. Attempts /\ lastErr' \in {"plain", "wordy"}
             /\ probe' \in Endpoints /\ steady' \subseteq Endpoints
  BY <1>0, <1>f, PriceFeedAssumption DEF FetchOver, Attempts
<1>1. CASE UNCHANGED vars
  BY <1>0, <1>1, <1>a DEF vars, TypeOK
<1>2. CASE Complete \/ Expire
  BY <1>0, <1>2, <1>a DEF Complete, Expire, TypeOK, Curves
<1>19. CASE FlagTurns
  <2>1. pending' \in BOOLEAN
    BY <1>19, Zenon DEF FlagTurns
  <2> QED BY <1>0, <1>19, <1>a, <2>1 DEF FlagTurns, TypeOK
<1>3. ASSUME NEW u \in Endpoints, Sync(u) \/ Finalize(u) PROVE TypeOK'
  BY <1>0, <1>3, <1>a DEF Sync, Finalize, TypeOK
<1>4. ASSUME NEW u \in Endpoints, TurnEndpoint(u) PROVE TypeOK'
  BY <1>0, <1>4, TurnType DEF TurnEndpoint, TypeOK
<1>5. ASSUME NEW c \in Clients, AskNext(c) PROVE TypeOK'
  BY <1>0, <1>5, NextUrlType DEF AskNext, monVars, TypeOK
<1>6. CASE MonFetch
  BY <1>0, <1>6, StartCallType, PriceFeedAssumption
  DEF MonFetch, TypeOK, MonPhases, FetchPhases, CallPhases, Attempts
<1>7. CASE DirectData
  <2>1. FetchOver /\ monPc' \in MonPhases
    BY <1>7 DEF DirectData, Decode, MonPhases, FetchPhases
  <2> QED BY <1>0, <1>7, <1>f, <2>1, EndCallType DEF DirectData, TypeOK
<1>8. CASE DirectFails
  <2>1. RpcTypeOK'
    BY <1>0, <1>8, StartCallType DEF DirectFails
  <2>2. attempt' \in 1 .. Attempts
    BY <1>0, <1>8, PriceFeedAssumption DEF DirectFails, Attempts
  <2> QED
    BY <1>0, <1>8, <2>1, <2>2 DEF DirectFails, TypeOK, MonPhases, FetchPhases, CallPhases
<1>9. CASE Search
  BY <1>0, <1>9, StartCallType, EndCallType
  DEF Search, TypeOK, MonPhases, FetchPhases, CallPhases
<1>10. CASE Found
  <2>1. /\ FetchOver \/ UNCHANGED <<attempt, lastErr, probe, steady>>
        /\ monPc' \in MonPhases
    BY <1>10 DEF Found, Decode, MonPhases, FetchPhases
  <2> QED BY <1>0, <1>10, <1>f, <2>1, EndCallType DEF Found, TypeOK
<1>11. CASE Probe
  <2>1. CASE Serves(probe)
    <3>1. FetchOver /\ monPc' \in MonPhases
      BY <1>11, <2>1 DEF Probe, Decode, MonPhases, FetchPhases
    <3> QED BY <1>0, <1>11, <1>a, <1>f, <3>1 DEF Probe, TypeOK
  <2>2. CASE ~Serves(probe)
    <3>1. probe' \in Endpoints
      BY <1>0, <1>11, <2>2, RpcAssumption DEF Probe, Endpoints
    <3> QED BY <1>0, <1>11, <1>a, <2>2, <3>1 DEF Probe, TypeOK, MonPhases, FetchPhases
  <2> QED BY <2>1, <2>2
<1>12. CASE MonPriced
  BY <1>0, <1>12, <1>d DEF MonPriced, TypeOK, MonPhases
<1>13. CASE MonMissing \/ MonMark
  BY <1>0, <1>13, <1>a, <1>f DEF MonMissing, MonMark, TypeOK, MonPhases
<1>14. CASE BuyBegins
  BY <1>0, <1>14, StartCallType
  DEF BuyBegins, monVars, TypeOK, BuyPhases, BuyCallPhases
<1>15. CASE BuyMint \/ BuyMetadata \/ BuyLiquidity
  BY <1>0, <1>15, StartCallType, EndCallType
  DEF BuyMint, BuyMetadata, BuyLiquidity, BuyRejected, Order, monVars, TypeOK, BuyPhases,
      BuyCallPhases
<1>16. CASE BuyCurve
  BY <1>0, <1>16, EndCallType DEF BuyCurve, monVars, TypeOK, BuyPhases
<1>17. CASE BuyDecimals
  BY <1>0, <1>17, <1>d DEF BuyDecimals, monVars, TypeOK, BuyPhases
<1>18. CASE BuyPut
  BY <1>0, <1>18, <1>a DEF BuyPut, monVars, TypeOK, BuyPhases
<1> QED
  BY <1>1, <1>2, <1>3, <1>4, <1>5, <1>6, <1>7, <1>8, <1>9, <1>10, <1>11, <1>12,
     <1>13, <1>14, <1>15, <1>16, <1>17, <1>18, <1>19
  DEF Next, CatchUp, MonStep, BuyStep

(***************************************************************************)
(* The type invariant.                                                     *)
(***************************************************************************)
THEOREM TypeCorrect == Spec => []TypeOK
BY InitType, StepType, PTL DEF Spec

-----------------------------------------------------------------------------
(***************************************************************************)
(* The round robin.  A call remembers its start, so the endpoints it has   *)
(* asked are those from the start on, whatever became of the counter.      *)
(***************************************************************************)
AskedFromStart(c) ==
  call[c].asked = {Wrapped(call[c].start + k) : k \in 0 .. call[c].i - 1}

CallsInv == TypeOK /\ \A c \in Clients : AskedFromStart(c)

LEMMA StartCallAsked ==
  ASSUME CallsInv, NEW c \in Clients, StartCall(c) \/ EndCall(c)
  PROVE  \A d \in Clients : AskedFromStart(d)'
<1> SUFFICES ASSUME NEW d \in Clients PROVE AskedFromStart(d)'
  OBVIOUS
<1>1. CASE d # c
  BY <1>1 DEF CallsInv, TypeOK, RpcTypeOK, StartCall, EndCall, AskedFromStart
<1>2. CASE d = c
  <2>1. call'[d].asked = {} /\ call'[d].i = 0
    BY <1>2 DEF CallsInv, TypeOK, RpcTypeOK, StartCall, EndCall, Idle
  <2> QED BY <2>1 DEF AskedFromStart
<1> QED BY <1>1, <1>2

LEMMA NextUrlAsked ==
  ASSUME CallsInv, NEW c \in Clients, NextUrl(c)
  PROVE  \A d \in Clients : AskedFromStart(d)'
<1> SUFFICES ASSUME NEW d \in Clients PROVE AskedFromStart(d)'
  OBVIOUS
<1>1. CASE d # c
  BY <1>1 DEF CallsInv, TypeOK, RpcTypeOK, NextUrl, AskedFromStart
<1>2. CASE d = c
  <2>1. /\ call'[d].start = call[d].start
        /\ call'[d].i = call[d].i + 1
        /\ call'[d].asked = call[d].asked \cup {Index(d)}
    BY <1>2 DEF CallsInv, TypeOK, RpcTypeOK, NextUrl
  <2>2. call[d].i \in Nat
    BY DEF CallsInv, TypeOK, RpcTypeOK, Endpoints
  <2>3. 0 .. call[d].i = (0 .. call[d].i - 1) \cup {call[d].i}
    BY <2>2
  <2>4. call[d].asked = {Wrapped(call[d].start + k) : k \in 0 .. call[d].i - 1}
    BY DEF CallsInv, AskedFromStart
  <2>5. call'[d].asked = {Wrapped(call[d].start + k) : k \in 0 .. call[d].i}
    BY <2>1, <2>3, <2>4 DEF Index
  <2>6. call'[d].i - 1 = call[d].i
    BY <2>1, <2>2
  <2> QED BY <2>1, <2>5, <2>6 DEF AskedFromStart
<1> QED BY <1>1, <1>2

\* every step leaves the calls alone, or starts, ends or continues one
LEMMA CallSteps ==
  ASSUME [Next]_vars
  PROVE  \/ UNCHANGED call
         \/ \E c \in Clients : StartCall(c) \/ EndCall(c) \/ NextUrl(c)
<1>0. "monitor" \in Clients /\ "buy" \in Clients
  BY DEF Clients
<1>1. CASE \/ UNCHANGED vars \/ Complete \/ Expire \/ FlagTurns \/ CatchUp
           \/ \E u \in Endpoints : TurnEndpoint(u)
  BY <1>1
  DEF vars, rpcVars, Complete, Expire, FlagTurns, CatchUp, Sync, Finalize, TurnEndpoint, Turn
<1>2. CASE \E c \in Clients : AskNext(c)
  BY <1>2 DEF AskNext
<1>3. CASE MonStep
  BY <1>0, <1>3
  DEF MonStep, MonFetch, DirectData, DirectFails, Search, Found, Probe, MonPriced,
      MonMissing, MonMark, Decimals, rpcVars
<1>4. CASE BuyBegins \/ BuyStep
  BY <1>0, <1>4
  DEF BuyBegins, BuyStep, BuyMint, BuyMetadata, BuyLiquidity, BuyCurve, BuyDecimals,
      BuyPut, BuyRejected, Order, Decimals, rpcVars
<1> QED BY <1>1, <1>2, <1>3, <1>4 DEF Next

LEMMA CallsKept == CallsInv /\ [Next]_vars => CallsInv'
<1> SUFFICES ASSUME CallsInv, [Next]_vars PROVE CallsInv'
  OBVIOUS
<1>1. TypeOK'
  BY StepType DEF CallsInv
<1>2. CASE UNCHANGED call
  BY <1>1, <1>2 DEF CallsInv, AskedFromStart
<1>3. ASSUME NEW c \in Clients, StartCall(c) \/ EndCall(c) \/ NextUrl(c) PROVE CallsInv'
  BY <1>1, <1>3, StartCallAsked, NextUrlAsked DEF CallsInv
<1> QED BY <1>2, <1>3, CallSteps

LEMMA InitCalls == Init => CallsInv
<1> SUFFICES ASSUME Init, NEW c \in Clients PROVE AskedFromStart(c)
  BY InitType DEF CallsInv
<1>1. call[c].asked = {} /\ call[c].i = 0
  BY DEF Init, RpcInit, Idle
<1> QED BY <1>1 DEF AskedFromStart

(***************************************************************************)
(* As many places as there are endpoints, counted from any of them, are    *)
(* all of them.                                                            *)
(***************************************************************************)
LEMMA AllFromStart ==
  ASSUME NEW start \in Endpoints, NEW u \in Endpoints
  PROVE  \E k \in 0 .. Urls - 1 : u = Wrapped(start + k)
<1>1. CASE u >= start
  <2>1. u - start \in 0 .. Urls - 1 /\ Wrapped(start + (u - start)) = u
    BY <1>1, RpcAssumption DEF Endpoints, Wrapped
  <2> QED BY <2>1
<1>2. CASE u < start
  <2>1. u + Urls - start \in 0 .. Urls - 1 /\ Wrapped(start + (u + Urls - start)) = u
    BY <1>2, RpcAssumption DEF Endpoints, Wrapped
  <2> QED BY <2>1
<1> QED BY <1>1, <1>2 DEF Endpoints

(***************************************************************************)
(* No call skips an endpoint, whatever the other tasks do to the counter   *)
(* they share with it.                                                     *)
(***************************************************************************)
THEOREM NoEndpointSkipped == Spec => []NoneSkipped
<1>1. ASSUME CallsInv PROVE NoneSkipped
  <2> SUFFICES ASSUME NEW c \in Clients, LastUrl(c)
               PROVE  call[c].asked \cup {Index(c)} = Endpoints
    BY DEF NoneSkipped
  <2>1. /\ call[c].start \in Endpoints
        /\ call[c].i \in Endpoints
    BY <1>1 DEF CallsInv, TypeOK, RpcTypeOK
  <2>2. call[c].asked = {Wrapped(call[c].start + k) : k \in 0 .. call[c].i - 1}
    BY <1>1 DEF CallsInv, AskedFromStart
  <2>3. call[c].i = Urls - 1
    BY <2>1, RpcAssumption DEF LastUrl, Endpoints
  <2>4. call[c].asked \cup {Index(c)} = {Wrapped(call[c].start + k) : k \in 0 .. Urls - 1}
    <3>1. 0 .. Urls - 1 = (0 .. Urls - 1 - 1) \cup {Urls - 1}
      BY RpcAssumption
    <3> QED BY <2>2, <2>3, <3>1 DEF Index
  <2>5. {Wrapped(call[c].start + k) : k \in 0 .. Urls - 1} \subseteq Endpoints
    BY <2>1, WrappedType, RpcAssumption DEF Endpoints
  <2>6. Endpoints \subseteq {Wrapped(call[c].start + k) : k \in 0 .. Urls - 1}
    BY <2>1, AllFromStart
  <2> QED BY <2>4, <2>5, <2>6
<1> QED BY <1>1, InitCalls, CallsKept, PTL DEF Spec

-----------------------------------------------------------------------------
(***************************************************************************)
(* The fetch.  Once the curve is on the chain no endpoint loses it again,  *)
(* so one that serves it keeps serving it until its health changes.        *)
(***************************************************************************)
AbsentEverywhere ==
  \A u \in Endpoints : /\ curve = "none" => view[u] = "none"
                       /\ view[u] = "none" => final[u] = "none"

SteadyServes == \A u \in steady : Serves(u)

ProbeBehindSteady ==
  /\ monPc \in CallPhases => probe = 0
  /\ monPc = "probe" => \A u \in steady : u >= probe
  /\ monPc = "missing" => steady = {}

FetchInv == TypeOK /\ AbsentEverywhere /\ SteadyServes /\ ProbeBehindSteady

\* what a step may do to the fetch
LEMMA FetchKept == FetchInv /\ [Next]_vars => FetchInv'
<1> SUFFICES ASSUME FetchInv, [Next]_vars PROVE FetchInv'
  OBVIOUS
<1>0. TypeOK /\ TypeOK' /\ AbsentEverywhere /\ SteadyServes /\ ProbeBehindSteady
  BY StepType DEF FetchInv
<1> DEFINE Others == AbsentEverywhere' /\ SteadyServes' /\ ProbeBehindSteady'
<1> SUFFICES Others
  BY <1>0 DEF FetchInv
<1> USE DEF chainVars, monVars
<1>1. CASE UNCHANGED <<health, chainVars, monVars>>
  BY <1>0, <1>1 DEF AbsentEverywhere, SteadyServes, Serves, ProbeBehindSteady
<1>2. CASE Complete
  BY <1>0, <1>2
  DEF Complete, rpcVars, AbsentEverywhere, SteadyServes, Serves, ProbeBehindSteady
<1>3. ASSUME NEW u \in Endpoints, Sync(u) \/ Finalize(u) PROVE Others
  BY <1>0, <1>3
  DEF Sync, Finalize, rpcVars, AbsentEverywhere, SteadyServes, Serves, ProbeBehindSteady, TypeOK
<1>4. ASSUME NEW u \in Endpoints, TurnEndpoint(u) PROVE Others
  <2>1. AbsentEverywhere' /\ ProbeBehindSteady'
    BY <1>0, <1>4 DEF TurnEndpoint, AbsentEverywhere, ProbeBehindSteady
  <2>2. ASSUME NEW v \in steady' PROVE Serves(v)'
    <3>1. v \in steady /\ v # u /\ v \in Endpoints /\ Serves(v)
      BY <1>0, <1>4, <2>2 DEF TurnEndpoint, SteadyServes, TypeOK
    <3>2. health'[v] = health[v] /\ final' = final
      BY <1>0, <1>4, <3>1 DEF TurnEndpoint, Turn, TypeOK, RpcTypeOK
    <3> QED BY <3>1, <3>2 DEF Serves
  <2> QED BY <2>1, <2>2 DEF SteadyServes
<1>5. CASE MonFetch
  BY <1>0, <1>5
  DEF MonFetch, AbsentEverywhere, SteadyServes, Serves, ProbeBehindSteady
<1>6. CASE DirectData \/ DirectFails \/ Search \/ Found
  <2>1. UNCHANGED <<health, chainVars>> /\ monPc \in CallPhases
    BY <1>6 DEF DirectData, DirectFails, Search, Found, CallPhases
  <2>2. \/ monPc' \in CallPhases \cup {"probe"} /\ UNCHANGED <<probe, steady>>
        \/ monPc' \in {"decimals", "mark"} /\ steady' = {}
    BY <1>6 DEF DirectData, DirectFails, Search, Found, Decode, FetchOver, CallPhases
  <2>3. \A u \in steady : u >= 0
    BY <1>0, RpcAssumption DEF TypeOK, Endpoints
  <2>4. ProbeBehindSteady'
    BY <1>0, <2>1, <2>2, <2>3 DEF ProbeBehindSteady, CallPhases
  <2> QED BY <1>0, <2>1, <2>2, <2>4 DEF AbsentEverywhere, SteadyServes, Serves
<1>7. CASE Probe
  <2>1. UNCHANGED <<health, chainVars>> /\ monPc = "probe"
    BY <1>7 DEF Probe, rpcVars
  <2>2. CASE Serves(probe)
    <3>1. monPc' \in {"decimals", "mark"} /\ steady' = {}
      BY <1>7, <2>2 DEF Probe, Decode, FetchOver
    <3> QED BY <1>0, <2>1, <3>1
            DEF AbsentEverywhere, SteadyServes, Serves, ProbeBehindSteady, CallPhases
  <2>3. CASE ~Serves(probe)
    <3>6. UNCHANGED steady
      BY <1>7, <2>3 DEF Probe
    <3>1. \A u \in steady : u \in Endpoints /\ u >= probe /\ u # probe
      BY <1>0, <2>1, <2>3 DEF SteadyServes, ProbeBehindSteady, TypeOK
    <3>2. probe \in Endpoints
      BY <1>0 DEF TypeOK
    <3>3. \A u \in steady : u >= probe + 1 /\ u < Urls
      BY <3>1, <3>2, RpcAssumption DEF Endpoints
    <3>4. CASE probe + 1 < Urls
      <4>1. monPc' = "probe" /\ probe' = probe + 1
        BY <1>7, <2>1, <2>3, <3>4 DEF Probe
      <4> QED BY <1>0, <2>1, <3>3, <3>6, <4>1
              DEF AbsentEverywhere, SteadyServes, Serves, ProbeBehindSteady, CallPhases
    <3>5. CASE ~(probe + 1 < Urls)
      <4>1. monPc' = "missing"
        BY <1>7, <2>3, <3>5 DEF Probe
      <4>2. steady = {}
        BY <3>1, <3>2, <3>3, <3>5, RpcAssumption DEF Endpoints
      <4> QED BY <1>0, <2>1, <3>6, <4>1, <4>2
              DEF AbsentEverywhere, SteadyServes, Serves, ProbeBehindSteady, CallPhases
    <3> QED BY <3>4, <3>5
  <2> QED BY <2>2, <2>3
<1>8. CASE MonPriced \/ MonMissing \/ MonMark
  <2>1. /\ UNCHANGED <<health, chainVars>> /\ monPc' \in {"idle", "mark"}
        /\ UNCHANGED steady \/ steady' = {}
    BY <1>8 DEF MonPriced, MonMissing, MonMark, FetchOver, Decimals, rpcVars
  <2> QED BY <1>0, <2>1
          DEF AbsentEverywhere, SteadyServes, Serves, ProbeBehindSteady, CallPhases
<1>9. CASE BuyBegins \/ BuyStep
  BY <1>1, <1>9
  DEF BuyBegins, BuyStep, BuyMint, BuyMetadata, BuyLiquidity, BuyCurve, BuyDecimals, BuyPut,
      Decimals, rpcVars
<1>10. CASE UNCHANGED vars \/ Expire \/ FlagTurns \/ \E c \in Clients : AskNext(c)
  BY <1>1, <1>10 DEF vars, Expire, FlagTurns, AskNext, NextUrl, rpcVars
<1> QED
  BY <1>2, <1>3, <1>4, <1>5, <1>6, <1>7, <1>8, <1>9, <1>10 DEF Next, CatchUp, MonStep

LEMMA InitFetch == Init => FetchInv
<1> SUFFICES ASSUME Init PROVE FetchInv
  OBVIOUS
<1>1. /\ view \in [Endpoints -> {"none", curve}]
      /\ \A u \in Endpoints : final[u] \in {"none", view[u]}
      /\ steady = {} /\ monPc = "idle"
  BY DEF Init
<1> QED BY <1>1, InitType
        DEF FetchInv, AbsentEverywhere, SteadyServes, ProbeBehindSteady, CallPhases

(***************************************************************************)
(* A fetch gives up only when every endpoint was down, or had not got the  *)
(* curve finalized, at some time since it began.                           *)
(***************************************************************************)
THEOREM ReachableIsPriced == Spec => []PricedWhenReachable
<1>1. FetchInv => PricedWhenReachable
  BY DEF FetchInv, ProbeBehindSteady, PricedWhenReachable
<1> QED BY <1>1, InitFetch, FetchKept, PTL DEF Spec

-----------------------------------------------------------------------------
(***************************************************************************)
(* The mark.  An endpoint may lag, so a curve it reports as gone is gone.  *)
(***************************************************************************)
GoneInv ==
  /\ TypeOK
  /\ \A u \in Endpoints : view[u] = "gone" \/ final[u] = "gone" => curve = "gone"
  /\ monPc = "mark" => curve = "gone"
  /\ MarkedMeansGone

\* what is decoded comes from an endpoint
LEMMA DecodeGone ==
  ASSUME GoneInv, NEW u \in Endpoints, NEW commitment, NEW state \in Answers(u, commitment),
         state # "none", Decode(state), UNCHANGED curve
  PROVE  (monPc = "mark" => curve = "gone")'
<1>1. view[u] \in Curves /\ final[u] \in Curves
  BY DEF GoneInv, TypeOK
<1>2. state \in Curves /\ (state = "gone" => curve = "gone")
  BY <1>1 DEF GoneInv, Answers
<1> QED BY <1>2 DEF Decode, Curves

\* no error quotes a word that marks the position
Plain == lastErr = "plain"

LEMMA PlainKept == ~Wordy /\ Plain /\ [Next]_vars => Plain'
BY DEF Plain, Next, vars, monVars, Complete, Expire, FlagTurns, CatchUp, Sync, Finalize,
       TurnEndpoint, AskNext, MonStep, MonFetch, DirectData, DirectFails, Search, Found, Probe,
       MonPriced, MonMissing, MonMark, Decode, FetchOver, BuyBegins, BuyStep, BuyMint,
       BuyMetadata, BuyLiquidity, BuyCurve, BuyDecimals, BuyPut

LEMMA GoneKept == Plain /\ GoneInv /\ [Next]_vars => GoneInv'
<1> SUFFICES ASSUME Plain, GoneInv, [Next]_vars PROVE GoneInv'
  OBVIOUS
<1> USE DEF chainVars, monVars, posVars
<1>0. TypeOK /\ TypeOK'
  BY StepType DEF GoneInv
<1>a. ASSUME UNCHANGED <<chainVars, migrated>>, (monPc = "mark" => curve = "gone")'
      PROVE  GoneInv'
  BY <1>0, <1>a DEF GoneInv, MarkedMeansGone
<1>1. CASE UNCHANGED <<chainVars, monPc, migrated>>
  BY <1>0, <1>1 DEF GoneInv, MarkedMeansGone
<1>2. CASE Complete
  BY <1>0, <1>2 DEF Complete, GoneInv, MarkedMeansGone
<1>3. ASSUME NEW u \in Endpoints, Sync(u) \/ Finalize(u) PROVE GoneInv'
  BY <1>0, <1>3 DEF Sync, Finalize, GoneInv, MarkedMeansGone, TypeOK
<1>4. CASE DirectData \/ Found
  <2>1. Index("monitor") \in Endpoints
    BY <1>0, IndexType DEF TypeOK, Clients
  <2>2. UNCHANGED <<chainVars, migrated>>
    BY <1>4 DEF DirectData, Found
  <2>3. CASE monPc' = "probe"
    BY <1>a, <2>2, <2>3
  <2>4. CASE monPc' # "probe"
    <3>1. \E level \in {Commitment(attempt), "confirmed"} :
            \E state \in Got("monitor", level) : state # "none" /\ Decode(state)
      BY <1>4, <2>4 DEF DirectData, Found
    <3>2. PICK level \in {Commitment(attempt), "confirmed"} :
            \E state \in Got("monitor", level) : state # "none" /\ Decode(state)
      BY <3>1
    <3>3. PICK state \in Answers(Index("monitor"), level) : state # "none" /\ Decode(state)
      BY <3>2 DEF Got
    <3> QED BY <1>a, <2>1, <2>2, <3>3, DecodeGone
  <2> QED BY <2>3, <2>4
<1>5. CASE Probe
  <2>1. UNCHANGED <<chainVars, migrated>> /\ probe \in Endpoints
    BY <1>0, <1>5 DEF Probe, TypeOK
  <2>2. CASE Serves(probe)
    <3>1. /\ final[probe] \in Answers(probe, "finalized") /\ final[probe] # "none"
          /\ Decode(final[probe])
      BY <1>5, <2>2 DEF Probe, Serves, Answers
    <3> QED BY <1>a, <2>1, <3>1, DecodeGone
  <2>3. CASE ~Serves(probe)
    BY <1>a, <1>5, <2>1, <2>3 DEF Probe
  <2> QED BY <2>2, <2>3
<1>6. CASE MonFetch \/ DirectFails \/ Search \/ MonPriced \/ MonMissing
  <2>1. UNCHANGED <<chainVars, migrated>> /\ monPc' # "mark"
    BY <1>6 DEF MonFetch, DirectFails, Search, MonPriced, MonMissing, Plain
  <2> QED BY <1>a, <2>1
<1>7. CASE MonMark
  BY <1>0, <1>7 DEF MonMark, GoneInv, MarkedMeansGone
<1>8. CASE BuyBegins \/ BuyStep
  BY <1>1, <1>8
  DEF BuyBegins, BuyStep, BuyMint, BuyMetadata, BuyLiquidity, BuyCurve, BuyDecimals, BuyPut,
      monVars
<1>9. CASE \/ UNCHANGED vars \/ Expire
           \/ FlagTurns
           \/ \E u \in Endpoints : TurnEndpoint(u)
           \/ \E c \in Clients : AskNext(c)
  BY <1>1, <1>9 DEF vars, Expire, FlagTurns, AskNext, TurnEndpoint
<1> QED
  BY <1>2, <1>3, <1>4, <1>5, <1>6, <1>7, <1>8, <1>9 DEF Next, CatchUp, MonStep

LEMMA InitGone == Init => GoneInv
<1> SUFFICES ASSUME Init PROVE GoneInv
  OBVIOUS
<1>1. /\ curve \in {"none", "open"}
      /\ view \in [Endpoints -> {"none", curve}] /\ final \in [Endpoints -> {"none", curve}]
      /\ monPc = "idle" /\ migrated = FALSE
  BY DEF Init
<1> QED BY <1>1, InitType DEF GoneInv, MarkedMeansGone

(***************************************************************************)
(* As long as no endpoint words its refusals the way the code words a      *)
(* migration, only a curve that is gone gets its position marked.          *)
(***************************************************************************)
THEOREM MarkedOnlyGone ==
  ASSUME ~Wordy
  PROVE  Spec => []MarkedMeansGone
<1>1. GoneInv => MarkedMeansGone
  BY DEF GoneInv
<1>2. Init => Plain
  BY DEF Init, Plain
<1>3. Plain /\ [Next]_vars => Plain'
  BY PlainKept
<1> QED BY <1>1, <1>2, <1>3, InitGone, GoneKept, PTL DEF Spec
=============================================================================

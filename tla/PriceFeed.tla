----------------------------- MODULE PriceFeed -----------------------------
(***************************************************************************)
(* Where prices come from: the monitor loop asks for the price of a held   *)
(* mint (fetch_current_price) with the lock on the price cache in hand,    *)
(* while a buy task of the same mint goes through its safety screen and,   *)
(* without data of the target, fetches the price itself and stores it.     *)
(*                                                                         *)
(* The endpoints see the bonding curve with a delay of their own, and      *)
(* longer still before it is finalized there.  A curve is gone when it is  *)
(* complete or drained, and stays so.                                      *)
(***************************************************************************)
EXTENDS Rpc

CONSTANTS
  HasCurve,   \* the mint has a bonding curve (one bought on Raydium has none)
  Retries,    \* direct attempts of one fetch for each commitment (three)
  Wordy       \* refusals may contain a word that mark_migrated is keyed on

ASSUME PriceFeedAssumption ==
  HasCurve \in BOOLEAN /\ Retries \in Nat \ {0} /\ Wordy \in BOOLEAN

VARIABLES
  curve,      \* the curve on the chain
  view,       \* the curve as each endpoint has it, processed
  final,      \* and finalized
  monPc,      \* the monitor loop's place
  attempt,    \* its direct attempt
  lastErr,    \* whether the latest error quotes such a word
  probe,      \* the endpoint it probes
  steady,     \* endpoints that had the curve finalized and were up ever since it began
  cached,     \* the cache has a price younger than its time to live
  migrated,   \* the position is marked as migrated
  pending,    \* a sell of it is taken to be in flight
  buyPc       \* the buy task's place

monVars == <<monPc, attempt, lastErr, probe, steady>>

chainVars == <<curve, view, final>>

posVars == <<cached, migrated, pending>>

vars == <<rpcVars, chainVars, monVars, posVars, buyPc>>

Curves == {"none", "open", "gone"}

Attempts == 3 * Retries

(***************************************************************************)
(* The commitment of a direct attempt: "processed" first, for the fastest  *)
(* visibility of newly created tokens, then the stronger ones.             *)
(***************************************************************************)
Commitment(n) == <<"processed", "confirmed", "finalized">>[1 + (n - 1) \div Retries]

CallPhases == {"direct", "search", "found"}

FetchPhases == CallPhases \cup {"probe", "decimals"}

MonPhases == FetchPhases \cup {"idle", "missing", "mark"}

BuyCallPhases == {"mint", "metadata", "liquidity", "curve"}

BuyPhases == BuyCallPhases \cup {"out", "decimals", "put"}

Init ==
  /\ RpcInit
  /\ curve = IF HasCurve THEN "open" ELSE "none"
  /\ view \in [Endpoints -> {"none", curve}]
  /\ final \in [Endpoints -> {"none", curve}]
  /\ \A u \in Endpoints : final[u] \in {"none", view[u]}
  /\ monPc = "idle"
  /\ attempt = 1
  /\ lastErr = "plain"
  /\ probe = 0
  /\ steady = {}
  /\ cached = FALSE
  /\ migrated = FALSE
  /\ pending = FALSE
  /\ buyPc = "out"

TypeOK ==
  /\ RpcTypeOK
  /\ curve \in Curves
  /\ view \in [Endpoints -> Curves]
  /\ final \in [Endpoints -> Curves]
  /\ monPc \in MonPhases
  /\ attempt \in 1 .. Attempts
  /\ lastErr \in {"plain", "wordy"}
  /\ probe \in Endpoints
  /\ steady \subseteq Endpoints
  /\ cached \in BOOLEAN
  /\ migrated \in BOOLEAN
  /\ pending \in BOOLEAN
  /\ buyPc \in BuyPhases

(***************************************************************************)
(* What endpoint u may answer: what is confirmed lies between what is      *)
(* finalized and what is processed.                                        *)
(***************************************************************************)
Answers(u, commitment) ==
  IF commitment = "processed" THEN {view[u]}
  ELSE IF commitment = "finalized" THEN {final[u]}
  ELSE IF view[u] = "gone" /\ final[u] = "none" THEN Curves
  ELSE {view[u], final[u]}

\* to the per-endpoint probe, which asks for what is finalized
Serves(u) == health[u] = "up" /\ final[u] # "none"

(***************************************************************************)
(* The account that a call of c may have brought, if any.                  *)
(***************************************************************************)
Got(c, commitment) ==
  IF health[Index(c)] = "up" THEN Answers(Index(c), commitment) ELSE {"none"}

-----------------------------------------------------------------------------
(* The chain and the endpoints.                                            *)

Complete ==
  /\ curve = "open"
  /\ curve' = "gone"
  /\ UNCHANGED <<rpcVars, view, final, monVars, posVars, buyPc>>

Sync(u) ==
  /\ view[u] # curve
  /\ view' = [view EXCEPT ![u] = curve]
  /\ UNCHANGED <<rpcVars, curve, final, monVars, posVars, buyPc>>

Finalize(u) ==
  /\ final[u] # view[u]
  /\ final' = [final EXCEPT ![u] = view[u]]
  /\ UNCHANGED <<rpcVars, curve, view, monVars, posVars, buyPc>>

CatchUp == \E u \in Endpoints : Sync(u) \/ Finalize(u)

(***************************************************************************)
(* The flag of the position, which the monitor sets itself when it has     *)
(* queued a sell order, so never during a fetch, and the sell executor     *)
(* clears; it may stay.                                                    *)
(***************************************************************************)
FlagTurns ==
  /\ monPc = "idle"
  /\ pending' = ~pending
  /\ UNCHANGED <<rpcVars, chainVars, monVars, cached, migrated, buyPc>>

TurnEndpoint(u) ==
  /\ Turn(u)
  /\ steady' = steady \ {u}
  /\ UNCHANGED <<chainVars, monPc, attempt, lastErr, probe, posVars, buyPc>>

(***************************************************************************)
(* The entry becomes too old, or the least recently used one.              *)
(***************************************************************************)
Expire ==
  /\ cached
  /\ cached' = FALSE
  /\ UNCHANGED <<rpcVars, chainVars, monVars, migrated, pending, buyPc>>

AskNext(c) ==
  /\ IF c = "monitor" THEN monPc \in CallPhases ELSE buyPc \in BuyCallPhases
  /\ NextUrl(c)
  /\ UNCHANGED <<chainVars, monVars, posVars, buyPc>>

-----------------------------------------------------------------------------
(* The monitor loop.  From MonFetch until the fetch ends it has the cache. *)

Locked == monPc \in FetchPhases

(***************************************************************************)
(* A tick finds the position unmarked, no sell in flight and no fresh      *)
(* price.  The mutex is fair: a buy task that waits for it comes first.    *)
(***************************************************************************)
MonFetch ==
  /\ monPc = "idle"
  /\ ~migrated
  /\ ~pending
  /\ ~cached
  /\ buyPc # "put"
  /\ StartCall("monitor")
  /\ monPc' = "direct"
  /\ attempt' = 1
  /\ lastErr' = "plain"
  /\ probe' = 0
  /\ steady' = {u \in Endpoints : Serves(u)}
  /\ UNCHANGED <<health, turns, chainVars, posVars, buyPc>>

\* the locals of the fetch are no longer needed
FetchOver ==
  /\ attempt' = 1
  /\ lastErr' = "plain"
  /\ probe' = 0
  /\ steady' = {}

(***************************************************************************)
(* What is done with the account: an open curve has a price, once the      *)
(* decimals of the mint are known.  Of a curve that is gone the caller     *)
(* learns by the words of the error.                                       *)
(***************************************************************************)
Decode(state) ==
  /\ monPc' = IF state = "open" THEN "decimals" ELSE "mark"
  /\ FetchOver

DirectData ==
  /\ monPc = "direct"
  /\ Returns("monitor")
  /\ \E state \in Got("monitor", Commitment(attempt)) \ {"none"} : Decode(state)
  /\ EndCall("monitor")
  /\ UNCHANGED <<health, turns, chainVars, posVars, buyPc>>

DirectFails ==
  /\ monPc = "direct"
  /\ Returns("monitor")
  /\ "none" \in Got("monitor", Commitment(attempt))
  /\ lastErr' \in {"plain"} \cup (IF Wordy /\ Refused("monitor") THEN {"wordy"} ELSE {})
  /\ IF attempt < Attempts
     THEN attempt' = attempt + 1 /\ UNCHANGED monPc
     ELSE monPc' = "search" /\ UNCHANGED attempt
  /\ StartCall("monitor")
  /\ UNCHANGED <<health, turns, chainVars, probe, steady, posVars, buyPc>>

(***************************************************************************)
(* find_curve_account_by_mint: not every endpoint knows the method, and    *)
(* its errors count as nothing found.                                      *)
(***************************************************************************)
Search ==
  /\ monPc = "search"
  /\ Returns("monitor")
  /\ \/ /\ Got("monitor", "confirmed") # {"none"}
        /\ monPc' = "found"
        /\ StartCall("monitor")
     \/ /\ monPc' = "probe"
        /\ EndCall("monitor")
  /\ UNCHANGED <<health, turns, chainVars, attempt, lastErr, probe, steady, posVars, buyPc>>

Found ==
  /\ monPc = "found"
  /\ Returns("monitor")
  /\ \E state \in Got("monitor", "confirmed") :
       IF state # "none" THEN Decode(state)
       ELSE monPc' = "probe" /\ UNCHANGED <<attempt, lastErr, probe, steady>>
  /\ EndCall("monitor")
  /\ UNCHANGED <<health, turns, chainVars, posVars, buyPc>>

ProbeFirstAnswer ==           \* mutant: an answer without data ends the probing
  /\ monPc = "probe"
  /\ IF Serves(probe) THEN Decode(final[probe])
     ELSE /\ IF health[probe] # "up" /\ probe + 1 < Urls
             THEN probe' = probe + 1 /\ UNCHANGED monPc
             ELSE monPc' = "missing" /\ UNCHANGED probe
          /\ UNCHANGED <<attempt, lastErr, steady>>
  /\ UNCHANGED <<rpcVars, chainVars, posVars, buyPc>>

(***************************************************************************)
(* Every endpoint is asked by itself, until one has the account finalized. *)
(***************************************************************************)
Probe ==
  /\ monPc = "probe"
  /\ IF Serves(probe) THEN Decode(final[probe])
     ELSE /\ IF probe + 1 < Urls
             THEN probe' = probe + 1 /\ UNCHANGED monPc
             ELSE monPc' = "missing" /\ UNCHANGED probe
          /\ UNCHANGED <<attempt, lastErr, steady>>
  /\ UNCHANGED <<rpcVars, chainVars, posVars, buyPc>>

(***************************************************************************)
(* fetch_mint_decimals makes up to a dozen calls and ends with the mint's  *)
(* decimals or the default; either way there is a price.  Its calls move   *)
(* the shared counter.                                                     *)
(***************************************************************************)
Decimals ==
  /\ roundRobin' \in Endpoints
  /\ UNCHANGED <<health, turns, call>>

MonPriced ==
  /\ monPc = "decimals"
  /\ Decimals
  /\ cached' = TRUE
  /\ monPc' = "idle"
  /\ UNCHANGED <<chainVars, attempt, lastErr, probe, steady, migrated, pending, buyPc>>

MonMissingMarks ==            \* mutant: a missing account counts as migration
  /\ monPc = "missing"
  /\ monPc' = "mark"
  /\ FetchOver
  /\ UNCHANGED <<rpcVars, chainVars, posVars, buyPc>>

(***************************************************************************)
(* The error quotes the latest attempt.  None of the program's own texts   *)
(* contains a word that marks the position.                                *)
(***************************************************************************)
MonMissing ==
  /\ monPc = "missing"
  /\ monPc' = (IF lastErr = "wordy" THEN "mark" ELSE "idle")
  /\ FetchOver
  /\ UNCHANGED <<rpcVars, chainVars, posVars, buyPc>>

MonMark ==
  /\ monPc = "mark"
  /\ migrated' = TRUE
  /\ monPc' = "idle"
  /\ UNCHANGED <<rpcVars, chainVars, attempt, lastErr, probe, steady, cached, pending, buyPc>>

MonStep ==
  MonFetch \/ DirectData \/ DirectFails \/ Search \/ Found \/ Probe \/ MonPriced
    \/ MonMissing \/ MonMark

-----------------------------------------------------------------------------
(* The buy task.                                                           *)

BuyBegins ==
  /\ buyPc = "out"
  /\ StartCall("buy")
  /\ buyPc' = "mint"
  /\ UNCHANGED <<health, turns, chainVars, monVars, posVars>>

(***************************************************************************)
(* Past the screen: the amounts of the target's transaction make a price,  *)
(* or the curve has to be asked for one.                                   *)
(***************************************************************************)
Order ==
  \/ buyPc' = "out" /\ EndCall("buy")
  \/ buyPc' = "curve" /\ StartCall("buy")

(***************************************************************************)
(* Without the mint account there is no report, and the buy is allowed.    *)
(***************************************************************************)
BuyMint ==
  /\ buyPc = "mint"
  /\ Returns("buy")
  /\ \/ "none" \in Got("buy", "confirmed") /\ Order
     \/ /\ Got("buy", "confirmed") # {"none"}
        /\ buyPc' = "metadata" /\ StartCall("buy")
  /\ UNCHANGED <<health, turns, chainVars, monVars, posVars>>

BuyRejected == buyPc' = "out" /\ EndCall("buy")

(***************************************************************************)
(* The report is complete with or without metadata.                        *)
(***************************************************************************)
BuyMetadata ==
  /\ buyPc = "metadata"
  /\ Returns("buy")
  /\ BuyRejected \/ (buyPc' = "liquidity" /\ StartCall("buy"))
  /\ UNCHANGED <<health, turns, chainVars, monVars, posVars>>

BuyLiquidity ==
  /\ buyPc = "liquidity"
  /\ Returns("buy")
  /\ BuyRejected \/ Order
  /\ UNCHANGED <<health, turns, chainVars, monVars, posVars>>

BuyCurveUnchecked ==          \* mutant: a complete curve is priced as well
  /\ buyPc = "curve"
  /\ Returns("buy")
  /\ \E state \in Got("buy", "confirmed") :
       buyPc' = IF state # "none" THEN "decimals" ELSE "out"
  /\ EndCall("buy")
  /\ UNCHANGED <<health, turns, chainVars, monVars, posVars>>

(***************************************************************************)
(* fetch_current_price_full reads the curve without the lock.              *)
(***************************************************************************)
BuyCurve ==
  /\ buyPc = "curve"
  /\ Returns("buy")
  /\ \E state \in Got("buy", "confirmed") :
       buyPc' = IF state = "open" THEN "decimals" ELSE "out"
  /\ EndCall("buy")
  /\ UNCHANGED <<health, turns, chainVars, monVars, posVars>>

BuyDecimals ==
  /\ buyPc = "decimals"
  /\ Decimals
  /\ buyPc' = "put"
  /\ UNCHANGED <<chainVars, monVars, posVars>>

BuyPut ==
  /\ buyPc = "put"
  /\ ~Locked
  /\ cached' = TRUE
  /\ buyPc' = "out"
  /\ UNCHANGED <<rpcVars, chainVars, monVars, migrated, pending>>

BuyStep ==
  BuyMint \/ BuyMetadata \/ BuyLiquidity \/ BuyCurve \/ BuyDecimals \/ BuyPut

-----------------------------------------------------------------------------
Next ==
  \/ Complete \/ Expire \/ FlagTurns
  \/ CatchUp
  \/ \E u \in Endpoints : TurnEndpoint(u)
  \/ \E c \in Clients : AskNext(c)
  \/ MonStep
  \/ BuyBegins \/ BuyStep

Spec == Init /\ [][Next]_vars

(***************************************************************************)
(* Fairness: both tasks are polled, every request comes back, prices age   *)
(* and endpoints catch up with the chain.  Nothing is assumed of the flag. *)
(***************************************************************************)
Fairness ==
  /\ WF_vars(MonStep) /\ WF_vars(BuyStep)
  /\ \A c \in Clients : WF_vars(AskNext(c))
  /\ WF_vars(Expire)
  /\ WF_vars(CatchUp)

FairSpec == Spec /\ Fairness

-----------------------------------------------------------------------------
(***************************************************************************)
(* A fetch finds the curve unreadable only when no endpoint was up and had *)
(* it finalized from the beginning to the end, wherever the rotation began *)
(* and whichever endpoints refused: the reason for the probe at the end.   *)
(* Of a curve that is only processed or confirmed this is not so: the      *)
(* probe does not see it.                                                  *)
(***************************************************************************)
PricedWhenReachable == monPc = "missing" => steady = {}

(***************************************************************************)
(* A position is marked as migrated, and from then on no longer watched,   *)
(* only when its curve is gone; endpoints that fail, refuse or lag do not  *)
(* mark it.                                                                *)
(***************************************************************************)
MarkedMeansGone == migrated => curve = "gone"

(***************************************************************************)
(* When a curve is gone and some endpoint stays up, its position is marked *)
(* in the end, although endpoints lag and the buy task caches prices,      *)
(* unless its flag keeps coming back: a flagged position is not priced.    *)
(***************************************************************************)
GoneIsMarked ==
  (\E u \in Endpoints : <>[](health[u] = "up")) /\ <>[]~pending
    => (curve = "gone" ~> migrated)

-----------------------------------------------------------------------------
(* What a comment says and the code does not do.                           *)

(***************************************************************************)
(* monitor_loop: "Detect migration signals: complete=true, reserves=0,     *)
(* account not found".                                                     *)
(***************************************************************************)
AbsentIsMarked ==
  (\E u \in Endpoints : <>[](health[u] = "up" /\ view[u] = "none")) => <>migrated
=============================================================================

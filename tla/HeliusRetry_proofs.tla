------------------------- MODULE HeliusRetry_proofs -------------------------
(***************************************************************************)
(* A buy that was given up as expired has lapsed, for any chain, validity, *)
(* margin and number of attempts, whatever the senders take and answer.    *)
(* The deadline is read off the chain after the blockhash was chosen, so   *)
(* the invariant must follow the age of the blockhash from the cache on.   *)
(***************************************************************************)
EXTENDS HeliusRetry, TLAPS

(***************************************************************************)
(* A blockhash that the cache holds was fresh at this height or before.    *)
(***************************************************************************)
CacheAged ==
  /\ height \in Nat
  /\ cache \in [Caches -> Nat \cup {Empty}]
  /\ cache["blockhash"] # Empty => cache["blockhash"] <= height + Validity

(***************************************************************************)
(* So is the one of a buy that goes on; what was sent uses it, and a known *)
(* deadline is no earlier.                                                 *)
(***************************************************************************)
HashAged ==
  buying =>
    /\ pc \in {"none", "resolve", "begin"} => sent = {}
    /\ pc \in {"begin", "try", "sleep", "expired"} =>
         /\ hash \in Nat /\ hash <= height + Validity
         /\ \A tx \in sent : tx.until = hash
    /\ pc \in {"try", "sleep", "expired"} /\ deadline # Unknown =>
         deadline \in Nat /\ hash <= deadline
    /\ pc = "expired" => deadline # Unknown /\ height > deadline

Nothing == pc \in {"none", "resolve"} => sent = {}

AgeInv == CacheAged /\ HashAged /\ Nothing

-----------------------------------------------------------------------------
LEMMA AgeInit == Init => AgeInv
BY StartupAssumption
   DEF Init, StartInit, Caches, AgeInv, CacheAged, HashAged, Nothing

(***************************************************************************)
(* The start of main and the chain: the height only grows, and a refresh   *)
(* brings a blockhash of this height.                                      *)
(***************************************************************************)
LEMMA StartKeeps ==
  ASSUME AgeInv, MainStep \/ CacheStep \/ Block, UNCHANGED <<order, sent, landed>>
  PROVE  AgeInv'
<1>1. CacheAged' /\ height' \in Nat /\ height' >= height
  <2>1. CASE MainStep
    BY <2>1 DEF MainStep, OwnStep, PanelOff, CheckFilled, CheckEmpty, Listen, Woken,
                TimesOut, Warmed, FeesFetched, Proceed, AgeInv, CacheAged
  <2>2. ASSUME NEW c \in Caches, Refresh(c)
        PROVE  CacheAged' /\ height' \in Nat /\ height' >= height
    <3>1. /\ UNCHANGED height
          /\ cache' = [cache EXCEPT ![c] = IF c = "blockhash" THEN height + Validity
                                                             ELSE height]
      BY <2>2 DEF Refresh, main
    <3> QED BY <3>1, StartupAssumption DEF AgeInv, CacheAged, Caches
  <2>3. ASSUME NEW c \in Caches, Announce(c)
        PROVE  CacheAged' /\ height' \in Nat /\ height' >= height
    BY <2>3 DEF Announce, AgeInv, CacheAged
  <2>4. CASE Block
    BY <2>4, StartupAssumption DEF Block, AgeInv, CacheAged, Caches
  <2>5. CASE CacheStep
    <3>1. PICK c \in Caches : Refresh(c) \/ Announce(c)
      BY <2>5 DEF CacheStep
    <3>2. CASE Refresh(c)
      BY <2>2, <3>2
    <3>3. CASE Announce(c)
      BY <2>3, <3>3
    <3> QED BY <3>1, <3>2, <3>3
  <2> QED BY <2>1, <2>4, <2>5
<1>2. HashAged' /\ Nothing'
  BY <1>1, StartupAssumption DEF order, AgeInv, CacheAged, HashAged, Nothing
<1> QED BY <1>1, <1>2 DEF AgeInv

(***************************************************************************)
(* The steps of the order.                                                 *)
(***************************************************************************)
LEMMA ResolveKeeps ==
  ASSUME AgeInv, Order \/ Resolve \/ NoHash \/ Begin
  PROVE  AgeInv'
<1>1. UNCHANGED <<height, cache, sent>> /\ CacheAged'
  BY DEF Order, Resolve, NoHash, Begin, startVars, AgeInv, CacheAged
<1>2. CASE Order
  BY <1>1, <1>2 DEF Order, AgeInv, HashAged, Nothing
<1>3. CASE Resolve
  <2>1. hash' \in Nat /\ hash' <= height + Validity
    BY <1>3, StartupAssumption
       DEF Resolve, Kept, Fresh, AgeInv, CacheAged, Caches
  <2> QED BY <1>1, <1>3, <2>1 DEF Resolve, AgeInv, HashAged, Nothing
<1>4. CASE NoHash
  BY <1>1, <1>4 DEF NoHash, AgeInv, HashAged, Nothing
<1>5. CASE Begin
  <2>1. deadline' # Unknown => deadline' = height + Validity
    BY <1>5 DEF Begin, Fresh
  <2> QED BY <1>1, <1>5, <2>1, StartupAssumption
          DEF Begin, AgeInv, CacheAged, HashAged, Nothing
<1> QED BY <1>1, <1>2, <1>3, <1>4, <1>5

LEMMA AttemptKeeps ==
  ASSUME AgeInv, Expired \/ BuildFails \/ Send \/ Wake \/ Land
  PROVE  AgeInv'
<1>1. UNCHANGED <<height, cache, buying, hash, deadline>> /\ CacheAged'
  BY DEF Expired, BuildFails, Send, Wake, Land, startVars, AgeInv, CacheAged
<1>2. CASE Expired
  BY <1>1, <1>2 DEF Expired, TooLate, AgeInv, HashAged, Nothing
<1>3. CASE BuildFails \/ Wake
  BY <1>1, <1>3 DEF BuildFails, Wake, MayTry, AfterError, AgeInv, HashAged, Nothing
<1>4. CASE Send
  <2>1. /\ pc = "try" /\ pc' \in {"sent", "sleep", "failed"}
        /\ buying => \A tx \in sent' : tx \in sent \/ tx.until = hash
    BY <1>4 DEF Send, MayTry, AfterError
  <2> QED BY <1>1, <2>1 DEF AgeInv, HashAged, Nothing
<1>5. CASE Land
  BY <1>1, <1>5 DEF Land, AgeInv, HashAged, Nothing
<1> QED BY <1>2, <1>3, <1>4, <1>5

LEMMA AgeStep == AgeInv /\ [Next]_vars => AgeInv'
<1> SUFFICES ASSUME AgeInv, [Next]_vars PROVE AgeInv'
  OBVIOUS
<1>1. CASE UNCHANGED vars
  BY <1>1 DEF vars, startVars, order, AgeInv, CacheAged, HashAged, Nothing
<1>2. CASE OrderStep
  BY <1>2, ResolveKeeps, AttemptKeeps DEF OrderStep
<1>3. CASE (MainStep \/ CacheStep \/ Block) /\ UNCHANGED <<order, sent, landed>>
  BY <1>3, StartKeeps
<1> QED BY <1>1, <1>2, <1>3 DEF Next

(***************************************************************************)
(* send_transaction_with_retry: "Blockhash expired" is the end of a buy,   *)
(* although errors may hide transactions that were taken.                  *)
(***************************************************************************)
THEOREM ExpiredBuysLapse == Spec => []ExpiredIsFinal
<1>1. AgeInv => ExpiredIsFinal
  BY DEF AgeInv, CacheAged, HashAged, ExpiredIsFinal
<1> QED BY <1>1, AgeInit, AgeStep, PTL DEF Spec
=============================================================================

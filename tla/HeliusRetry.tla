----------------------------- MODULE HeliusRetry -----------------------------
(***************************************************************************)
(* One order of the running bot on its way through the Helius sender:      *)
(* buy_token resolves the blockhash that the cache gave it,                *)
(* send_transaction_with_retry builds and sends up to max_retries          *)
(* transactions.  Every attempt pays a tip to an account drawn at random,  *)
(* so two attempts are two transactions, and an attempt that ends in an    *)
(* error may have been taken all the same.  A sell brings no blockhash:    *)
(* every attempt fetches its own.  The cache, its refresh and the start of *)
(* main are in Startup.                                                    *)
(***************************************************************************)
EXTENDS Startup, FiniteSets

CONSTANTS
  Tips,          \* TIP_ACCOUNTS
  MaxRetries,    \* max_retries (3 in buy_token and sell_token)
  Margin,        \* safety_margin (10)
  RpcFaults,     \* calls to the RPC node may fail
  Unknown        \* no block height

ASSUME HeliusRetryAssumption ==
  /\ MaxRetries \in Nat \ {0}
  /\ Margin \in Nat
  /\ RpcFaults \in BOOLEAN
  /\ Unknown \notin Int

VARIABLES
  buying,     \* a buy with a blockhash, or a sell without
  pc,         \* where the order stands
  hash,       \* last height at which the blockhash of a buy is valid
  deadline,   \* last_valid_block_height of the retry loop
  attempt,    \* attempts made
  sent,       \* transactions that have reached the network
  landed      \* transactions that are on the chain

order == <<buying, pc, hash, deadline, attempt>>

vars == <<startVars, order, sent, landed>>

OrderPhases == {"none", "resolve", "begin", "try", "sleep", "sent", "failed", "expired"}

Heights == 0 .. MaxHeight + Validity

Tx == [tip : Tips, until : Heights]

Init ==
  /\ StartInit
  /\ buying = FALSE
  /\ pc = "none"
  /\ hash = Unknown
  /\ deadline = Unknown
  /\ attempt = 0
  /\ sent = {}
  /\ landed = {}

TypeOK ==
  /\ StartTypeOK
  /\ buying \in BOOLEAN
  /\ pc \in OrderPhases
  /\ hash \in Heights \cup {Unknown}
  /\ deadline \in Heights \cup {Unknown}
  /\ attempt \in 0 .. MaxRetries
  /\ sent \subseteq Tx
  /\ landed \subseteq sent

-----------------------------------------------------------------------------
Fresh == height + Validity

Order ==
  /\ phase = "running" /\ pc = "none"
  /\ buying' \in BOOLEAN
  /\ pc' = (IF buying' THEN "resolve" ELSE "begin")
  /\ UNCHANGED <<startVars, hash, deadline, attempt, sent, landed>>

(***************************************************************************)
(* The cached entry may be old, because refreshes may have failed.  It is  *)
(* kept when it lives for the margin, when the height is not known, and    *)
(* when no fresh one can be had.                                           *)
(***************************************************************************)
Kept(entry) == entry # Empty /\ (RpcFaults \/ height + Margin <= entry)

Refetched(entry) == entry # Empty => height + Margin > entry

Resolve ==
  /\ pc = "resolve"
  /\ \/ Kept(cache["blockhash"]) /\ hash' = cache["blockhash"]
     \/ Refetched(cache["blockhash"]) /\ hash' = Fresh
  /\ pc' = "begin"
  /\ UNCHANGED <<startVars, buying, deadline, attempt, sent, landed>>

(***************************************************************************)
(* There is no cached entry, or a sell has none, and no blockhash can be   *)
(* fetched.                                                                *)
(***************************************************************************)
NoHash ==
  /\ RpcFaults
  /\ IF buying THEN pc = "resolve" /\ cache["blockhash"] = Empty
               ELSE pc = "begin"
  /\ pc' = "failed"
  /\ UNCHANGED <<startVars, buying, hash, deadline, attempt, sent, landed>>

(***************************************************************************)
(* For a buy the deadline is computed from the present height, not from    *)
(* the blockhash; when the height is not known there is none.              *)
(***************************************************************************)
Begin ==
  /\ pc = "begin"
  /\ deadline' \in {Fresh} \cup (IF RpcFaults /\ buying THEN {Unknown} ELSE {})
  /\ pc' = "try"
  /\ UNCHANGED <<startVars, buying, hash, attempt, sent, landed>>

TooLateEarly ==               \* mutant: the last height of a blockhash is left out
  deadline # Unknown /\ height >= deadline

TooLate == deadline # Unknown /\ height > deadline

(***************************************************************************)
(* "Blockhash expired before send attempt".                                *)
(***************************************************************************)
Expired ==
  /\ pc = "try"
  /\ TooLate
  /\ pc' = "expired"
  /\ UNCHANGED <<startVars, buying, hash, deadline, attempt, sent, landed>>

MayTry ==
  /\ pc = "try"
  /\ RpcFaults \/ ~TooLate

AfterError == IF attempt + 1 < MaxRetries THEN "sleep" ELSE "failed"

(***************************************************************************)
(* The tip, the simulation, the fee or the blockhash could not be had.     *)
(***************************************************************************)
BuildFails ==
  /\ MayTry
  /\ pc' = AfterError
  /\ attempt' = attempt + 1
  /\ UNCHANGED <<startVars, buying, hash, deadline, sent, landed>>

(***************************************************************************)
(* The transaction goes to the sender, which takes it or not, and in       *)
(* parallel to other providers, whose answers nobody waits for.  An error  *)
(* does not say that nobody has taken it: the connection may break, or the *)
(* reply be no JSON or hold no signature.                                  *)
(***************************************************************************)
Send ==
  /\ MayTry
  /\ \E tip \in Tips, ok, taken \in BOOLEAN :
       /\ ok => taken
       /\ sent' = IF taken
                  THEN sent \cup {[tip |-> tip, until |-> IF buying THEN hash ELSE Fresh]}
                  ELSE sent
       /\ pc' = IF ok THEN "sent" ELSE AfterError
  /\ attempt' = attempt + 1
  /\ UNCHANGED <<startVars, buying, hash, deadline, landed>>

Wake ==
  /\ pc = "sleep"
  /\ pc' = "try"
  /\ UNCHANGED <<startVars, buying, hash, deadline, attempt, sent, landed>>

(***************************************************************************)
(* The chain: a transaction lands once, and only while its blockhash is    *)
(* valid.                                                                  *)
(***************************************************************************)
Land ==
  /\ \E tx \in sent \ landed :
       /\ height <= tx.until
       /\ landed' = landed \cup {tx}
  /\ UNCHANGED <<startVars, buying, pc, hash, deadline, attempt, sent>>

OrderStep ==
  \/ Order \/ Resolve \/ NoHash \/ Begin \/ Expired \/ BuildFails \/ Send \/ Wake
  \/ Land

Next ==
  \/ OrderStep
  \/ (MainStep \/ CacheStep \/ Block) /\ UNCHANGED <<order, sent, landed>>

Spec == Init /\ [][Next]_vars

FairSpec == Spec /\ StartFairness

-----------------------------------------------------------------------------
(***************************************************************************)
(* A buy that is given up as expired cannot be executed any more: whatever *)
(* the sender, or a provider beside it, has taken of it has lapsed.  The   *)
(* deadline is computed from the height after the blockhash was chosen,    *)
(* and the cached blockhash may be old: the deadline may be later than the *)
(* blockhash lives, and must never be earlier.                             *)
(***************************************************************************)
ExpiredIsFinal ==
  buying /\ pc = "expired" => \A tx \in sent \ landed : height > tx.until

-----------------------------------------------------------------------------
(* What the code does not ensure.                                          *)

(***************************************************************************)
(* One order is executed once.                                             *)
(***************************************************************************)
LandsOnce == Cardinality(landed) <= 1

(***************************************************************************)
(* send_transaction_with_retry: "Cache refreshes every 400ms so the hash   *)
(* is always fresh".  An attempt that passes its validity check has a      *)
(* blockhash that is valid.                                                *)
(***************************************************************************)
HashFresh ==
  buying /\ pc = "try" /\ deadline # Unknown /\ ~TooLate => height <= hash
=============================================================================

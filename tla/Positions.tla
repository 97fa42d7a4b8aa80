----------------------------- MODULE Positions -----------------------------
(***************************************************************************)
(* The position map that every task of the bot shares: the                 *)
(* Arc<RwLock<HashMap<String, Holding>>> inside PositionMonitor, the       *)
(* positions.json it is saved to, and the wallet on the chain that the     *)
(* map is meant to mirror.                                                 *)
(*                                                                         *)
(* A method of PositionMonitor runs under one lock, so each is one         *)
(* operator here that constrains positions' (and disk' when the method     *)
(* saves before it lets the lock go).  Callers that await between two      *)
(* methods make two steps.                                                 *)
(***************************************************************************)
EXTENDS Integers, FiniteSets

CONSTANTS
  Mints,        \* the tokens the target trades
  NoHolding,    \* positions[m] when the map has no entry for m
  TpLevels,     \* indices into settings.tp_levels
  SlLevels,     \* indices into settings.sl_levels
  TpPercent,    \* sell_percent of each take-profit level
  SlPercent,    \* sell_percent of each stop-loss level
  FileFaults    \* reads and writes of positions.json may fail

(***************************************************************************)
(* The fields of models::Holding that steer the control flow.  buy_price   *)
(* is not kept: it is zero exactly for a holding registered with no        *)
(* tokens, which is what Priced reads.                                     *)
(***************************************************************************)
Holding == [amount   : Nat,             \* tokens still held
            original : Nat,             \* original_amount, base of TP/SL sizes
            amm      : BOOLEAN,         \* dex: Raydium or PumpSwap, or the curve
            pending  : BOOLEAN,         \* pending_sell
            migrated : BOOLEAN,
            tp       : SUBSET TpLevels, \* triggered_tp_levels
            sl       : SUBSET SlLevels] \* triggered_sl_levels

ASSUME PositionsAssumption ==
  /\ NoHolding \notin Holding
  /\ TpPercent \in [TpLevels -> 1 .. 100]
  /\ SlPercent \in [SlLevels -> 1 .. 100]
  /\ FileFaults \in BOOLEAN

VARIABLES
  positions,    \* the in-memory map
  disk,         \* the map in positions.json
  behind,       \* the last save or load of positions.json has failed
  wallet        \* the chain's balance of each mint, as an RPC node reports it

Positions == [Mints -> Holding \cup {NoHolding}]

Held(m) == positions[m] # NoHolding

HeldIn(map) == {m \in Mints : map[m] # NoHolding}

PricedAlways(h) == TRUE       \* mutant

Priced(h) == h.original > 0

(***************************************************************************)
(* A holding as buyer::buy_token or the AMM branches build it.             *)
(***************************************************************************)
NewHolding(a, onAmm) ==
  [amount |-> a, original |-> a, amm |-> onAmm, pending |-> FALSE,
   migrated |-> FALSE, tp |-> {}, sl |-> {}]

AccumulatedRearmed(h, a) ==   \* mutant: a bigger position starts afresh
  [NewHolding(h.amount + a, h.amm) EXCEPT !.pending = h.pending,
                                          !.migrated = h.migrated]

(***************************************************************************)
(* The holding keeps its dex, wherever the tokens that are added come from.*)
(***************************************************************************)
Accumulated(h, a) ==
  [h EXCEPT !.amount = h.amount + a, !.original = h.amount + a]

SaturatingSub(a, b) == IF a > b THEN a - b ELSE 0

AfterSellOfLevel(h, order) == \* mutant: only level sells reduce the amount
  [h EXCEPT !.pending = FALSE,
            !.amount  = IF order.kind \in {"tp", "sl"}
                        THEN SaturatingSub(@, order.amount) ELSE @,
            !.tp = IF order.kind = "tp" THEN @ \cup {order.level} ELSE @,
            !.sl = IF order.kind = "sl" THEN @ \cup {order.level} ELSE @]

(***************************************************************************)
(* The holding that is left when `order' has been sold from it.            *)
(***************************************************************************)
AfterSell(h, order) ==
  [h EXCEPT !.pending = FALSE,
            !.amount  = SaturatingSub(h.amount, order.amount),
            !.tp = IF order.kind = "tp" THEN @ \cup {order.level} ELSE @,
            !.sl = IF order.kind = "sl" THEN @ \cup {order.level} ELSE @]

-----------------------------------------------------------------------------
(* The methods.                                                            *)

AddPosition(m, h) == positions' = [positions EXCEPT ![m] = h]

(***************************************************************************)
(* save_positions_to_file.  A write or a rename that fails is logged and   *)
(* not tried again: the file stays as it was until a later save succeeds.  *)
(***************************************************************************)
Persist ==
  \/ disk' = positions' /\ behind' = FALSE
  \/ FileFaults /\ disk' = disk /\ behind' = TRUE

AccumulatePosition(m, a) ==
  /\ positions' = [positions EXCEPT ![m] =
                     IF Held(m) THEN Accumulated(positions[m], a) ELSE NoHolding]
  /\ Persist

UpdateAfterSellUnsaved(order) == \* mutant: an exit is not saved
  LET m == order.mint
      left == AfterSell(positions[m], order)
      stays == Held(m) /\ left.amount > 0
  IN  /\ positions' = [positions EXCEPT ![m] = IF stays THEN left ELSE NoHolding]
      /\ IF stays THEN Persist ELSE UNCHANGED <<disk, behind>>

UpdateAfterSellSigned(order) == \* mutant: subtracts first, then looks for zero
  LET m == order.mint
      left == [AfterSell(positions[m], order)
                 EXCEPT !.amount = positions[m].amount - order.amount]
  IN  /\ positions' = [positions EXCEPT ![m] =
                         IF Held(m) /\ left.amount # 0 THEN left ELSE NoHolding]
      /\ Persist

UpdateAfterSell(order) ==
  LET m == order.mint
      left == AfterSell(positions[m], order)
  IN  /\ positions' = [positions EXCEPT ![m] =
                         IF Held(m) /\ left.amount > 0 THEN left ELSE NoHolding]
      /\ Persist

SetPendingFlag(m, flag) ==
  positions' = [positions EXCEPT ![m] =
                  IF Held(m) THEN [positions[m] EXCEPT !.pending = flag]
                             ELSE NoHolding]

SetPendingSell(m)   == SetPendingFlag(m, TRUE)
ClearPendingSell(m) == SetPendingFlag(m, FALSE)

MarkMigrated(m) ==
  positions' = [positions EXCEPT ![m] =
                  IF Held(m) THEN [positions[m] EXCEPT !.migrated = TRUE]
                             ELSE NoHolding]

RemoveEntry(m) == positions' = [positions EXCEPT ![m] = NoHolding]

PositionsInit ==
  /\ positions = [m \in Mints |-> NoHolding]
  /\ disk = [m \in Mints |-> NoHolding]
  /\ behind = FALSE
  /\ wallet = [m \in Mints |-> 0]

PositionsTypeOK ==
  /\ positions \in Positions
  /\ disk \in Positions
  /\ behind \in BOOLEAN
  /\ wallet \in [Mints -> Nat]
=============================================================================

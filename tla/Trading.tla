------------------------------- MODULE Trading -------------------------------
(***************************************************************************)
(* The trading core of the bot: buy tasks, monitor loop, mirror arm,       *)
(* executor and validations over the one position map, with crashes of     *)
(* the process in between.                                                 *)
(***************************************************************************)
EXTENDS BuyTasks, SellSide

CONSTANT MaxCrashes       \* bound: crashes of one behaviour

ASSUME TradingAssumption == MaxCrashes \in Nat

VARIABLE crashes          \* crashes so far

vars == <<positions, disk, behind, wallet, buyVars, sellVars, crashes>>

Init ==
  /\ PositionsInit
  /\ BuyInit
  /\ SellInit
  /\ crashes = 0

TypeOK ==
  /\ PositionsTypeOK
  /\ BuyTypeOK
  /\ SellTypeOK
  /\ crashes \in 0 .. MaxCrashes

-----------------------------------------------------------------------------
(***************************************************************************)
(* The main loop dispatches a detection only while it is not itself stuck  *)
(* in the send of a mirror sell.                                           *)
(***************************************************************************)
Dispatch(t) == mirrorOrder = NoOrder /\ Spawn(t)

BuyStep ==
  /\ \E t \in Tasks : Dispatch(t) \/ TaskStep(t) \/ ChainStep(t)
  /\ UNCHANGED <<sellVars, crashes>>

SellStep == SellNext /\ UNCHANGED <<buyVars, crashes>>

(***************************************************************************)
(* The map a start begins with: a file that cannot be read counts as empty.*)
(***************************************************************************)
Loaded == {disk} \cup (IF FileFaults THEN {[m \in Mints |-> NoHolding]} ELSE {})

(***************************************************************************)
(* The process dies and is started again: the map is what positions.json   *)
(* holds, channels and tasks are gone, the chain is untouched.  Startup    *)
(* validation runs when the map is not empty.                              *)
(***************************************************************************)
Crash ==
  /\ crashes < MaxCrashes
  /\ crashes' = crashes + 1
  /\ positions' \in Loaded
  /\ behind' = (positions' # disk)
  /\ phase' = [t \in Tasks |-> IF phase[t] = "idle" THEN "idle" ELSE "done"]
  /\ pendingBuys' = {}
  /\ monPc' = "idle"
  /\ monSnap' = [m \in Mints |-> NoHolding]
  /\ monTodo' = {}
  /\ monOrder' = NoOrder
  /\ sellQueue' = <<>>
  /\ execPc' = "idle"
  /\ execOrder' = NoOrder
  /\ mirrorOrder' = NoOrder
  /\ valOn' = IF HeldIn(positions') = {} THEN {} ELSE {"startup"}
  /\ valTodo' = [v \in Validations |->
                   IF v = "startup" THEN HeldIn(positions') ELSE {}]
  /\ valMint' = [v \in Validations |-> NoMint]
  /\ UNCHANGED <<disk, wallet, already, bought, tx, targetSells>>

Next == BuyStep \/ SellStep \/ Crash

Spec == Init /\ [][Next]_vars

(***************************************************************************)
(* Fairness.  Every spawned future is polled until it finishes, and each   *)
(* remote call of a step returns.  The SDK and the pollers have timeouts;  *)
(* the shared HTTP client has none, so for the calls it makes this is an   *)
(* assumption about the remote end.  A full channel hands its permits out  *)
(* first come, first served, so a sender that waits gets one although      *)
(* another sender competes: strong fairness for the two senders.  Nothing  *)
(* makes detections, target sells or crashes happen.                       *)
(***************************************************************************)
Fairness ==
  /\ \A t \in Tasks : WF_vars(TaskStep(t) /\ UNCHANGED <<sellVars, crashes>>)
  /\ WF_vars(MonStep /\ UNCHANGED <<buyVars, crashes>>)
  /\ WF_vars(ValStep /\ UNCHANGED <<buyVars, crashes>>)
  /\ WF_vars(ExecStep /\ UNCHANGED <<buyVars, crashes>>)
  /\ SF_vars(MonQueue /\ UNCHANGED <<buyVars, crashes>>)
  /\ SF_vars(MirrorQueue /\ UNCHANGED <<buyVars, crashes>>)

FairSpec == Spec /\ Fairness

-----------------------------------------------------------------------------
(* Buying.                                                                 *)

(***************************************************************************)
(* Two tasks never work on the same mint at once: the pending_buys guard   *)
(* around try_acquire_buy and release_buy excludes them, also across a     *)
(* crash.                                                                  *)
(***************************************************************************)
BuyExclusion ==
  \A t, u \in Tasks :
    /\ t # u
    /\ MintOf[t] = MintOf[u]
    => ~(phase[t] \in SlotPhases /\ phase[u] \in SlotPhases)

(***************************************************************************)
(* A task that read already_holding = false and will call add_position     *)
(* finds no entry to overwrite: the lost position that the comments above  *)
(* try_acquire_buy and at its call in main.rs are about.                   *)
(***************************************************************************)
NeverOverwritten ==
  \A t \in Tasks :
    /\ phase[t] \in DecidedPhases
    /\ ~already[t]
    => ~Held(MintOf[t])

(***************************************************************************)
(* The buy slots as the abstract lock BuySlot: every step of the bot takes *)
(* a free slot, gives one back, frees them all in a crash, or leaves them. *)
(***************************************************************************)
Slot == INSTANCE BuySlot WITH
          holders <- {t \in Tasks : phase[t] \in SlotPhases}

SlotRefined == Slot!SlotSpec

(***************************************************************************)
(* A reserved mint is free again some day.  The comment on release_buy:    *)
(* "otherwise the mint stays blocked forever".                             *)
(***************************************************************************)
SlotFreed == \A m \in Mints : m \in pendingBuys ~> m \notin pendingBuys

-----------------------------------------------------------------------------
(* Positions and their file.                                               *)

(***************************************************************************)
(* What positions.json must not lose.  pending_sell and migrated are saved *)
(* only along with the next change of the map.                             *)
(***************************************************************************)
SameHolding(a, b) ==
  IF a = NoHolding \/ b = NoHolding
  THEN a = b
  ELSE /\ a.amount = b.amount
       /\ a.original = b.original
       /\ a.tp = b.tp
       /\ a.sl = b.sl

(***************************************************************************)
(* Unless its last save or load has failed, the file holds the position,   *)
(* amount and triggered levels that the map has of a mint, whatever goes   *)
(* on with the others: a restart forgets no more than a position that is   *)
(* being registered, and brings back no more than one that a validation    *)
(* has just removed.                                                       *)
(***************************************************************************)
Registering(m) == \E t \in Tasks : MintOf[t] = m /\ phase[t] = "persisting"

Removing(m) == valOn # {} /\ ~Held(m)

Saved ==
  ~behind => \A m \in Mints :
               SameHolding(positions[m], disk[m]) \/ Registering(m) \/ Removing(m)

(***************************************************************************)
(* A level that has triggered stays triggered for as long as the position  *)
(* lives, over accumulations, removals and restarts: "already-triggered    *)
(* levels should remain marked to prevent re-triggering", as               *)
(* accumulate_position says.  Only a crash while the file is behind, for   *)
(* a save has failed, may bring an older position back.                    *)
(***************************************************************************)
LevelsKept(m) ==
  Held(m) /\ Held(m)' => /\ positions[m].tp \subseteq positions'[m].tp
                         /\ positions[m].sl \subseteq positions'[m].sl

OldFile == behind /\ crashes' # crashes

NeverRearmed == [][OldFile \/ \A m \in Mints : LevelsKept(m)]_vars

-----------------------------------------------------------------------------
(* Selling.                                                                *)

(***************************************************************************)
(* The orders for a mint that some sender, the channel or the executor     *)
(* holds.                                                                  *)
(***************************************************************************)
InHand == (IF monPc = "queue" THEN {monOrder} ELSE {})
          \cup (IF execPc # "idle" THEN {execOrder} ELSE {})
          \cup ({mirrorOrder} \ {NoOrder})

Queued(m) == {i \in 1 .. Len(sellQueue) : sellQueue[i].mint = m}

InFlight(m) == {o \in InHand : o.mint = m} \cup {sellQueue[i] : i \in Queued(m)}

(***************************************************************************)
(* Until the first sell of the target is mirrored and until the first      *)
(* crash, whose validation may take a position away under an order, orders *)
(* come from the monitor loop alone.                                       *)
(***************************************************************************)
MonitorOnly == targetSells = 0 /\ crashes = 0

(***************************************************************************)
(* Then a mint has at most one order anywhere between the monitor's        *)
(* decision and the end of its execution.                                  *)
(***************************************************************************)
OneOrder ==
  MonitorOnly =>
    \A m \in Mints :
      Cardinality(Queued(m))
        + (IF monPc = "queue" /\ monOrder.mint = m THEN 1 ELSE 0)
        + (IF execPc # "idle" /\ execOrder.mint = m THEN 1 ELSE 0) <= 1

(***************************************************************************)
(* Then no order is under way for a level its position has already sold,   *)
(* although monitor_loop decides on a snapshot that may be several awaits  *)
(* old.                                                                    *)
(***************************************************************************)
NoStaleLevel ==
  MonitorOnly =>
    \A m \in Mints : \A o \in InFlight(m) :
      Held(m) => /\ o.kind = "tp" => o.level \notin positions[m].tp
                 /\ o.kind = "sl" => o.level \notin positions[m].sl

(***************************************************************************)
(* Then an order never asks for more than its position holds by the time   *)
(* it is executed, so saturating_sub never saturates.                      *)
(***************************************************************************)
OrderCovered ==
  MonitorOnly =>
    \A m \in Mints : \A o \in InFlight(m) :
      Held(m) => o.amount <= positions[m].amount

(***************************************************************************)
(* What keeps the count of a position honest: no sell fails after it was   *)
(* sent, no crash, no buy that adds the balance of the whole account to a  *)
(* position, and no order that outlives its position, for which it is      *)
(* enough that the monitor is its only source or that no mint is bought a  *)
(* second time.                                                            *)
(***************************************************************************)
OneBuyEach == \A t, u \in Tasks : MintOf[t] = MintOf[u] => t = u

Honest ==
  /\ ~RemoteFaults
  /\ crashes = 0
  /\ ~(ReadsBalance /\ AllowAccumulate)
  /\ targetSells = 0 \/ OneBuyEach

(***************************************************************************)
(* Then a position never counts more than the wallet has, but for buys     *)
(* whose transaction has not landed (registered on an estimate) and the    *)
(* sell that has landed and is not recorded yet.                           *)
(***************************************************************************)
Unlanded(m) == {t \in Tasks : MintOf[t] = m /\ tx[t] \in {"sent", "dropped"}}

Settling(m) ==
  IF execPc = "settling" /\ execOrder.mint = m THEN execOrder.amount ELSE 0

Backed ==
  Honest =>
    \A m \in Mints :
      Held(m) => positions[m].amount <=
                   wallet[m] + BuyAmount * Cardinality(Unlanded(m)) + Settling(m)

(***************************************************************************)
(* A position on an AMM carries pending_sell only when its mint has been   *)
(* bought on the curve as well.  The executor gives up on AMM orders       *)
(* without clearing that flag, so one that carried it might never be       *)
(* looked at again.                                                        *)
(***************************************************************************)
CurveBought(m) == \E t \in Tasks \ AmmTasks : MintOf[t] = m /\ bought[t] > 0

AbandonHarmless ==
  \A m \in Mints :
    Held(m) /\ positions[m].amm /\ positions[m].pending => CurveBought(m)

(***************************************************************************)
(* The monitor loop and the main loop never wait for ever on a full sell   *)
(* channel.                                                                *)
(***************************************************************************)
SendersProceed ==
  /\ monPc = "queue" ~> monPc # "queue"
  /\ mirrorOrder # NoOrder ~> mirrorOrder = NoOrder

-----------------------------------------------------------------------------
(* What the documentation says and the code does not do.                   *)

(***************************************************************************)
(* Holding.pending_sell: "True while a TP/SL/Mirror sell is in-flight".    *)
(***************************************************************************)
PendingMeansInFlight ==
  \A m \in Mints :
    Held(m) /\ positions[m].pending /\ monPc # "mark" => InFlight(m) # {}

(***************************************************************************)
(* Holding.pending_sell: "Prevents duplicate sell orders from being queued *)
(* while the first one is still executing".                                *)
(***************************************************************************)
NoDuplicateOrders ==
  \A m \in Mints :
    execPc # "idle" /\ execOrder.mint = m /\ Held(m) => Queued(m) = {}

(***************************************************************************)
(* main.rs, "Max positions enforcement".                                   *)
(***************************************************************************)
MaxPositions == Cardinality(HeldIn(positions)) <= MaxHoldedCoins

(***************************************************************************)
(* accumulate_position: "add tokens from another buy".  A position never   *)
(* counts more tokens than the transactions of its mint asked for.         *)
(***************************************************************************)
Sent(m) == {t \in Tasks : MintOf[t] = m /\ tx[t] # "none"}

CountedOnce ==
  \A m \in Mints :
    Held(m) => positions[m].amount <= BuyAmount * Cardinality(Sent(m))

(***************************************************************************)
(* monitor_loop: "Skip positions with a sell already in-flight".  The      *)
(* monitor does not skip a position on an AMM when none is.  A curve buy   *)
(* that is added to such a position gives it a price and so an order, and  *)
(* the executor may give up on that order with the flag set.               *)
(***************************************************************************)
AmmNotSkipped ==
  \A m \in Mints :
    /\ Held(m) /\ positions[m].amm
    /\ positions[m].pending
    /\ monPc # "mark" /\ crashes = 0 /\ targetSells = 0
    => InFlight(m) # {}

(***************************************************************************)
(* Holding.pending_sell again: after a restart nothing is in flight.       *)
(***************************************************************************)
RestartArms ==
  [][crashes' # crashes =>
       \A m \in Mints : Held(m)' => ~positions'[m].pending]_vars

(***************************************************************************)
(* main.rs: "Mirror sell: target sold, we sell our entire position of that *)
(* mint".  A mirror sell that closes a position leaves no tokens of it.    *)
(***************************************************************************)
MirrorSellsAll ==
  [][\A m \in Mints :
       /\ execPc = "settling" /\ execPc' = "idle"
       /\ execOrder.mint = m /\ execOrder.kind = "mirror"
       /\ Held(m) /\ ~Held(m)'
       => wallet'[m] = 0]_vars
=============================================================================

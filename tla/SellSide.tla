------------------------------ MODULE SellSide ------------------------------
(***************************************************************************)
(* Everything that shrinks or removes a position: the monitor loop that    *)
(* turns prices into sell orders, the mirror-sell arm of the main loop,    *)
(* the sell channel, the executor that drains it, and the two validations  *)
(* that drop positions whose tokens are no longer on the chain.            *)
(*                                                                         *)
(* Prices are not tracked: at every look the price may be any, so any      *)
(* trigger that the holding still allows may fire.                         *)
(***************************************************************************)
EXTENDS Positions, Sequences

CONSTANTS
  NoMint,         \* no validation is about to remove anything
  NoOrder,        \* no order in hand
  SellCap,        \* capacity of the sell channel (100 in main.rs)
  SellShares,     \* percentages of its buy the target may sell at once
  MaxTargetSells, \* bound: mirror-sell notifications of one behaviour
  RemoteFaults    \* sent sells may fail, balance calls may find no answer

ASSUME SellSideAssumption ==
  /\ NoMint \notin Mints
  /\ SellCap \in Nat \ {0}
  /\ SellShares \subseteq 0 .. 100
  /\ MaxTargetSells \in Nat
  /\ RemoteFaults \in BOOLEAN

VARIABLES
  monPc,        \* the monitor loop's place between two awaits
  monSnap,      \* its snapshot of the map
  monTodo,      \* snapshot entries it has not looked at yet
  monOrder,     \* the order it is queueing or has just queued
  sellQueue,    \* the sell channel
  execPc,       \* the executor's place
  execOrder,    \* the order it is executing
  mirrorOrder,  \* the order the main loop is queueing for a mirror sell
  targetSells,  \* mirror-sell notifications received so far
  valOn,        \* the validations that are running
  valTodo,      \* entries each validation still has to check
  valMint       \* the entry each validation has found empty

sellVars == <<monPc, monSnap, monTodo, monOrder, sellQueue, execPc, execOrder,
              mirrorOrder, targetSells, valOn, valTodo, valMint>>

monVars  == <<monPc, monSnap, monTodo, monOrder>>
execVars == <<execPc, execOrder>>
mainVars == <<mirrorOrder, targetSells>>
valVars  == <<valOn, valTodo, valMint>>

MonPhases  == {"idle", "tick", "queue", "mark", "revalidate"}
ExecPhases == {"idle", "selling", "settling"}

(***************************************************************************)
(* validate_positions_on_startup is a task of its own; the periodic        *)
(* revalidation is an arm of the monitor loop.                             *)
(***************************************************************************)
Validations == {"startup", "periodic"}

Kinds == {"tp", "sl", "exit", "mirror"}

(***************************************************************************)
(* SellOrder.  A trailing stop and a rug alarm both sell everything and    *)
(* mark no level: one kind, "exit".                                        *)
(***************************************************************************)
OrderRecord == [mint   : Mints,
                amount : Nat,
                kind   : Kinds,
                level  : TpLevels \cup SlLevels \cup {0},
                amm    : BOOLEAN,
                final  : BOOLEAN]

Order == {o \in OrderRecord : /\ o.kind = "tp" => o.level \in TpLevels
                              /\ o.kind = "sl" => o.level \in SlLevels}

SellInit ==
  /\ monPc = "idle"
  /\ monSnap = [m \in Mints |-> NoHolding]
  /\ monTodo = {}
  /\ monOrder = NoOrder
  /\ sellQueue = <<>>
  /\ execPc = "idle"
  /\ execOrder = NoOrder
  /\ mirrorOrder = NoOrder
  /\ targetSells = 0
  /\ valOn = {}
  /\ valTodo = [v \in Validations |-> {}]
  /\ valMint = [v \in Validations |-> NoMint]

SellTypeOK ==
  /\ monPc \in MonPhases
  /\ monSnap \in Positions
  /\ monTodo \subseteq HeldIn(monSnap)
  /\ monOrder \in Order \cup {NoOrder}
  /\ monPc \in {"queue", "mark"} => monOrder \in Order
  /\ sellQueue \in Seq(Order)
  /\ Len(sellQueue) <= SellCap
  /\ execPc \in ExecPhases
  /\ execOrder \in Order \cup {NoOrder}
  /\ execPc # "idle" => execOrder \in Order
  /\ mirrorOrder \in Order \cup {NoOrder}
  /\ targetSells \in 0 .. MaxTargetSells
  /\ valOn \subseteq Validations
  /\ valTodo \in [Validations -> SUBSET Mints]
  /\ valMint \in [Validations -> Mints \cup {NoMint}]

-----------------------------------------------------------------------------
(* The monitor loop, TP/SL arm.                                            *)

MonTick ==
  /\ monPc = "idle"
  /\ HeldIn(positions) # {}
  /\ monPc' = "tick"
  /\ monSnap' = positions
  /\ monTodo' = HeldIn(positions)
  /\ UNCHANGED <<monOrder, sellQueue, execVars, mainVars, valVars,
                 positions, disk, behind, wallet>>

MonTickEmpty ==
  /\ monPc = "idle"
  /\ HeldIn(positions) = {}
  /\ UNCHANGED <<sellVars, positions, disk, behind, wallet>>

PassedIfMigrated(h) == h.migrated    \* mutant: pending_sell is not looked at

(***************************************************************************)
(* Entries the tick passes over without asking for a price.                *)
(***************************************************************************)
Passed(h) == h.migrated \/ h.pending

Looked(m) == monTodo' = monTodo \ {m}

(***************************************************************************)
(* Passed over, price not available, unpriced, or nothing triggers.        *)
(***************************************************************************)
MonHold(m) ==
  /\ monPc = "tick"
  /\ m \in monTodo
  /\ Looked(m)
  /\ UNCHANGED <<monPc, monSnap, monOrder, sellQueue, execVars, mainVars,
                 valVars, positions, disk, behind, wallet>>

MonMigrated(m) ==
  /\ monPc = "tick"
  /\ m \in monTodo
  /\ ~Passed(monSnap[m])
  /\ MarkMigrated(m)
  /\ Looked(m)
  /\ UNCHANGED <<monPc, monSnap, monOrder, sellQueue, execVars, mainVars,
                 valVars, disk, behind, wallet>>

LevelAmountUnclamped(h, percent) == (percent * h.original) \div 100  \* mutant

LevelAmount(h, percent) ==
  LET share == (percent * h.original) \div 100
  IN  IF share <= h.amount THEN share ELSE h.amount

LevelOrder(m, h, kind, i, percent) ==
  [mint |-> m, amount |-> LevelAmount(h, percent), kind |-> kind, level |-> i,
   amm |-> h.amm, final |-> LevelAmount(h, percent) = h.amount]

TpOrdersAgain(m, h) ==        \* mutant: triggered levels are not skipped
  {LevelOrder(m, h, "tp", i, TpPercent[i]) :
     i \in {j \in TpLevels : (TpPercent[j] * h.original) \div 100 > 0}}

TpOrders(m, h) ==
  {LevelOrder(m, h, "tp", i, TpPercent[i]) :
     i \in {j \in TpLevels \ h.tp : (TpPercent[j] * h.original) \div 100 > 0}}

SlOrders(m, h) ==
  {LevelOrder(m, h, "sl", i, SlPercent[i]) :
     i \in {j \in SlLevels \ h.sl : (SlPercent[j] * h.original) \div 100 > 0}}

ExitOrders(m, h) ==
  {[mint |-> m, amount |-> h.amount, kind |-> "exit", level |-> 0,
    amm |-> h.amm, final |-> TRUE]}

(***************************************************************************)
(* The orders one look at a price may give rise to.  A take-profit         *)
(* trigger is above zero and a stop-loss trigger below it (settings.rs     *)
(* rejects anything else), so a tick queues at most one order for a mint.  *)
(***************************************************************************)
Triggered(m, h) == TpOrders(m, h) \cup SlOrders(m, h) \cup ExitOrders(m, h)

MonDecide(m) ==
  /\ monPc = "tick"
  /\ m \in monTodo
  /\ ~Passed(monSnap[m])
  /\ Priced(monSnap[m])
  /\ \E o \in Triggered(m, monSnap[m]) : monOrder' = o
  /\ monPc' = "queue"
  /\ UNCHANGED <<monSnap, monTodo, sellQueue, execVars, mainVars, valVars,
                 positions, disk, behind, wallet>>

MonQueue ==
  /\ monPc = "queue"
  /\ Len(sellQueue) < SellCap
  /\ sellQueue' = Append(sellQueue, monOrder)
  /\ monPc' = "mark"
  /\ UNCHANGED <<monSnap, monTodo, monOrder, execVars, mainVars, valVars,
                 positions, disk, behind, wallet>>

MonMark ==
  /\ monPc = "mark"
  /\ SetPendingSell(monOrder.mint)
  /\ Looked(monOrder.mint)
  /\ monPc' = "tick"
  /\ monOrder' = NoOrder
  /\ UNCHANGED <<monSnap, sellQueue, execVars, mainVars, valVars, disk, behind, wallet>>

MonTickDone ==
  /\ monPc = "tick"
  /\ monTodo = {}
  /\ monPc' = "idle"
  /\ monSnap' = [m \in Mints |-> NoHolding]
  /\ UNCHANGED <<monTodo, monOrder, sellQueue, execVars, mainVars, valVars,
                 positions, disk, behind, wallet>>

-----------------------------------------------------------------------------
(* The validations.  Each reads the balance and, one await later, removes  *)
(* the entry that the map has by then.                                     *)

RevalStart ==
  /\ monPc = "idle"
  /\ HeldIn(positions) # {}
  /\ monPc' = "revalidate"
  /\ valOn' = valOn \cup {"periodic"}
  /\ valTodo' = [valTodo EXCEPT !["periodic"] =
                   {m \in HeldIn(positions) : ~positions[m].pending}]
  /\ UNCHANGED <<monSnap, monTodo, monOrder, sellQueue, execVars, mainVars,
                 valMint, positions, disk, behind, wallet>>

(***************************************************************************)
(* The balance is not zero, or the RPC node could not tell: keep it.       *)
(***************************************************************************)
ValKeep(v, m) ==
  /\ m \in valTodo[v]
  /\ valMint[v] = NoMint
  /\ valTodo' = [valTodo EXCEPT ![v] = @ \ {m}]
  /\ UNCHANGED <<monVars, sellQueue, execVars, mainVars, valOn, valMint,
                 positions, disk, behind, wallet>>

ValFindsNone(v, m) ==
  /\ m \in valTodo[v]
  /\ valMint[v] = NoMint
  /\ wallet[m] = 0
  /\ valTodo' = [valTodo EXCEPT ![v] = @ \ {m}]
  /\ valMint' = [valMint EXCEPT ![v] = m]
  /\ UNCHANGED <<monVars, sellQueue, execVars, mainVars, valOn,
                 positions, disk, behind, wallet>>

ValRemove(v) ==
  /\ valMint[v] # NoMint
  /\ RemoveEntry(valMint[v])
  /\ valMint' = [valMint EXCEPT ![v] = NoMint]
  /\ UNCHANGED <<monVars, sellQueue, execVars, mainVars, valOn, valTodo,
                 disk, behind, wallet>>

ValDone(v) ==
  /\ v \in valOn
  /\ valTodo[v] = {}
  /\ valMint[v] = NoMint
  /\ valOn' = valOn \ {v}
  /\ monPc' = IF v = "periodic" THEN "idle" ELSE monPc
  /\ UNCHANGED <<monSnap, monTodo, monOrder, sellQueue, execVars, mainVars,
                 valTodo, valMint, positions, wallet>>
  /\ Persist

-----------------------------------------------------------------------------
(* The mirror-sell arm of the main loop.                                   *)

(***************************************************************************)
(* The target sold `share' percent of what it bought: sell that share of   *)
(* the holding, at least one token and at most all of them.  A target      *)
(* whose purchase is unknown counts as having sold everything.             *)
(***************************************************************************)
MirrorAmount(h, share) ==
  LET part == (h.amount * share) \div 100
      some == IF part > 1 THEN part ELSE 1
  IN  IF some < h.amount THEN some ELSE h.amount

MirrorDecide(m) ==
  /\ mirrorOrder = NoOrder
  /\ targetSells < MaxTargetSells
  /\ Held(m)
  /\ \E share \in SellShares :
       LET a == MirrorAmount(positions[m], share)
       IN  mirrorOrder' = [mint |-> m, amount |-> a, kind |-> "mirror",
                           level |-> 0, amm |-> positions[m].amm,
                           final |-> a >= positions[m].amount]
  /\ targetSells' = targetSells + 1
  /\ UNCHANGED <<monVars, sellQueue, execVars, valVars, positions, disk, behind, wallet>>

(***************************************************************************)
(* A mint that is not held (yet, or any more): the notification is gone.   *)
(***************************************************************************)
MirrorSkip(m) ==
  /\ mirrorOrder = NoOrder
  /\ targetSells < MaxTargetSells
  /\ ~Held(m)
  /\ targetSells' = targetSells + 1
  /\ UNCHANGED <<monVars, sellQueue, execVars, mirrorOrder, valVars,
                 positions, disk, behind, wallet>>

MirrorQueue ==
  /\ mirrorOrder # NoOrder
  /\ Len(sellQueue) < SellCap
  /\ sellQueue' = Append(sellQueue, mirrorOrder)
  /\ mirrorOrder' = NoOrder
  /\ UNCHANGED <<monVars, execVars, targetSells, valVars,
                 positions, disk, behind, wallet>>

-----------------------------------------------------------------------------
(* The sell executor.                                                      *)

ExecTake ==
  /\ execPc = "idle"
  /\ sellQueue # <<>>
  /\ Held(Head(sellQueue).mint)
  /\ execOrder' = Head(sellQueue)
  /\ execPc' = "selling"
  /\ sellQueue' = Tail(sellQueue)
  /\ UNCHANGED <<monVars, mainVars, valVars, positions, disk, behind, wallet>>

ExecSkipLeaves ==             \* mutant: the order stays at the head
  /\ execPc = "idle"
  /\ sellQueue # <<>>
  /\ ~Held(Head(sellQueue).mint)
  /\ UNCHANGED <<sellVars, positions, disk, behind, wallet>>

ExecSkip ==
  /\ execPc = "idle"
  /\ sellQueue # <<>>
  /\ ~Held(Head(sellQueue).mint)
  /\ sellQueue' = Tail(sellQueue)
  /\ UNCHANGED <<monVars, execVars, mainVars, valVars, positions, disk, behind, wallet>>

ExecIdles == execPc' = "idle" /\ execOrder' = NoOrder

SellMayFail ==
  execPc \in (IF RemoteFaults THEN {"selling", "settling"} ELSE {"selling"})

(***************************************************************************)
(* sell_token fails before its transaction left or, when a balance call    *)
(* fails, after it.                                                        *)
(***************************************************************************)
ExecFail ==
  /\ SellMayFail
  /\ ClearPendingSell(execOrder.mint)
  /\ ExecIdles
  /\ UNCHANGED <<monVars, sellQueue, mainVars, valVars, disk, behind, wallet>>

(***************************************************************************)
(* The dex of the holding routes a sell.  A PumpSwap or Raydium one that   *)
(* finds no pool, accounts or keypair, or whose send fails: the executor   *)
(* continues with the next order and touches no flag.                      *)
(***************************************************************************)
ExecAbandon ==
  /\ SellMayFail
  /\ execOrder.amm
  /\ ExecIdles
  /\ UNCHANGED <<monVars, sellQueue, mainVars, valVars,
                 positions, disk, behind, wallet>>

(***************************************************************************)
(* The sell can land: the wallet covers it, and the final sell of a curve  *)
(* token, which also closes the token account, leaves that account empty.  *)
(***************************************************************************)
CanLand(o) ==
  /\ o.amount <= wallet[o.mint]
  /\ o.final /\ ~o.amm => o.amount = wallet[o.mint]

ExecSend ==
  /\ execPc = "selling"
  /\ execPc' = "settling"
  /\ \/ /\ CanLand(execOrder)
        /\ wallet' = [wallet EXCEPT ![execOrder.mint] = @ - execOrder.amount]
     \/ /\ ~CanLand(execOrder) \/ RemoteFaults
        /\ UNCHANGED wallet
  /\ UNCHANGED <<monVars, sellQueue, execOrder, mainVars, valVars,
                 positions, disk, behind>>

(***************************************************************************)
(* The balance to sell from is zero, or no RPC node tells it and it counts *)
(* as zero: reported as a success, nothing sent.                           *)
(***************************************************************************)
ExecNothingToSell ==
  /\ execPc = "selling"
  /\ ~execOrder.amm
  /\ wallet[execOrder.mint] = 0 \/ RemoteFaults
  /\ UpdateAfterSell(execOrder)
  /\ ExecIdles
  /\ UNCHANGED <<monVars, sellQueue, mainVars, valVars, wallet>>

(***************************************************************************)
(* A sent sell is reported as executed whether or not the poll for its     *)
(* confirmation found it on the chain.                                     *)
(***************************************************************************)
ExecDone ==
  /\ execPc = "settling"
  /\ UpdateAfterSell(execOrder)
  /\ ExecIdles
  /\ UNCHANGED <<monVars, sellQueue, mainVars, valVars, wallet>>

-----------------------------------------------------------------------------
MonStep ==
  \/ MonTick
  \/ MonTickEmpty
  \/ \E m \in Mints : MonHold(m) \/ MonMigrated(m) \/ MonDecide(m)
  \/ MonQueue
  \/ MonMark
  \/ MonTickDone
  \/ RevalStart

ValStep ==
  \E v \in Validations :
    \/ \E m \in Mints : ValKeep(v, m) \/ ValFindsNone(v, m)
    \/ ValRemove(v)
    \/ ValDone(v)

MirrorStep ==
  \/ \E m \in Mints : MirrorDecide(m) \/ MirrorSkip(m)
  \/ MirrorQueue

ExecStep ==
  \/ ExecTake
  \/ ExecSkip
  \/ ExecFail
  \/ ExecAbandon
  \/ ExecSend
  \/ ExecNothingToSell
  \/ ExecDone

SellNext == MonStep \/ ValStep \/ MirrorStep \/ ExecStep
=============================================================================

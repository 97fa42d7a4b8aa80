------------------------------ MODULE BuyTasks ------------------------------
(***************************************************************************)
(* The buy tasks that main.rs spawns, one for each detected target buy     *)
(* that survives the signature dedup.  A task reserves its mint in         *)
(* pending_buys, decides whether to buy, sends the transaction, and        *)
(* registers what it bought in the position map; every await between two   *)
(* of these is a step boundary at which any other task may run.            *)
(***************************************************************************)
EXTENDS Positions

CONSTANTS
  Tasks,            \* detections, each handled by one spawned task
  MintOf,           \* the mint each detection names
  AmmTasks,         \* those the target made on Raydium or PumpSwap, not on the
                    \* curve; one mint may be bought on both
  BuyAmount,        \* tokens one buy transaction asks for
  MaxHoldedCoins,   \* settings.max_holded_coins
  AllowAccumulate,  \* settings.allow_accumulate
  ReadsBalance      \* buys go out through the Helius sender, which asks the
                    \* chain for the balance (the SWQoS sender does not)

ASSUME BuyTasksAssumption ==
  /\ MintOf \in [Tasks -> Mints]
  /\ AmmTasks \subseteq Tasks
  /\ BuyAmount \in Nat \ {0}
  /\ MaxHoldedCoins \in Nat
  /\ AllowAccumulate \in BOOLEAN
  /\ ReadsBalance \in BOOLEAN

VARIABLES
  phase,        \* where each task stands between two awaits
  already,      \* already_holding, as the task read it
  bought,       \* Holding.amount of the buy result
  tx,           \* the task's transaction, as the chain sees it
  pendingBuys   \* PositionMonitor.pending_buys

buyVars == <<phase, already, bought, tx, pendingBuys>>

Phases == {"idle", "spawned", "acquired", "counting", "screening", "sending",
           "awaiting", "registering", "persisting", "releasing", "done"}

TxStates == {"none", "sent", "landed", "dropped"}

(***************************************************************************)
(* The phases in which the mint is the task's own: from try_acquire_buy    *)
(* returning Acquired until release_buy has run.                           *)
(***************************************************************************)
SlotPhases == {"acquired", "counting", "screening", "sending", "awaiting",
               "registering", "persisting", "releasing"}

(***************************************************************************)
(* The phases in which a task still acts on the value it read in           *)
(* already_holding.                                                        *)
(***************************************************************************)
DecidedPhases == {"counting", "screening", "sending", "awaiting", "registering"}

GoTo(t, from, to) ==
  /\ phase[t] = from
  /\ phase' = [phase EXCEPT ![t] = to]

BuyInit ==
  /\ phase = [t \in Tasks |-> "idle"]
  /\ already = [t \in Tasks |-> FALSE]
  /\ bought = [t \in Tasks |-> 0]
  /\ tx = [t \in Tasks |-> "none"]
  /\ pendingBuys = {}

BuyTypeOK ==
  /\ phase \in [Tasks -> Phases]
  /\ already \in [Tasks -> BOOLEAN]
  /\ bought \in [Tasks -> Nat]
  /\ tx \in [Tasks -> TxStates]
  /\ pendingBuys \subseteq Mints

-----------------------------------------------------------------------------
(* The steps of a task.                                                    *)

Spawn(t) ==
  /\ GoTo(t, "idle", "spawned")
  /\ UNCHANGED <<already, bought, tx, pendingBuys, positions, disk, behind, wallet>>

AcquireHeldOnly(m) == Held(m) /\ ~AllowAccumulate    \* mutant: no Busy

(***************************************************************************)
(* try_acquire_buy: the position check and the reservation are one step,   *)
(* because the pending_buys mutex is held across both.                     *)
(***************************************************************************)
AcquireRefused(m) == \/ Held(m) /\ ~AllowAccumulate     \* AlreadyHolding
                     \/ m \in pendingBuys               \* Busy

AcquireSkip(t) ==
  /\ AcquireRefused(MintOf[t])
  /\ GoTo(t, "spawned", "done")
  /\ UNCHANGED <<already, bought, tx, pendingBuys, positions, disk, behind, wallet>>

AcquireWinUnchecked(t) ==    \* mutant: the result of insert is ignored
  /\ ~(Held(MintOf[t]) /\ ~AllowAccumulate)
  /\ GoTo(t, "spawned", "acquired")
  /\ pendingBuys' = pendingBuys \cup {MintOf[t]}
  /\ UNCHANGED <<already, bought, tx, positions, disk, behind, wallet>>

AcquireWin(t) ==
  /\ ~AcquireRefused(MintOf[t])
  /\ GoTo(t, "spawned", "acquired")
  /\ pendingBuys' = pendingBuys \cup {MintOf[t]}
  /\ UNCHANGED <<already, bought, tx, positions, disk, behind, wallet>>

ReadHolding(t) ==
  /\ already' = [already EXCEPT ![t] = Held(MintOf[t])]
  /\ GoTo(t, "acquired", IF Held(MintOf[t]) THEN "screening" ELSE "counting")
  /\ UNCHANGED <<bought, tx, pendingBuys, positions, disk, behind, wallet>>

CheckCount(t) ==
  /\ GoTo(t, "counting",
          IF Cardinality(HeldIn(positions)) >= MaxHoldedCoins
          THEN "releasing" ELSE "screening")
  /\ UNCHANGED <<already, bought, tx, pendingBuys, positions, disk, behind, wallet>>

ScreenLeaks(t) ==            \* mutant: a skip that forgets the slot
  /\ \/ GoTo(t, "screening", "sending")
     \/ GoTo(t, "screening", "done")
  /\ UNCHANGED <<already, bought, tx, pendingBuys, positions, disk, behind, wallet>>

(***************************************************************************)
(* The safety screen, the unsupported-DEX check and the checks for a pool, *)
(* the target's accounts and a keypair all end in a skip or in the send.   *)
(***************************************************************************)
Screen(t) ==
  /\ \/ GoTo(t, "screening", "sending")
     \/ GoTo(t, "screening", "releasing")
  /\ UNCHANGED <<already, bought, tx, pendingBuys, positions, disk, behind, wallet>>

SendFails(t) ==
  /\ GoTo(t, "sending", "releasing")
  /\ UNCHANGED <<already, bought, tx, pendingBuys, positions, disk, behind, wallet>>

SendTxReleases(t) ==         \* mutant: the slot is given back at the send
  /\ GoTo(t, "sending", "awaiting")
  /\ tx' = [tx EXCEPT ![t] = "sent"]
  /\ pendingBuys' = pendingBuys \ {MintOf[t]}
  /\ UNCHANGED <<already, bought, positions, disk, behind, wallet>>

SendTx(t) ==
  /\ GoTo(t, "sending", "awaiting")
  /\ tx' = [tx EXCEPT ![t] = "sent"]
  /\ UNCHANGED <<already, bought, pendingBuys, positions, disk, behind, wallet>>

(***************************************************************************)
(* The tokens a successful buy reports.  An AMM branch reports none; a     *)
(* curve buy reports its estimate, or the balance of the whole token       *)
(* account when it could read it after the confirmation.                   *)
(***************************************************************************)
Reports(t) ==
  IF t \in AmmTasks
  THEN {0}
  ELSE {BuyAmount} \cup
       {b \in {wallet[MintOf[t]]} : ReadsBalance /\ tx[t] = "landed" /\ b > 0}

BuyReturns(t) ==
  /\ GoTo(t, "awaiting", "registering")
  /\ \E b \in Reports(t) : bought' = [bought EXCEPT ![t] = b]
  /\ UNCHANGED <<already, tx, pendingBuys, positions, disk, behind, wallet>>

(***************************************************************************)
(* An error after the transaction left: no provider answered, the answer   *)
(* did not parse, a later balance call failed.                             *)
(***************************************************************************)
BuyErrs(t) ==
  /\ GoTo(t, "awaiting", "releasing")
  /\ UNCHANGED <<already, bought, tx, pendingBuys, positions, disk, behind, wallet>>

RegisterNew(t) ==
  /\ ~already[t]
  /\ GoTo(t, "registering", "persisting")
  /\ AddPosition(MintOf[t], NewHolding(bought[t], t \in AmmTasks))
  /\ UNCHANGED <<already, bought, tx, pendingBuys, disk, behind, wallet>>

RegisterMore(t) ==
  /\ already[t]
  /\ GoTo(t, "registering", "releasing")
  /\ AccumulatePosition(MintOf[t], bought[t])
  /\ UNCHANGED <<already, bought, tx, pendingBuys, wallet>>

PersistNew(t) ==
  /\ GoTo(t, "persisting", "releasing")
  /\ UNCHANGED <<already, bought, tx, pendingBuys, positions, wallet>>
  /\ Persist

(***************************************************************************)
(* The drop guard has spawned release_buy; it runs some time later.        *)
(***************************************************************************)
Release(t) ==
  /\ GoTo(t, "releasing", "done")
  /\ pendingBuys' = pendingBuys \ {MintOf[t]}
  /\ UNCHANGED <<already, bought, tx, positions, disk, behind, wallet>>

-----------------------------------------------------------------------------
(* The chain decides about a transaction whenever it likes, whether or not *)
(* the task is still waiting for it.                                       *)

Land(t) ==
  /\ tx[t] = "sent"
  /\ tx' = [tx EXCEPT ![t] = "landed"]
  /\ wallet' = [wallet EXCEPT ![MintOf[t]] = @ + BuyAmount]
  /\ UNCHANGED <<phase, already, bought, pendingBuys, positions, disk, behind>>

Drop(t) ==
  /\ tx[t] = "sent"
  /\ tx' = [tx EXCEPT ![t] = "dropped"]
  /\ UNCHANGED <<phase, already, bought, pendingBuys, positions, disk, behind, wallet>>

(***************************************************************************)
(* The steps a task makes once it has been spawned.                        *)
(***************************************************************************)
TaskStep(t) ==
  \/ AcquireSkip(t)
  \/ AcquireWin(t)
  \/ ReadHolding(t)
  \/ CheckCount(t)
  \/ Screen(t)
  \/ SendFails(t)
  \/ SendTx(t)
  \/ BuyReturns(t)
  \/ BuyErrs(t)
  \/ RegisterNew(t)
  \/ RegisterMore(t)
  \/ PersistNew(t)
  \/ Release(t)

ChainStep(t) == Land(t) \/ Drop(t)
=============================================================================

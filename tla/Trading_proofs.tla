--------------------------- MODULE Trading_proofs ---------------------------
(***************************************************************************)
(* What holds of positions, slots and file for every value of the          *)
(* constants: one buy per mint, the types, registrations that overwrite    *)
(* nothing, levels that stay triggered over restarts, a file that lags     *)
(* only where the code lets it, and AMM positions that are never marked;   *)
(* while orders come from the monitor alone, one order per mint that sells *)
(* no level twice and no more than its position holds; and positions that  *)
(* the wallet backs wherever nothing the bot cannot see has happened.      *)
(***************************************************************************)
EXTENDS Trading, FiniteSetTheorems, TLAPS

(***************************************************************************)
(* What the slot argument needs: every task in a slot phase has its mint   *)
(* reserved, and no other task is in a slot phase of that mint.            *)
(***************************************************************************)
SlotInv ==
  /\ phase \in [Tasks -> Phases]
  /\ \A t \in Tasks : phase[t] \in SlotPhases => MintOf[t] \in pendingBuys
  /\ BuyExclusion

LEMMA SlotInvInit == Init => SlotInv
  BY BuyTasksAssumption
  DEF Init, BuyInit, SlotInv, Phases, SlotPhases, BuyExclusion

LEMMA SellKeepsBuy == SellNext /\ UNCHANGED <<buyVars, crashes>> => UNCHANGED buyVars
  OBVIOUS

LEMMA SlotInvNext == SlotInv /\ [Next]_vars => SlotInv'
<1> SUFFICES ASSUME SlotInv, [Next]_vars PROVE SlotInv'
  OBVIOUS
<1> USE BuyTasksAssumption DEF SlotInv, BuyExclusion, Phases, SlotPhases
<1>1. CASE UNCHANGED buyVars
  BY <1>1 DEF buyVars
<1>2. CASE Crash
  BY <1>2 DEF Crash
<1>3. ASSUME NEW t \in Tasks, Dispatch(t) \/ TaskStep(t) \/ ChainStep(t)
      PROVE  SlotInv'
  <2> USE DEF GoTo
  <2>1. CASE Dispatch(t)
    BY <2>1 DEF Dispatch, Spawn
  <2>2. CASE AcquireSkip(t)
    BY <2>2 DEF AcquireSkip
  <2>3. CASE AcquireWin(t)
    BY <2>3 DEF AcquireWin, AcquireRefused
  <2>4. CASE ReadHolding(t)
    BY <2>4 DEF ReadHolding
  <2>5. CASE CheckCount(t)
    BY <2>5 DEF CheckCount
  <2>6. CASE Screen(t)
    BY <2>6 DEF Screen
  <2>7. CASE SendFails(t) \/ SendTx(t) \/ BuyReturns(t) \/ BuyErrs(t)
    BY <2>7 DEF SendFails, SendTx, BuyReturns, BuyErrs
  <2>8. CASE RegisterNew(t) \/ RegisterMore(t) \/ PersistNew(t)
    BY <2>8 DEF RegisterNew, RegisterMore, PersistNew
  <2>9. CASE Release(t)
    BY <2>9 DEF Release
  <2>10. CASE ChainStep(t)
    BY <2>10 DEF ChainStep, Land, Drop
  <2> QED
    BY <1>3, <2>1, <2>2, <2>3, <2>4, <2>5, <2>6, <2>7, <2>8, <2>9, <2>10
    DEF TaskStep
<1> QED
  BY <1>1, <1>2, <1>3 DEF Next, BuyStep, SellStep, vars

(***************************************************************************)
(* Two tasks never work on the same mint at once, for any number of tasks, *)
(* mints and crashes: the guard of try_acquire_buy and release_buy.        *)
(***************************************************************************)
THEOREM BuyExclusionHolds == Spec => []BuyExclusion
<1>1. SlotInv => BuyExclusion
  BY DEF SlotInv
<1> QED
  BY SlotInvInit, SlotInvNext, <1>1, PTL DEF Spec

(***************************************************************************)
(* "otherwise the mint stays blocked forever": every reserved mint has a   *)
(* task on its way to release_buy, whichever way a buy ends, and a restart *)
(* finds none reserved.  SlotFreed adds that the task gets there.          *)
(***************************************************************************)
NoneOrphaned ==
  pendingBuys = {MintOf[t] : t \in {u \in Tasks : phase[u] \in SlotPhases}}

THEOREM SlotsHaveOwners == Spec => []NoneOrphaned
<1> DEFINE Owned == \A m \in pendingBuys :
                      \E t \in Tasks : MintOf[t] = m /\ phase[t] \in SlotPhases
<1>1. Init => Owned
  BY DEF Init, BuyInit
<1>2. SlotInv /\ Owned /\ [Next]_vars => Owned'
  <2> SUFFICES ASSUME SlotInv, Owned, [Next]_vars PROVE Owned'
    OBVIOUS
  <2>1. CASE UNCHANGED buyVars
    BY <2>1 DEF buyVars
  <2>2. CASE Crash
    BY <2>2 DEF Crash
  <2>3. ASSUME NEW t \in Tasks, Dispatch(t) \/ TaskStep(t) \/ ChainStep(t)
        PROVE  Owned'
    <3>1. CASE AcquireWin(t)
      <4>1. /\ pendingBuys' = pendingBuys \cup {MintOf[t]}
            /\ phase' = [phase EXCEPT ![t] = "acquired"]
            /\ phase[t] = "spawned"
        BY <3>1 DEF AcquireWin, GoTo
      <4> QED BY <4>1 DEF SlotInv, SlotPhases
    <3>2. CASE Release(t)
      <4>1. /\ pendingBuys' = pendingBuys \ {MintOf[t]}
            /\ \A u \in Tasks : u # t => phase'[u] = phase[u]
        BY <3>2 DEF Release, GoTo
      <4> QED BY <4>1
    <3>3. ASSUME pendingBuys' = pendingBuys,
                 \A u \in Tasks : phase[u] \in SlotPhases => phase'[u] \in SlotPhases
          PROVE  Owned'
      BY <3>3
    <3>4. CASE Dispatch(t) \/ AcquireSkip(t)
      BY <3>3, <3>4 DEF Dispatch, Spawn, AcquireSkip, GoTo, SlotInv, SlotPhases
    <3>5. CASE ReadHolding(t) \/ CheckCount(t) \/ Screen(t)
      BY <3>3, <3>5 DEF ReadHolding, CheckCount, Screen, GoTo, SlotInv, SlotPhases
    <3>6. CASE SendFails(t) \/ SendTx(t) \/ BuyReturns(t) \/ BuyErrs(t)
      BY <3>3, <3>6 DEF SendFails, SendTx, BuyReturns, BuyErrs, GoTo, SlotInv, SlotPhases
    <3>7. CASE RegisterNew(t) \/ RegisterMore(t) \/ PersistNew(t)
      BY <3>3, <3>7 DEF RegisterNew, RegisterMore, PersistNew, GoTo, SlotInv, SlotPhases
    <3>8. CASE ChainStep(t)
      BY <3>3, <3>8 DEF ChainStep, Land, Drop
    <3> QED BY <2>3, <3>1, <3>2, <3>4, <3>5, <3>6, <3>7, <3>8 DEF TaskStep
  <2> QED BY <2>1, <2>2, <2>3 DEF Next, BuyStep, SellStep, vars
<1>3. SlotInv /\ Owned => NoneOrphaned
  BY DEF SlotInv, NoneOrphaned
<1> QED BY SlotInvInit, SlotInvNext, <1>1, <1>2, <1>3, PTL DEF Spec

-----------------------------------------------------------------------------
(* Types.                                                                  *)

LEMMA NewHoldingType ==
  ASSUME NEW a \in Nat, NEW t
  PROVE  /\ NewHolding(a, t \in AmmTasks) \in Holding
         /\ NewHolding(a, t \in AmmTasks).amount = a
<1>1. (t \in AmmTasks) \in BOOLEAN
  OBVIOUS
<1>2. ASSUME NEW onAmm \in BOOLEAN
      PROVE  NewHolding(a, onAmm) \in Holding /\ NewHolding(a, onAmm).amount = a
  BY DEF NewHolding, Holding
<1> QED BY <1>1, <1>2, Zenon

LEMMA AccumulatedType ==
  ASSUME NEW h \in Holding, NEW a \in Nat
  PROVE  Accumulated(h, a) \in Holding
<1>1. h.amount + a \in Nat
  BY DEF Holding
<1> QED
  BY <1>1 DEF Accumulated, Holding

LEMMA AfterSellType ==
  ASSUME NEW h \in Holding, NEW o \in Order
  PROVE  AfterSell(h, o) \in Holding
<1>1. SaturatingSub(h.amount, o.amount) \in Nat
  BY DEF SaturatingSub, Holding, Order, OrderRecord
<1>2. /\ o.kind = "tp" => o.level \in TpLevels
      /\ o.kind = "sl" => o.level \in SlLevels
  BY DEF Order
<1> QED
  BY <1>1, <1>2 DEF AfterSell, Holding

(***************************************************************************)
(* A whole percentage of an amount is an amount.                           *)
(***************************************************************************)
LEMMA ShareType ==
  ASSUME NEW p \in Nat, NEW a \in Nat
  PROVE  (p * a) \div 100 \in Nat
<1>1. p * a \in Nat
  OBVIOUS
<1> QED
  BY <1>1

LEMMA LevelAmountType ==
  ASSUME NEW h \in Holding, NEW p \in 1 .. 100
  PROVE  /\ LevelAmount(h, p) \in Nat
         /\ LevelAmount(h, p) <= h.amount
<1>1. h.original \in Nat /\ h.amount \in Nat
  BY DEF Holding
<1>2. (p * h.original) \div 100 \in Nat
  BY <1>1, ShareType
<1> QED
  BY <1>1, <1>2 DEF LevelAmount

LEMMA TriggeredType ==
  ASSUME NEW m \in Mints, NEW h \in Holding, NEW o \in Triggered(m, h)
  PROVE  o \in Order
<1>1. CASE o \in TpOrders(m, h)
  <2>1. PICK i \in TpLevels : o = LevelOrder(m, h, "tp", i, TpPercent[i])
    BY <1>1 DEF TpOrders
  <2>2. LevelAmount(h, TpPercent[i]) \in Nat /\ h.amm \in BOOLEAN
    BY LevelAmountType, PositionsAssumption DEF Holding
  <2> QED
    BY <2>1, <2>2 DEF LevelOrder, Order, OrderRecord, Kinds
<1>2. CASE o \in SlOrders(m, h)
  <2>1. PICK i \in SlLevels : o = LevelOrder(m, h, "sl", i, SlPercent[i])
    BY <1>2 DEF SlOrders
  <2>2. LevelAmount(h, SlPercent[i]) \in Nat /\ h.amm \in BOOLEAN
    BY LevelAmountType, PositionsAssumption DEF Holding
  <2> QED
    BY <2>1, <2>2 DEF LevelOrder, Order, OrderRecord, Kinds
<1>3. CASE o \in ExitOrders(m, h)
  <2>1. h.amount \in Nat /\ h.amm \in BOOLEAN
    BY DEF Holding
  <2>2. o = [mint |-> m, amount |-> h.amount, kind |-> "exit", level |-> 0,
             amm |-> h.amm, final |-> TRUE]
    BY <1>3 DEF ExitOrders
  <2> QED
    BY <2>1, <2>2 DEF Order, OrderRecord, Kinds
<1> QED
  BY <1>1, <1>2, <1>3 DEF Triggered

LEMMA MirrorAmountType ==
  ASSUME NEW h \in Holding, NEW s \in SellShares
  PROVE  MirrorAmount(h, s) \in Nat
<1>1. h.amount \in Nat /\ s \in Nat
  BY SellSideAssumption DEF Holding
<1>2. (h.amount * s) \div 100 \in Nat
  BY <1>1, ShareType
<1> QED
  BY <1>1, <1>2 DEF MirrorAmount

LEMMA TypeInit == Init => TypeOK
<1> SUFFICES ASSUME Init PROVE TypeOK
  OBVIOUS
<1>1. PositionsTypeOK
  BY DEF Init, PositionsInit, PositionsTypeOK, Positions
<1>2. BuyTypeOK
  BY DEF Init, BuyInit, BuyTypeOK, Phases, TxStates
<1>3. SellTypeOK
  BY SellSideAssumption
  DEF Init, SellInit, SellTypeOK, Positions, HeldIn, MonPhases, ExecPhases
<1> QED
  BY <1>1, <1>2, <1>3, TradingAssumption DEF Init, TypeOK

LEMMA BuyStepType == TypeOK /\ BuyStep => TypeOK'
<1> SUFFICES ASSUME TypeOK, UNCHANGED <<sellVars, crashes>>,
                    NEW t \in Tasks, Dispatch(t) \/ TaskStep(t) \/ ChainStep(t)
             PROVE  TypeOK'
  BY DEF BuyStep
<1>1. SellTypeOK' /\ (crashes \in 0 .. MaxCrashes)'
  BY DEF TypeOK, SellTypeOK, sellVars
<1>2. MintOf[t] \in Mints /\ BuyAmount \in Nat
  BY BuyTasksAssumption
<1>3. PositionsTypeOK' /\ BuyTypeOK'
  <2> USE <1>2 DEF TypeOK, PositionsTypeOK, BuyTypeOK, GoTo, Phases, TxStates
  <2>1. CASE Dispatch(t)
    BY <2>1 DEF Dispatch, Spawn
  <2>2. CASE AcquireSkip(t)
    BY <2>2 DEF AcquireSkip
  <2>3. CASE AcquireWin(t)
    BY <2>3 DEF AcquireWin
  <2>4. CASE ReadHolding(t)
    BY <2>4 DEF ReadHolding, Held
  <2>5. CASE CheckCount(t)
    BY <2>5 DEF CheckCount
  <2>6. CASE Screen(t)
    BY <2>6 DEF Screen
  <2>7. CASE SendFails(t) \/ SendTx(t) \/ BuyErrs(t)
    BY <2>7 DEF SendFails, SendTx, BuyErrs
  <2>8. CASE BuyReturns(t)
    <3>1. \A b \in Reports(t) : b \in Nat
      BY DEF Reports
    <3> QED
      BY <2>8, <3>1 DEF BuyReturns
  <2>9. CASE RegisterNew(t)
    <3>1. NewHolding(bought[t], t \in AmmTasks) \in Holding
      <4>1. bought[t] \in Nat
        OBVIOUS
      <4> QED BY <4>1, NewHoldingType
    <3> QED
      BY <2>9, <3>1 DEF RegisterNew, AddPosition, Positions
  <2>10. CASE RegisterMore(t)
    <3>1. Held(MintOf[t]) => Accumulated(positions[MintOf[t]], bought[t]) \in Holding
      BY AccumulatedType DEF Positions, Held
    <3> QED
      BY <2>10, <3>1 DEF RegisterMore, AccumulatePosition, Persist, Positions
  <2>11. CASE PersistNew(t)
    BY <2>11 DEF PersistNew, Persist
  <2>12. CASE Release(t)
    BY <2>12 DEF Release
  <2>13. CASE Land(t)
    BY <2>13 DEF Land
  <2>14. CASE Drop(t)
    BY <2>14 DEF Drop
  <2> QED
    BY <2>1, <2>2, <2>3, <2>4, <2>5, <2>6, <2>7, <2>8, <2>9, <2>10, <2>11,
       <2>12, <2>13, <2>14 DEF TaskStep, ChainStep
<1> QED
  BY <1>1, <1>3 DEF TypeOK

LEMMA SetPendingFlagType ==
  ASSUME positions \in Positions, NEW m \in Mints, NEW flag \in BOOLEAN,
         SetPendingFlag(m, flag)
  PROVE  positions' \in Positions
<1>1. Held(m) => [positions[m] EXCEPT !.pending = flag] \in Holding
  BY DEF Held, Positions, Holding
<1> QED
  BY <1>1 DEF SetPendingFlag, Positions

LEMMA MarkMigratedType ==
  ASSUME positions \in Positions, NEW m \in Mints, MarkMigrated(m)
  PROVE  positions' \in Positions
<1>1. Held(m) => [positions[m] EXCEPT !.migrated = TRUE] \in Holding
  BY DEF Held, Positions, Holding
<1> QED
  BY <1>1 DEF MarkMigrated, Positions

LEMMA UpdateAfterSellType ==
  ASSUME positions \in Positions, disk \in Positions, NEW o \in Order,
         UpdateAfterSell(o)
  PROVE  positions' \in Positions /\ disk' \in Positions /\ behind' \in BOOLEAN
<1>1. o.mint \in Mints
  BY DEF Order, OrderRecord
<1>2. Held(o.mint) => AfterSell(positions[o.mint], o) \in Holding
  BY <1>1, AfterSellType DEF Held, Positions
<1> QED
  BY <1>1, <1>2 DEF UpdateAfterSell, Persist, Positions

LEMMA MonStepType == TypeOK /\ MonStep /\ UNCHANGED <<buyVars, crashes>> => TypeOK'
<1> SUFFICES ASSUME TypeOK, MonStep, UNCHANGED <<buyVars, crashes>>
             PROVE  TypeOK'
  OBVIOUS
<1>1. BuyTypeOK' /\ (crashes \in 0 .. MaxCrashes)'
  BY DEF TypeOK, BuyTypeOK, buyVars
<1>2. PositionsTypeOK' /\ SellTypeOK'
  <2> USE DEF TypeOK, PositionsTypeOK, SellTypeOK, MonPhases, execVars, mainVars, valVars
  <2>1. CASE MonTick
    BY <2>1 DEF MonTick, HeldIn
  <2>2. CASE MonTickEmpty
    BY <2>2 DEF MonTickEmpty, sellVars
  <2>3. ASSUME NEW m \in Mints, MonHold(m) PROVE PositionsTypeOK' /\ SellTypeOK'
    BY <2>3 DEF MonHold, Looked, HeldIn
  <2>4. ASSUME NEW m \in Mints, MonMigrated(m) PROVE PositionsTypeOK' /\ SellTypeOK'
    <3>1. positions' \in Positions
      BY <2>4, MarkMigratedType DEF MonMigrated
    <3> QED
      BY <2>4, <3>1 DEF MonMigrated, Looked, HeldIn
  <2>5. ASSUME NEW m \in Mints, MonDecide(m) PROVE PositionsTypeOK' /\ SellTypeOK'
    <3>1. monSnap[m] \in Holding
      BY <2>5 DEF MonDecide, HeldIn, Positions
    <3>2. monOrder' \in Order
      BY <2>5, <3>1, TriggeredType DEF MonDecide
    <3> QED
      BY <2>5, <3>2 DEF MonDecide, HeldIn
  <2>6. CASE MonQueue
    <3>1. monOrder \in Order
      BY <2>6 DEF MonQueue
    <3>2. /\ Append(sellQueue, monOrder) \in Seq(Order)
          /\ Len(Append(sellQueue, monOrder)) = Len(sellQueue) + 1
      BY <3>1
    <3>3. Len(sellQueue) + 1 <= SellCap
      BY <2>6, SellSideAssumption DEF MonQueue
    <3> QED
      BY <2>6, <3>1, <3>2, <3>3 DEF MonQueue, HeldIn
  <2>7. CASE MonMark
    <3>1. monOrder.mint \in Mints
      BY <2>7 DEF MonMark, Order, OrderRecord
    <3>2. positions' \in Positions
      BY <2>7, <3>1, SetPendingFlagType DEF MonMark, SetPendingSell
    <3> QED
      BY <2>7, <3>2 DEF MonMark, Looked, HeldIn
  <2>8. CASE MonTickDone
    BY <2>8 DEF MonTickDone, HeldIn, Positions
  <2>9. CASE RevalStart
    BY <2>9 DEF RevalStart, HeldIn, Validations
  <2> QED
    BY <2>1, <2>2, <2>3, <2>4, <2>5, <2>6, <2>7, <2>8, <2>9 DEF MonStep
<1> QED
  BY <1>1, <1>2 DEF TypeOK

LEMMA ValStepType == TypeOK /\ ValStep /\ UNCHANGED <<buyVars, crashes>> => TypeOK'
<1> SUFFICES ASSUME TypeOK, UNCHANGED <<buyVars, crashes>>,
                    NEW v \in Validations,
                    \/ \E m \in Mints : ValKeep(v, m) \/ ValFindsNone(v, m)
                    \/ ValRemove(v)
                    \/ ValDone(v)
             PROVE  TypeOK'
  BY DEF ValStep
<1>1. BuyTypeOK' /\ (crashes \in 0 .. MaxCrashes)'
  BY DEF TypeOK, BuyTypeOK, buyVars
<1>2. PositionsTypeOK' /\ SellTypeOK'
  <2> USE DEF TypeOK, PositionsTypeOK, SellTypeOK, MonPhases, monVars, execVars,
              mainVars, HeldIn
  <2>1. ASSUME NEW m \in Mints, ValKeep(v, m) PROVE PositionsTypeOK' /\ SellTypeOK'
    BY <2>1 DEF ValKeep
  <2>2. ASSUME NEW m \in Mints, ValFindsNone(v, m) PROVE PositionsTypeOK' /\ SellTypeOK'
    BY <2>2 DEF ValFindsNone
  <2>3. CASE ValRemove(v)
    <3>1. positions' \in Positions
      BY <2>3 DEF ValRemove, RemoveEntry, Positions
    <3> QED
      BY <2>3, <3>1 DEF ValRemove
  <2>4. CASE ValDone(v)
    BY <2>4 DEF ValDone, Persist
  <2> QED
    BY <2>1, <2>2, <2>3, <2>4
<1> QED
  BY <1>1, <1>2 DEF TypeOK

LEMMA MirrorStepType == TypeOK /\ MirrorStep /\ UNCHANGED <<buyVars, crashes>> => TypeOK'
<1> SUFFICES ASSUME TypeOK, MirrorStep, UNCHANGED <<buyVars, crashes>>
             PROVE  TypeOK'
  OBVIOUS
<1>1. BuyTypeOK' /\ (crashes \in 0 .. MaxCrashes)'
  BY DEF TypeOK, BuyTypeOK, buyVars
<1>2. PositionsTypeOK' /\ SellTypeOK'
  <2> USE SellSideAssumption
      DEF TypeOK, PositionsTypeOK, SellTypeOK, monVars, execVars, valVars, HeldIn
  <2>1. ASSUME NEW m \in Mints, MirrorDecide(m) PROVE PositionsTypeOK' /\ SellTypeOK'
    <3>1. positions[m] \in Holding
      BY <2>1 DEF MirrorDecide, Held, Positions
    <3>2. PICK s \in SellShares :
            mirrorOrder' = [mint |-> m, amount |-> MirrorAmount(positions[m], s),
                            kind |-> "mirror", level |-> 0,
                            amm |-> positions[m].amm,
                            final |-> MirrorAmount(positions[m], s) >= positions[m].amount]
      BY <2>1 DEF MirrorDecide
    <3>3. MirrorAmount(positions[m], s) \in Nat /\ positions[m].amm \in BOOLEAN
      BY <3>1, MirrorAmountType DEF Holding
    <3>4. mirrorOrder' \in Order
      BY <3>2, <3>3 DEF Order, OrderRecord, Kinds
    <3> QED
      BY <2>1, <3>4 DEF MirrorDecide
  <2>2. ASSUME NEW m \in Mints, MirrorSkip(m) PROVE PositionsTypeOK' /\ SellTypeOK'
    BY <2>2 DEF MirrorSkip
  <2>3. CASE MirrorQueue
    <3>1. mirrorOrder \in Order
      BY <2>3 DEF MirrorQueue
    <3>2. /\ Append(sellQueue, mirrorOrder) \in Seq(Order)
          /\ Len(Append(sellQueue, mirrorOrder)) = Len(sellQueue) + 1
      BY <3>1
    <3>3. Len(sellQueue) + 1 <= SellCap
      BY <2>3 DEF MirrorQueue
    <3> QED
      BY <2>3, <3>2, <3>3 DEF MirrorQueue
  <2> QED
    BY <2>1, <2>2, <2>3 DEF MirrorStep
<1> QED
  BY <1>1, <1>2 DEF TypeOK

LEMMA ExecStepType == TypeOK /\ ExecStep /\ UNCHANGED <<buyVars, crashes>> => TypeOK'
<1> SUFFICES ASSUME TypeOK, ExecStep, UNCHANGED <<buyVars, crashes>>
             PROVE  TypeOK'
  OBVIOUS
<1>1. BuyTypeOK' /\ (crashes \in 0 .. MaxCrashes)'
  BY DEF TypeOK, BuyTypeOK, buyVars
<1>2. PositionsTypeOK' /\ SellTypeOK'
  <2> USE DEF TypeOK, PositionsTypeOK, SellTypeOK, ExecPhases, monVars, mainVars,
              valVars, HeldIn
  <2>1. execPc # "idle" => execOrder.mint \in Mints /\ execOrder.amount \in Nat
    BY DEF Order, OrderRecord
  <2>2. ASSUME sellQueue # <<>>
        PROVE  /\ Head(sellQueue) \in Order
               /\ Tail(sellQueue) \in Seq(Order)
               /\ Len(Tail(sellQueue)) <= SellCap
    BY <2>2, SellSideAssumption
  <2>3. CASE ExecTake
    BY <2>2, <2>3 DEF ExecTake
  <2>4. CASE ExecSkip
    BY <2>2, <2>4 DEF ExecSkip, execVars
  <2>5. CASE ExecFail
    <3>1. execPc # "idle"
      BY <2>5 DEF ExecFail, SellMayFail
    <3>2. positions' \in Positions
      BY <2>1, <2>5, <3>1, SetPendingFlagType DEF ExecFail, ClearPendingSell
    <3> QED
      BY <2>5, <3>2 DEF ExecFail, ExecIdles
  <2>6. CASE ExecAbandon
    BY <2>6 DEF ExecAbandon, ExecIdles
  <2>7. CASE ExecSend
    <3>1. wallet' \in [Mints -> Nat]
      <4>1. CASE CanLand(execOrder) /\
                 wallet' = [wallet EXCEPT ![execOrder.mint] = @ - execOrder.amount]
        <5>1. wallet[execOrder.mint] - execOrder.amount \in Nat
          BY <2>1, <2>7, <4>1 DEF ExecSend, CanLand
        <5> QED
          BY <4>1, <5>1
      <4> QED
        BY <2>7, <4>1 DEF ExecSend
    <3> QED
      BY <2>7, <3>1 DEF ExecSend
  <2>8. CASE ExecNothingToSell
    <3>1. positions' \in Positions /\ disk' \in Positions /\ behind' \in BOOLEAN
      BY <2>8, UpdateAfterSellType DEF ExecNothingToSell
    <3> QED
      BY <2>8, <3>1 DEF ExecNothingToSell, ExecIdles
  <2>9. CASE ExecDone
    <3>1. positions' \in Positions /\ disk' \in Positions /\ behind' \in BOOLEAN
      BY <2>9, UpdateAfterSellType DEF ExecDone
    <3> QED
      BY <2>9, <3>1 DEF ExecDone, ExecIdles
  <2> QED
    BY <2>3, <2>4, <2>5, <2>6, <2>7, <2>8, <2>9 DEF ExecStep
<1> QED
  BY <1>1, <1>2 DEF TypeOK

LEMMA CrashType == TypeOK /\ Crash => TypeOK'
<1> SUFFICES ASSUME TypeOK, Crash PROVE TypeOK'
  OBVIOUS
<1> USE SellSideAssumption, TradingAssumption DEF TypeOK, Crash
<1>1. PositionsTypeOK'
  BY DEF PositionsTypeOK, Loaded, Positions
<1>2. BuyTypeOK'
  BY DEF BuyTypeOK, Phases
<1>3. SellTypeOK'
  BY DEF SellTypeOK, PositionsTypeOK, Positions, HeldIn, MonPhases, ExecPhases,
         Validations
<1>4. (crashes \in 0 .. MaxCrashes)'
  OBVIOUS
<1> QED
  BY <1>1, <1>2, <1>3, <1>4

LEMMA TypeNext == TypeOK /\ [Next]_vars => TypeOK'
<1> SUFFICES ASSUME TypeOK, [Next]_vars PROVE TypeOK'
  OBVIOUS
<1>1. CASE UNCHANGED vars
  BY <1>1 DEF TypeOK, PositionsTypeOK, BuyTypeOK, SellTypeOK, vars, buyVars, sellVars
<1>2. CASE SellStep
  BY <1>2, MonStepType, ValStepType, MirrorStepType, ExecStepType
  DEF SellStep, SellNext
<1> QED
  BY <1>1, <1>2, BuyStepType, CrashType DEF Next

(***************************************************************************)
(* Every variable keeps its type for all values of the constants: no       *)
(* amount becomes negative, whichever sells overlap, and the sell channel  *)
(* never holds more than its capacity.                                     *)
(***************************************************************************)
THEOREM TypeCorrect == Spec => []TypeOK
  BY TypeInit, TypeNext, PTL DEF Spec

-----------------------------------------------------------------------------
(* Selling only ever shrinks.                                              *)

(***************************************************************************)
(* Every step of the sell side leaves a mint without an entry without one, *)
(* and of an entry it keeps the triggered levels.                          *)
(***************************************************************************)
Shrunk(m) ==
  Held(m)' => /\ Held(m)
              /\ positions[m].tp \subseteq positions'[m].tp
              /\ positions[m].sl \subseteq positions'[m].sl

LEMMA FlagShrinks ==
  ASSUME positions \in Positions, NEW m \in Mints, NEW flag \in BOOLEAN,
         SetPendingFlag(m, flag)
  PROVE  \A n \in Mints : Shrunk(n)
BY DEF SetPendingFlag, Shrunk, Held, Positions, Holding

LEMMA MigrationShrinks ==
  ASSUME positions \in Positions, NEW m \in Mints, MarkMigrated(m)
  PROVE  \A n \in Mints : Shrunk(n)
BY DEF MarkMigrated, Shrunk, Held, Positions, Holding

LEMMA RemovalShrinks ==
  ASSUME positions \in Positions, NEW m \in Mints, RemoveEntry(m)
  PROVE  \A n \in Mints : Shrunk(n)
BY DEF RemoveEntry, Shrunk, Held, Positions

LEMMA SaleShrinks ==
  ASSUME positions \in Positions, NEW o \in Order, UpdateAfterSell(o)
  PROVE  \A n \in Mints : Shrunk(n)
<1> DEFINE left == AfterSell(positions[o.mint], o)
<1>1. o.mint \in Mints
  BY DEF Order, OrderRecord
<1>2. ASSUME Held(o.mint)
      PROVE  /\ positions[o.mint].tp \subseteq left.tp
             /\ positions[o.mint].sl \subseteq left.sl
  <2>1. positions[o.mint] \in Holding
    BY <1>1, <1>2 DEF Held, Positions
  <2> QED
    BY <2>1 DEF AfterSell, Holding
<1>3. positions' = [positions EXCEPT ![o.mint] =
                      IF Held(o.mint) /\ left.amount > 0 THEN left ELSE NoHolding]
  BY DEF UpdateAfterSell
<1> HIDE DEF left
<1> QED
  BY <1>1, <1>2, <1>3 DEF Shrunk, Held, Positions

LEMMA SellShrinks ==
  ASSUME TypeOK, SellNext
  PROVE  \A n \in Mints : Shrunk(n)
<1> USE DEF TypeOK, PositionsTypeOK, SellTypeOK
<1>1. ASSUME UNCHANGED positions PROVE \A n \in Mints : Shrunk(n)
  BY <1>1 DEF Shrunk, Held
<1>2. CASE MonStep
  <2>1. ASSUME NEW m \in Mints, MonHold(m) \/ MonMigrated(m) \/ MonDecide(m)
        PROVE  \A n \in Mints : Shrunk(n)
    BY <1>1, <2>1, MigrationShrinks DEF MonHold, MonMigrated, MonDecide
  <2>2. CASE MonMark
    <3>1. monOrder.mint \in Mints
      BY <2>2 DEF MonMark, Order, OrderRecord
    <3> QED
      BY <2>2, <3>1, FlagShrinks DEF MonMark, SetPendingSell
  <2>3. CASE MonTick \/ MonTickEmpty \/ MonQueue \/ MonTickDone \/ RevalStart
    BY <1>1, <2>3 DEF MonTick, MonTickEmpty, MonQueue, MonTickDone, RevalStart
  <2> QED
    BY <1>2, <2>1, <2>2, <2>3 DEF MonStep
<1>3. CASE ValStep
  <2>1. PICK v \in Validations :
          \/ \E m \in Mints : ValKeep(v, m) \/ ValFindsNone(v, m)
          \/ ValRemove(v)
          \/ ValDone(v)
    BY <1>3 DEF ValStep
  <2>2. CASE ValRemove(v)
    BY <2>2, RemovalShrinks DEF ValRemove
  <2> QED
    BY <1>1, <2>1, <2>2 DEF ValKeep, ValFindsNone, ValDone
<1>4. CASE MirrorStep
  BY <1>1, <1>4 DEF MirrorStep, MirrorDecide, MirrorSkip, MirrorQueue
<1>5. CASE ExecStep
  <2>1. CASE ExecFail
    <3>1. execOrder.mint \in Mints
      BY <2>1 DEF ExecFail, SellMayFail, Order, OrderRecord
    <3> QED
      BY <2>1, <3>1, FlagShrinks DEF ExecFail, ClearPendingSell
  <2>2. CASE ExecNothingToSell \/ ExecDone
    BY <2>2, SaleShrinks DEF ExecNothingToSell, ExecDone
  <2>3. CASE ExecTake \/ ExecSkip \/ ExecAbandon \/ ExecSend
    BY <1>1, <2>3 DEF ExecTake, ExecSkip, ExecAbandon, ExecSend
  <2> QED
    BY <1>5, <2>1, <2>2, <2>3 DEF ExecStep
<1> QED
  BY <1>2, <1>3, <1>4, <1>5 DEF SellNext

-----------------------------------------------------------------------------
(* Registrations overwrite nothing.                                        *)

MapInv == TypeOK /\ SlotInv /\ NeverOverwritten

LEMMA MapInvInit == Init => MapInv
<1>1. Init => NeverOverwritten
  BY DEF Init, BuyInit, NeverOverwritten, DecidedPhases
<1> QED
  BY <1>1, TypeInit, SlotInvInit DEF MapInv

LEMMA BuyKeepsOverwritten ==
  ASSUME MapInv, NEW t \in Tasks, Dispatch(t) \/ TaskStep(t) \/ ChainStep(t)
  PROVE  NeverOverwritten'
<1> USE BuyTasksAssumption
    DEF MapInv, NeverOverwritten, DecidedPhases, GoTo, Held,
        TypeOK, PositionsTypeOK, BuyTypeOK, Positions
<1>1. CASE Dispatch(t)
  BY <1>1 DEF Dispatch, Spawn
<1>2. CASE AcquireSkip(t) \/ AcquireWin(t)
  BY <1>2 DEF AcquireSkip, AcquireWin
<1>3. CASE ReadHolding(t)
  BY <1>3 DEF ReadHolding
<1>4. CASE CheckCount(t) \/ Screen(t)
  BY <1>4 DEF CheckCount, Screen
<1>5. CASE SendFails(t) \/ SendTx(t) \/ BuyReturns(t) \/ BuyErrs(t)
  BY <1>5 DEF SendFails, SendTx, BuyReturns, BuyErrs
<1>6. CASE RegisterNew(t)
  <2>1. \A u \in Tasks \ {t} :
          phase[u] \in DecidedPhases => MintOf[u] # MintOf[t]
    BY <1>6 DEF RegisterNew, SlotInv, BuyExclusion, SlotPhases
  <2> QED
    BY <1>6, <2>1 DEF RegisterNew, AddPosition
<1>7. CASE RegisterMore(t)
  BY <1>7 DEF RegisterMore, AccumulatePosition
<1>8. CASE PersistNew(t) \/ Release(t)
  BY <1>8 DEF PersistNew, Release
<1>9. CASE ChainStep(t)
  BY <1>9 DEF ChainStep, Land, Drop
<1> QED
  BY <1>1, <1>2, <1>3, <1>4, <1>5, <1>6, <1>7, <1>8, <1>9 DEF TaskStep

LEMMA MapInvNext == MapInv /\ [Next]_vars => MapInv'
<1> SUFFICES ASSUME MapInv, [Next]_vars PROVE MapInv'
  OBVIOUS
<1>1. TypeOK' /\ SlotInv'
  BY TypeNext, SlotInvNext DEF MapInv
<1>2. NeverOverwritten'
  <2>1. CASE UNCHANGED vars
    BY <2>1 DEF vars, buyVars, MapInv, NeverOverwritten, Held
  <2>2. CASE BuyStep
    BY <2>2, BuyKeepsOverwritten DEF BuyStep
  <2>3. CASE SellStep
    <3>1. \A n \in Mints : Shrunk(n)
      BY <2>3, SellShrinks DEF SellStep, MapInv
    <3>2. UNCHANGED <<phase, already>>
      BY <2>3 DEF SellStep, buyVars
    <3> QED
      BY <3>1, <3>2, BuyTasksAssumption DEF MapInv, NeverOverwritten, Shrunk, Held
  <2>4. CASE Crash
    BY <2>4 DEF Crash, NeverOverwritten, DecidedPhases
  <2> QED
    BY <2>1, <2>2, <2>3, <2>4 DEF Next
<1> QED
  BY <1>1, <1>2 DEF MapInv

(***************************************************************************)
(* No add_position ever replaces an entry: for any number of tasks, mints  *)
(* and crashes, the race that the comments above try_acquire_buy describe  *)
(* cannot happen.                                                          *)
(***************************************************************************)
THEOREM NothingOverwritten == Spec => []NeverOverwritten
<1>1. MapInv => NeverOverwritten
  BY DEF MapInv
<1> QED
  BY MapInvInit, MapInvNext, <1>1, PTL DEF Spec

-----------------------------------------------------------------------------
(* The slots implement the abstract lock.                                  *)

LEMMA SlotStep == SlotInv /\ SlotInv' /\ [Next]_vars
                  => [Slot!SlotNext]_{t \in Tasks : phase[t] \in SlotPhases}
<1> DEFINE holders == {t \in Tasks : phase[t] \in SlotPhases}
<1> SUFFICES ASSUME SlotInv, SlotInv', [Next]_vars
             PROVE  [Slot!SlotNext]_holders
  OBVIOUS
<1>1. ASSUME UNCHANGED phase PROVE UNCHANGED holders
  BY <1>1
<1>2. CASE Crash
  <2>1. holders' = {}
    BY <1>2 DEF Crash, SlotPhases
  <2> QED
    BY <2>1 DEF Slot!SlotNext, Slot!GiveAll
<1>3. ASSUME NEW t \in Tasks, Dispatch(t) \/ TaskStep(t) \/ ChainStep(t)
      PROVE  [Slot!SlotNext]_holders
  <2> USE DEF GoTo, SlotInv, SlotPhases, Phases
  <2>1. CASE AcquireWin(t)
    <3>1. \A h \in holders : MintOf[h] # MintOf[t]
      BY <2>1 DEF AcquireWin, AcquireRefused
    <3>2. holders' = holders \cup {t}
      BY <2>1 DEF AcquireWin
    <3> QED
      BY <3>1, <3>2 DEF Slot!SlotNext, Slot!Take
  <2>2. CASE Release(t)
    <3>1. t \in holders /\ holders' = holders \ {t}
      BY <2>2 DEF Release
    <3> QED
      BY <3>1 DEF Slot!SlotNext, Slot!Give
  <2>3. CASE \/ Dispatch(t) \/ AcquireSkip(t) \/ ReadHolding(t)
             \/ CheckCount(t) \/ Screen(t) \/ SendFails(t) \/ SendTx(t)
    <3>1. UNCHANGED holders
      BY <2>3 DEF Dispatch, Spawn, AcquireSkip, ReadHolding, CheckCount, Screen,
                  SendFails, SendTx
    <3> QED
      BY <3>1
  <2>4. CASE \/ BuyReturns(t) \/ BuyErrs(t) \/ RegisterNew(t) \/ RegisterMore(t)
             \/ PersistNew(t) \/ ChainStep(t)
    <3>1. UNCHANGED holders
      BY <2>4 DEF BuyReturns, BuyErrs, RegisterNew, RegisterMore, PersistNew,
                  ChainStep, Land, Drop
    <3> QED
      BY <3>1
  <2> QED
    BY <1>3, <2>1, <2>2, <2>3, <2>4 DEF TaskStep
<1>4. CASE SellStep \/ UNCHANGED vars
  BY <1>1, <1>4 DEF SellStep, buyVars, vars
<1> QED
  BY <1>2, <1>3, <1>4 DEF Next, BuyStep

(***************************************************************************)
(* The whole bot implements the abstract lock BuySlot, with the tasks      *)
(* between Acquired and release_buy as its holders.                        *)
(***************************************************************************)
THEOREM SlotImplemented == Spec => SlotRefined
<1>1. Init => Slot!SlotInit
  BY DEF Init, BuyInit, SlotPhases, Slot!SlotInit
<1> QED
  BY <1>1, SlotInvInit, SlotInvNext, SlotStep, PTL
  DEF Spec, SlotRefined, Slot!SlotSpec

-----------------------------------------------------------------------------
(* Triggered levels stay triggered, also over a restart.                   *)

(***************************************************************************)
(* Unless it is behind, the file knows every level that the map knows:     *)
(* levels change only in update_after_sell, which saves before it lets the *)
(* lock go.                                                                *)
(***************************************************************************)
FileHasLevels ==
  ~behind => \A m \in Mints :
    Held(m) /\ disk[m] # NoHolding => /\ positions[m].tp \subseteq disk[m].tp
                                      /\ positions[m].sl \subseteq disk[m].sl

LEMMA FileHasLevelsInit == Init => FileHasLevels
  BY DEF Init, PositionsInit, FileHasLevels, Held

LEMMA SellKeepsFileLevels ==
  ASSUME TypeOK, SellNext, FileHasLevels
  PROVE  FileHasLevels'
<1> USE DEF TypeOK, PositionsTypeOK, SellTypeOK
<1>1. ASSUME UNCHANGED <<positions, disk, behind>> PROVE FileHasLevels'
  BY <1>1 DEF FileHasLevels, Held
<1>2. ASSUME Persist PROVE FileHasLevels'
  BY <1>2 DEF Persist, FileHasLevels
<1>3. ASSUME NEW m \in Mints, NEW flag \in BOOLEAN,
             SetPendingFlag(m, flag) \/ MarkMigrated(m) \/ RemoveEntry(m),
             UNCHANGED <<disk, behind>>
      PROVE  FileHasLevels'
  <2>1. \A n \in Mints :
          Held(n)' => /\ Held(n)
                      /\ positions'[n].tp = positions[n].tp
                      /\ positions'[n].sl = positions[n].sl
    <3> USE DEF Held, Positions, Holding
    <3>1. CASE SetPendingFlag(m, flag)
      BY <3>1 DEF SetPendingFlag
    <3>2. CASE MarkMigrated(m)
      BY <3>2 DEF MarkMigrated
    <3>3. CASE RemoveEntry(m)
      BY <3>3 DEF RemoveEntry
    <3> QED
      BY <1>3, <3>1, <3>2, <3>3
  <2> QED
    BY <1>3, <2>1 DEF FileHasLevels, Held
<1>4. CASE MonStep
  <2>1. ASSUME NEW m \in Mints, MonMigrated(m) PROVE FileHasLevels'
    BY <1>3, <2>1 DEF MonMigrated
  <2>2. ASSUME NEW m \in Mints, MonHold(m) \/ MonDecide(m) PROVE FileHasLevels'
    BY <1>1, <2>2 DEF MonHold, MonDecide
  <2>3. CASE MonMark
    <3>1. monOrder.mint \in Mints
      BY <2>3 DEF MonMark, Order, OrderRecord
    <3> QED
      BY <1>3, <2>3, <3>1 DEF MonMark, SetPendingSell
  <2>4. CASE MonTick \/ MonTickEmpty \/ MonQueue \/ MonTickDone \/ RevalStart
    BY <1>1, <2>4 DEF MonTick, MonTickEmpty, MonQueue, MonTickDone, RevalStart
  <2> QED
    BY <1>4, <2>1, <2>2, <2>3, <2>4 DEF MonStep
<1>5. CASE ValStep
  <2>1. PICK v \in Validations :
          \/ \E m \in Mints : ValKeep(v, m) \/ ValFindsNone(v, m)
          \/ ValRemove(v)
          \/ ValDone(v)
    BY <1>5 DEF ValStep
  <2>2. CASE ValRemove(v)
    BY <1>3, <2>2 DEF ValRemove
  <2>3. CASE ValDone(v)
    BY <1>2, <2>3 DEF ValDone
  <2> QED
    BY <1>1, <2>1, <2>2, <2>3 DEF ValKeep, ValFindsNone
<1>6. CASE MirrorStep
  BY <1>1, <1>6 DEF MirrorStep, MirrorDecide, MirrorSkip, MirrorQueue
<1>7. CASE ExecStep
  <2>1. CASE ExecFail
    <3>1. execOrder.mint \in Mints
      BY <2>1 DEF ExecFail, SellMayFail, Order, OrderRecord
    <3> QED
      BY <1>3, <2>1, <3>1 DEF ExecFail, ClearPendingSell
  <2>2. CASE ExecNothingToSell \/ ExecDone
    BY <1>2, <2>2 DEF ExecNothingToSell, ExecDone, UpdateAfterSell
  <2>3. CASE ExecTake \/ ExecSkip \/ ExecAbandon \/ ExecSend
    BY <1>1, <2>3 DEF ExecTake, ExecSkip, ExecAbandon, ExecSend
  <2> QED
    BY <1>7, <2>1, <2>2, <2>3 DEF ExecStep
<1> QED
  BY <1>4, <1>5, <1>6, <1>7 DEF SellNext

LEMMA BuyKeepsFileLevels ==
  ASSUME TypeOK, FileHasLevels, NEW t \in Tasks,
         Dispatch(t) \/ TaskStep(t) \/ ChainStep(t)
  PROVE  FileHasLevels'
<1> USE DEF TypeOK, PositionsTypeOK
<1>1. ASSUME UNCHANGED <<positions, disk, behind>> PROVE FileHasLevels'
  BY <1>1 DEF FileHasLevels, Held
<1>2. ASSUME Persist PROVE FileHasLevels'
  BY <1>2 DEF Persist, FileHasLevels
<1>3. CASE RegisterNew(t)
  BY <1>3, BuyTasksAssumption
  DEF RegisterNew, AddPosition, NewHolding, FileHasLevels, Held, Positions
<1>4. CASE RegisterMore(t)
  BY <1>2, <1>4 DEF RegisterMore, AccumulatePosition
<1>5. CASE PersistNew(t)
  BY <1>2, <1>5 DEF PersistNew
<1>6. CASE \/ Dispatch(t) \/ AcquireSkip(t) \/ AcquireWin(t) \/ ReadHolding(t)
           \/ CheckCount(t) \/ Screen(t) \/ SendFails(t) \/ SendTx(t)
  BY <1>1, <1>6 DEF Dispatch, Spawn, AcquireSkip, AcquireWin, ReadHolding,
                    CheckCount, Screen, SendFails, SendTx
<1>7. CASE BuyReturns(t) \/ BuyErrs(t) \/ Release(t) \/ ChainStep(t)
  BY <1>1, <1>7 DEF BuyReturns, BuyErrs, Release, ChainStep, Land, Drop
<1> QED
  BY <1>3, <1>4, <1>5, <1>6, <1>7 DEF TaskStep

LEMMA FileHasLevelsNext == TypeOK /\ FileHasLevels /\ [Next]_vars => FileHasLevels'
<1> SUFFICES ASSUME TypeOK, FileHasLevels, [Next]_vars PROVE FileHasLevels'
  OBVIOUS
<1>1. CASE UNCHANGED vars
  BY <1>1 DEF vars, FileHasLevels, Held
<1>2. CASE Crash
  BY <1>2 DEF Crash, Loaded, FileHasLevels
<1> QED
  BY <1>1, <1>2, SellKeepsFileLevels, BuyKeepsFileLevels
  DEF Next, BuyStep, SellStep

LEMMA LevelsKeptStep == MapInv /\ FileHasLevels /\ [Next]_vars
                        => [OldFile \/ \A m \in Mints : LevelsKept(m)]_vars
<1> SUFFICES ASSUME MapInv, FileHasLevels, Next, ~OldFile
             PROVE  \A m \in Mints : LevelsKept(m)
  OBVIOUS
<1> USE DEF MapInv, TypeOK, PositionsTypeOK
<1>1. ASSUME UNCHANGED positions PROVE \A m \in Mints : LevelsKept(m)
  BY <1>1 DEF LevelsKept
<1>2. CASE SellStep
  BY <1>2, SellShrinks DEF SellStep, Shrunk, LevelsKept
<1>3. CASE Crash
  BY <1>3, TradingAssumption DEF Crash, OldFile, Loaded, FileHasLevels, LevelsKept, Held
<1>4. ASSUME NEW t \in Tasks, Dispatch(t) \/ TaskStep(t) \/ ChainStep(t)
      PROVE  \A m \in Mints : LevelsKept(m)
  <2>1. CASE RegisterNew(t)
    <3>1. ~Held(MintOf[t])
      BY <2>1 DEF RegisterNew, GoTo, NeverOverwritten, DecidedPhases
    <3> QED
      BY <2>1, <3>1, BuyTasksAssumption
      DEF RegisterNew, AddPosition, LevelsKept, Held, Positions
  <2>2. CASE RegisterMore(t)
    BY <2>2, BuyTasksAssumption
    DEF RegisterMore, AccumulatePosition, Accumulated, LevelsKept, Held, Positions,
        Holding
  <2>3. CASE \/ Dispatch(t) \/ AcquireSkip(t) \/ AcquireWin(t) \/ ReadHolding(t)
             \/ CheckCount(t) \/ Screen(t) \/ SendFails(t) \/ SendTx(t)
    BY <1>1, <2>3 DEF Dispatch, Spawn, AcquireSkip, AcquireWin, ReadHolding,
                      CheckCount, Screen, SendFails, SendTx
  <2>4. CASE BuyReturns(t) \/ BuyErrs(t) \/ PersistNew(t) \/ Release(t) \/ ChainStep(t)
    BY <1>1, <2>4 DEF BuyReturns, BuyErrs, PersistNew, Release, ChainStep, Land, Drop
  <2> QED
    BY <1>4, <2>1, <2>2, <2>3, <2>4 DEF TaskStep
<1> QED
  BY <1>2, <1>3, <1>4 DEF Next, BuyStep

(***************************************************************************)
(* A level of a living position never triggers twice: no step of any task  *)
(* and no restart from positions.json takes a triggered level back, unless *)
(* a crash finds the file behind because a save has failed.                *)
(***************************************************************************)
THEOREM LevelsStayTriggered == Spec => NeverRearmed
  BY MapInvInit, MapInvNext, FileHasLevelsInit, FileHasLevelsNext, LevelsKeptStep,
     PTL
  DEF Spec, NeverRearmed, MapInv

-----------------------------------------------------------------------------
(* The file lags only in the two known windows.                            *)

InFile(m) == SameHolding(positions[m], disk[m]) \/ Registering(m) \/ Removing(m)

(***************************************************************************)
(* A validation removes entries only between its start and its save.       *)
(***************************************************************************)
ValRuns == \A v \in Validations : valMint[v] # NoMint \/ valTodo[v] # {} => v \in valOn

SaveInv == TypeOK /\ Saved /\ ValRuns

LEMMA SaveInvInit == Init => SaveInv
<1> SUFFICES ASSUME Init PROVE SaveInv
  OBVIOUS
<1>1. Saved
  BY DEF Init, PositionsInit, Saved, SameHolding
<1>2. ValRuns
  BY DEF Init, SellInit, ValRuns
<1> QED
  BY <1>1, <1>2, TypeInit DEF SaveInv

LEMMA SavedNow == ASSUME Persist PROVE Saved'
BY DEF Persist, Saved, SameHolding

LEMMA FlagStaysSame ==
  ASSUME TypeOK, NEW m \in Mints, NEW flag \in BOOLEAN,
         SetPendingFlag(m, flag) \/ MarkMigrated(m), UNCHANGED disk
  PROVE  \A n \in Mints :
           /\ SameHolding(positions[n], disk[n]) => SameHolding(positions'[n], disk'[n])
           /\ Held(n)' <=> Held(n)
<1> USE DEF TypeOK, PositionsTypeOK, Positions, Held, SameHolding
<1>1. positions[m] # NoHolding => positions[m] \in Holding
  OBVIOUS
<1>2. CASE SetPendingFlag(m, flag)
  <2>1. \A n \in Mints :
          positions'[n] = IF n = m /\ Held(m)
                          THEN [positions[m] EXCEPT !.pending = flag] ELSE positions[n]
    BY <1>2 DEF SetPendingFlag
  <2>2. Held(m) => [positions[m] EXCEPT !.pending = flag] \in Holding
    BY <1>1 DEF Holding
  <2>3. Held(m) => [positions[m] EXCEPT !.pending = flag] # NoHolding
    <3> HIDE DEF SameHolding
    <3> QED BY <2>2, PositionsAssumption
  <2> QED
    BY <1>1, <2>1, <2>3 DEF Holding
<1>3. CASE MarkMigrated(m)
  <2>1. \A n \in Mints :
          positions'[n] = IF n = m /\ Held(m)
                          THEN [positions[m] EXCEPT !.migrated = TRUE] ELSE positions[n]
    BY <1>3 DEF MarkMigrated
  <2>2. Held(m) => [positions[m] EXCEPT !.migrated = TRUE] \in Holding
    BY <1>1 DEF Holding
  <2>3. Held(m) => [positions[m] EXCEPT !.migrated = TRUE] # NoHolding
    <3> HIDE DEF SameHolding
    <3> QED BY <2>2, PositionsAssumption
  <2> QED
    BY <1>1, <2>1, <2>3 DEF Holding
<1> QED
  BY <1>2, <1>3

LEMMA SellKeepsSaved ==
  ASSUME SaveInv, SellNext, UNCHANGED phase
  PROVE  Saved' /\ ValRuns'
<1> USE DEF SaveInv, ValRuns
<1>1. Saved <=> (~behind => \A m \in Mints : InFile(m))
  BY DEF Saved, InFile
<1>2. Saved' <=> (~behind' => \A m \in Mints : InFile(m)')
  BY DEF Saved, InFile
<1>3. ASSUME UNCHANGED <<positions, disk, behind>>, valOn # {} => valOn' # {} PROVE Saved'
  BY <1>1, <1>2, <1>3 DEF InFile, Registering, Removing, Held
<1>4. ASSUME Persist PROVE Saved'
  BY <1>4, SavedNow
<1>5. ASSUME NEW m \in Mints, NEW flag \in BOOLEAN,
             SetPendingFlag(m, flag) \/ MarkMigrated(m),
             UNCHANGED <<disk, behind, valOn>>
      PROVE  Saved'
  <2>1. \A n \in Mints :
          /\ SameHolding(positions[n], disk[n]) => SameHolding(positions'[n], disk'[n])
          /\ Held(n)' <=> Held(n)
    BY <1>5, FlagStaysSame
  <2> QED BY <1>1, <1>2, <1>5, <2>1 DEF InFile, Registering, Removing
<1>6. CASE MonStep
  <2>1. ASSUME NEW m \in Mints, MonMigrated(m) PROVE Saved' /\ ValRuns'
    BY <1>5, <2>1 DEF MonMigrated, valVars
  <2>2. ASSUME NEW m \in Mints, MonHold(m) \/ MonDecide(m) PROVE Saved' /\ ValRuns'
    BY <1>3, <2>2 DEF MonHold, MonDecide, valVars
  <2>3. CASE MonMark
    <3>1. monOrder.mint \in Mints
      BY <2>3 DEF MonMark, Order, OrderRecord, TypeOK, SellTypeOK
    <3> QED
      BY <1>5, <2>3, <3>1 DEF MonMark, SetPendingSell, valVars
  <2>4. CASE RevalStart
    <3>1. ValRuns'
      BY <2>4 DEF RevalStart, TypeOK, SellTypeOK
    <3> QED
      BY <1>3, <2>4, <3>1 DEF RevalStart
  <2>5. CASE MonTick \/ MonTickEmpty \/ MonQueue \/ MonTickDone
    BY <1>3, <2>5 DEF MonTick, MonTickEmpty, MonQueue, MonTickDone, valVars, sellVars
  <2> QED
    BY <1>6, <2>1, <2>2, <2>3, <2>4, <2>5 DEF MonStep
<1>7. CASE ValStep
  <2>1. PICK v \in Validations :
          \/ \E m \in Mints : ValKeep(v, m) \/ ValFindsNone(v, m)
          \/ ValRemove(v)
          \/ ValDone(v)
    BY <1>7 DEF ValStep
  <2> USE DEF TypeOK, SellTypeOK
  <2>2. ASSUME NEW m \in Mints, ValKeep(v, m) PROVE Saved' /\ ValRuns'
    BY <1>3, <2>2 DEF ValKeep
  <2>3. ASSUME NEW m \in Mints, ValFindsNone(v, m) PROVE Saved' /\ ValRuns'
    BY <1>3, <2>3 DEF ValFindsNone
  <2>4. CASE ValRemove(v)
    <3>1. valOn # {} /\ UNCHANGED <<disk, behind, valOn>> /\ ValRuns'
      BY <2>4 DEF ValRemove
    <3>2. \A n \in Mints : positions'[n] = positions[n] \/ positions'[n] = NoHolding
      BY <2>4 DEF ValRemove, RemoveEntry, PositionsTypeOK, Positions
    <3>3. ASSUME NEW n \in Mints, InFile(n) PROVE InFile(n)'
      BY <3>1, <3>2, <3>3 DEF InFile, Registering, Removing, Held
    <3> QED
      BY <1>1, <1>2, <3>1, <3>3
  <2>5. CASE ValDone(v)
    BY <1>4, <2>5 DEF ValDone
  <2> QED
    BY <2>1, <2>2, <2>3, <2>4, <2>5
<1>8. CASE MirrorStep
  BY <1>3, <1>8 DEF MirrorStep, MirrorDecide, MirrorSkip, MirrorQueue, valVars
<1>9. CASE ExecStep
  <2>1. CASE ExecFail
    <3>1. execOrder.mint \in Mints
      BY <2>1 DEF ExecFail, SellMayFail, Order, OrderRecord, TypeOK, SellTypeOK
    <3> QED
      BY <1>5, <2>1, <3>1 DEF ExecFail, ClearPendingSell, valVars
  <2>2. CASE ExecNothingToSell \/ ExecDone
    BY <1>4, <2>2 DEF ExecNothingToSell, ExecDone, UpdateAfterSell, valVars
  <2>3. CASE ExecTake \/ ExecSkip \/ ExecAbandon \/ ExecSend
    BY <1>3, <2>3 DEF ExecTake, ExecSkip, ExecAbandon, ExecSend, valVars
  <2> QED
    BY <1>9, <2>1, <2>2, <2>3 DEF ExecStep
<1> QED
  BY <1>6, <1>7, <1>8, <1>9 DEF SellNext

LEMMA BuyKeepsSaved ==
  ASSUME SaveInv, NEW t \in Tasks, Dispatch(t) \/ TaskStep(t) \/ ChainStep(t),
         UNCHANGED sellVars
  PROVE  Saved'
<1> USE DEF SaveInv, TypeOK, BuyTypeOK, GoTo, sellVars
<1>1. Saved <=> (~behind => \A m \in Mints : InFile(m))
  BY DEF Saved, InFile
<1>2. Saved' <=> (~behind' => \A m \in Mints : InFile(m)')
  BY DEF Saved, InFile
<1>3. ASSUME UNCHANGED <<positions, disk, behind>>,
             phase[t] # "persisting",
             \A u \in Tasks \ {t} : phase'[u] = phase[u]
      PROVE  Saved'
  BY <1>1, <1>2, <1>3 DEF InFile, Registering, Removing, Held
<1>4. ASSUME Persist PROVE Saved'
  BY <1>4, SavedNow
<1>5. CASE RegisterNew(t)
  <2>1. /\ phase'[t] = "persisting" /\ phase[t] = "registering"
        /\ \A u \in Tasks \ {t} : phase'[u] = phase[u]
    BY <1>5 DEF RegisterNew
  <2>2. Registering(MintOf[t])'
    BY <2>1 DEF Registering
  <2>3. \A m \in Mints : m # MintOf[t] => positions'[m] = positions[m]
    BY <1>5 DEF RegisterNew, AddPosition, PositionsTypeOK, Positions
  <2>4. ASSUME NEW m \in Mints, InFile(m) PROVE InFile(m)'
    BY <1>5, <2>1, <2>2, <2>3, <2>4 DEF RegisterNew, InFile, Registering, Removing, Held
  <2> QED
    BY <1>1, <1>2, <1>5, <2>4 DEF RegisterNew
<1>6. CASE RegisterMore(t)
  BY <1>4, <1>6 DEF RegisterMore, AccumulatePosition
<1>7. CASE PersistNew(t)
  BY <1>4, <1>7 DEF PersistNew
<1>8. CASE \/ Dispatch(t) \/ AcquireSkip(t) \/ AcquireWin(t) \/ ReadHolding(t)
           \/ CheckCount(t) \/ Screen(t) \/ SendFails(t) \/ SendTx(t)
  BY <1>3, <1>8 DEF Dispatch, Spawn, AcquireSkip, AcquireWin, ReadHolding,
                    CheckCount, Screen, SendFails, SendTx
<1>9. CASE BuyReturns(t) \/ BuyErrs(t) \/ Release(t)
  BY <1>3, <1>9 DEF BuyReturns, BuyErrs, Release
<1>10. CASE ChainStep(t)
  BY <1>1, <1>2, <1>10
  DEF ChainStep, Land, Drop, InFile, Registering, Removing, Held
<1> QED
  BY <1>5, <1>6, <1>7, <1>8, <1>9, <1>10 DEF TaskStep

LEMMA SaveInvNext == SaveInv /\ [Next]_vars => SaveInv'
<1> SUFFICES ASSUME SaveInv, [Next]_vars PROVE SaveInv'
  OBVIOUS
<1>1. TypeOK'
  BY TypeNext DEF SaveInv
<1>2. Saved' /\ ValRuns'
  <2>1. CASE UNCHANGED vars
    BY <2>1
    DEF vars, buyVars, sellVars, SaveInv, Saved, Registering, Removing, Held, ValRuns
  <2>2. CASE BuyStep
    <3>1. ValRuns'
      BY <2>2 DEF BuyStep, sellVars, SaveInv, ValRuns
    <3> QED
      BY <2>2, <3>1, BuyKeepsSaved DEF BuyStep
  <2>3. CASE SellStep
    BY <2>3, SellKeepsSaved DEF SellStep, buyVars
  <2>4. CASE Crash
    <3>1. ~behind' => disk' = positions'
      BY <2>4 DEF Crash
    <3>2. Saved'
      BY <3>1 DEF Saved, SameHolding
    <3>3. ValRuns'
      BY <2>4 DEF Crash, ValRuns, Validations
    <3> QED
      BY <3>2, <3>3
  <2> QED
    BY <2>1, <2>2, <2>3, <2>4 DEF Next
<1> QED
  BY <1>1, <1>2 DEF SaveInv

(***************************************************************************)
(* Unless its last save or load has failed, positions.json holds every     *)
(* position, its amount and its triggered levels, except one between       *)
(* add_position's insert and save and one that a validation has removed    *)
(* without having saved yet.                                               *)
(***************************************************************************)
THEOREM FileSaved == Spec => []Saved
<1>1. SaveInv => Saved
  BY DEF SaveInv
<1> QED
  BY SaveInvInit, SaveInvNext, <1>1, PTL DEF Spec

-----------------------------------------------------------------------------
(***************************************************************************)
(* A mint that was never bought on the curve has no position that carries  *)
(* pending_sell.  That takes more than the map: the flag is set for the    *)
(* order of the monitor, which it decides on from its snapshot, which it   *)
(* takes from the map, which a crash reads from the file, to which buy     *)
(* tasks add what they were told.                                          *)
(*                                                                         *)
(* A holding is blank without tokens, a price or the flag, as the AMM      *)
(* branches of the buy task register it.                                   *)
(***************************************************************************)
Blank(h) == h # NoHolding => h.amount = 0 /\ h.original = 0 /\ ~h.pending

Never == {m \in Mints : ~CurveBought(m)}

BlankMap(map) == \A m \in Never : Blank(map[m])

AmmInv ==
  /\ TypeOK
  /\ BlankMap(positions) /\ BlankMap(disk) /\ BlankMap(monSnap)
  /\ \A t \in AmmTasks : bought[t] = 0
  /\ monPc \in {"queue", "mark"} => monOrder.mint \notin Never

LEMMA NothingBought ==
  ASSUME AmmInv, NEW t \in Tasks, MintOf[t] \in Never
  PROVE  bought[t] = 0
<1>1. bought[t] \in Nat
  BY DEF AmmInv, TypeOK, BuyTypeOK
<1>2. CASE t \in AmmTasks
  BY <1>2 DEF AmmInv
<1>3. CASE t \notin AmmTasks
  BY <1>1, <1>3 DEF Never, CurveBought
<1> QED BY <1>2, <1>3

LEMMA AmmInvInit == Init => AmmInv
<1> SUFFICES ASSUME Init PROVE AmmInv
  OBVIOUS
<1>1. TypeOK
  BY TypeInit
<1>2. BlankMap(positions) /\ BlankMap(disk) /\ BlankMap(monSnap)
  BY DEF Init, PositionsInit, SellInit, BlankMap, Blank, Never
<1> QED
  BY <1>1, <1>2, BuyTasksAssumption DEF Init, BuyInit, SellInit, AmmInv

-----------------------------------------------------------------------------
(* What the methods leave blank.                                           *)

LEMMA FlagLeavesBlank ==
  ASSUME positions \in Positions, BlankMap(positions), NEW m \in Mints,
         NEW flag \in BOOLEAN, flag => m \notin Never, SetPendingFlag(m, flag)
  PROVE  BlankMap(positions')
<1> SUFFICES ASSUME NEW n \in Never PROVE Blank(positions'[n])
  BY DEF BlankMap
<1>1. n \in Mints
  BY DEF Never
<1>2. CASE n # m
  BY <1>1, <1>2 DEF SetPendingFlag, Positions, BlankMap
<1>3. CASE n = m
  <2>1. positions'[n] = IF Held(n) THEN [positions[n] EXCEPT !.pending = FALSE]
                                   ELSE NoHolding
    BY <1>1, <1>3 DEF SetPendingFlag, Positions
  <2>2. CASE Held(n)
    <3>1. positions[n] \in Holding
      BY <1>1, <2>2 DEF Held, Positions
    <3> QED BY <2>1, <2>2, <3>1 DEF BlankMap, Blank, Holding, Held
  <2> QED BY <2>1, <2>2 DEF Blank
<1> QED BY <1>2, <1>3

LEMMA MigrationLeavesBlank ==
  ASSUME positions \in Positions, BlankMap(positions), NEW m \in Mints, MarkMigrated(m)
  PROVE  BlankMap(positions')
<1> SUFFICES ASSUME NEW n \in Never PROVE Blank(positions'[n])
  BY DEF BlankMap
<1>1. n \in Mints
  BY DEF Never
<1>2. CASE n # m
  BY <1>1, <1>2 DEF MarkMigrated, Positions, BlankMap
<1>3. CASE n = m /\ Held(n)
  <2>1. positions[n] \in Holding
    BY <1>1, <1>3 DEF Held, Positions
  <2>2. positions'[n] = [positions[n] EXCEPT !.migrated = TRUE]
    BY <1>1, <1>3 DEF MarkMigrated, Positions
  <2> QED BY <1>3, <2>1, <2>2 DEF BlankMap, Blank, Holding, Held
<1>4. CASE n = m /\ ~Held(n)
  BY <1>1, <1>4 DEF MarkMigrated, Positions, Blank
<1> QED BY <1>2, <1>3, <1>4

LEMMA RemovalLeavesBlank ==
  ASSUME positions \in Positions, BlankMap(positions), NEW m \in Mints, RemoveEntry(m)
  PROVE  BlankMap(positions')
BY DEF RemoveEntry, Positions, BlankMap, Blank, Never

(***************************************************************************)
(* Whatever is sold of a position without tokens, nothing is left of it.   *)
(***************************************************************************)
LEMMA SaleLeavesBlank ==
  ASSUME positions \in Positions, BlankMap(positions), NEW o \in Order, UpdateAfterSell(o)
  PROVE  BlankMap(positions') /\ (disk' = disk \/ disk' = positions')
<1>1. o.mint \in Mints /\ o.amount \in Nat
  BY DEF Order, OrderRecord
<1>2. ASSUME NEW n \in Never PROVE Blank(positions'[n])
  <2>1. n \in Mints
    BY DEF Never
  <2>2. CASE n # o.mint
    BY <1>1, <2>1, <2>2 DEF UpdateAfterSell, Positions, BlankMap
  <2>3. CASE n = o.mint /\ Held(n)
    <3>1. positions[n] \in Holding /\ positions[n].amount = 0
      BY <2>1, <2>3 DEF Held, Positions, BlankMap, Blank
    <3>2. AfterSell(positions[n], o).amount = 0
      BY <1>1, <3>1 DEF AfterSell, SaturatingSub, Holding
    <3>3. positions'[n] = NoHolding
      BY <2>1, <2>3, <3>2 DEF UpdateAfterSell, Positions
    <3> QED BY <3>3 DEF Blank
  <2>4. CASE n = o.mint /\ ~Held(n)
    BY <2>1, <2>4 DEF UpdateAfterSell, Positions, Blank
  <2> QED BY <2>2, <2>3, <2>4
<1> QED BY <1>2 DEF BlankMap, UpdateAfterSell, Persist

(***************************************************************************)
(* A buy task of such a mint registers what an AMM branch reports, which   *)
(* is nothing.                                                             *)
(***************************************************************************)
LEMMA RegistrationLeavesBlank ==
  ASSUME AmmInv, NEW t \in Tasks, RegisterNew(t) \/ RegisterMore(t)
  PROVE  BlankMap(positions') /\ (disk' = disk \/ disk' = positions')
<1> DEFINE m == MintOf[t]
<1>1. m \in Mints /\ positions \in Positions
  BY BuyTasksAssumption DEF AmmInv, TypeOK, PositionsTypeOK
<1>2. ASSUME NEW n \in Never PROVE Blank(positions'[n])
  <2>1. n \in Mints
    BY DEF Never
  <2>2. CASE n # m
    BY <1>1, <2>1, <2>2
    DEF RegisterNew, RegisterMore, AddPosition, AccumulatePosition, Positions, AmmInv, BlankMap
  <2>3. CASE n = m
    <3>1. bought[t] = 0
      BY <2>3, NothingBought
    <3>2. CASE RegisterNew(t)
      BY <1>1, <2>1, <2>3, <3>1, <3>2 DEF RegisterNew, AddPosition, NewHolding, Positions, Blank
    <3>3. CASE RegisterMore(t) /\ Held(n)
      <4>1. positions[n] \in Holding /\ Blank(positions[n])
        BY <1>1, <2>1, <3>3 DEF Held, Positions, AmmInv, BlankMap
      <4>2. positions'[n] = Accumulated(positions[n], 0)
        BY <1>1, <2>1, <2>3, <3>1, <3>3 DEF RegisterMore, AccumulatePosition, Positions
      <4> QED BY <3>3, <4>1, <4>2 DEF Accumulated, Blank, Holding, Held
    <3>4. CASE RegisterMore(t) /\ ~Held(n)
      BY <1>1, <2>1, <2>3, <3>4 DEF RegisterMore, AccumulatePosition, Positions, Blank
    <3> QED BY <3>2, <3>3, <3>4
  <2> QED BY <2>2, <2>3
<1> QED BY <1>2 DEF BlankMap, RegisterNew, RegisterMore, AccumulatePosition, Persist

-----------------------------------------------------------------------------
LEMMA BuyKeepsAmm ==
  ASSUME AmmInv, TypeOK', NEW t \in Tasks, Dispatch(t) \/ TaskStep(t) \/ ChainStep(t),
         UNCHANGED sellVars
  PROVE  AmmInv'
<1>1. ASSUME UNCHANGED <<positions, disk, bought>> PROVE AmmInv'
  BY <1>1 DEF AmmInv, BlankMap, Never, CurveBought, sellVars
<1>2. CASE RegisterNew(t) \/ RegisterMore(t)
  <2>1. UNCHANGED bought
    BY <1>2 DEF RegisterNew, RegisterMore
  <2> QED
    BY <1>2, <2>1, RegistrationLeavesBlank DEF AmmInv, BlankMap, Never, CurveBought, sellVars
<1>3. CASE PersistNew(t)
  BY <1>3 DEF PersistNew, Persist, AmmInv, BlankMap, Never, CurveBought, sellVars
<1>4. CASE BuyReturns(t)
  <2>1. PICK b \in Reports(t) : bought' = [bought EXCEPT ![t] = b]
    BY <1>4 DEF BuyReturns
  <2>2. (t \in AmmTasks => b = 0) /\ (t \notin AmmTasks => b > 0)
    BY <2>1, BuyTasksAssumption DEF Reports
  <2>3. bought \in [Tasks -> Nat] /\ UNCHANGED <<positions, disk>>
    BY <1>4 DEF BuyReturns, AmmInv, TypeOK, BuyTypeOK
  <2>4. \A u \in AmmTasks : bought'[u] = 0
    BY <2>1, <2>2, <2>3, BuyTasksAssumption DEF AmmInv
  <2>5. Never' \subseteq Never
    BY <2>1, <2>2, <2>3 DEF Never, CurveBought
  <2> QED
    BY <2>3, <2>4, <2>5 DEF AmmInv, BlankMap, sellVars
<1>5. CASE \/ Dispatch(t) \/ AcquireSkip(t) \/ AcquireWin(t) \/ ReadHolding(t)
           \/ CheckCount(t) \/ Screen(t) \/ SendFails(t) \/ SendTx(t)
  BY <1>1, <1>5 DEF Dispatch, Spawn, AcquireSkip, AcquireWin, ReadHolding,
                    CheckCount, Screen, SendFails, SendTx
<1>6. CASE BuyErrs(t) \/ Release(t) \/ ChainStep(t)
  BY <1>1, <1>6 DEF BuyErrs, Release, ChainStep, Land, Drop
<1> QED
  BY <1>2, <1>3, <1>4, <1>5, <1>6 DEF TaskStep

(***************************************************************************)
(* The monitor decides on an order only for a holding that has a price,    *)
(* and none without tokens has one.                                        *)
(***************************************************************************)
LEMMA DecisionNotAmm ==
  ASSUME AmmInv, NEW m \in Mints, MonDecide(m)
  PROVE  m \notin Never /\ monOrder'.mint = m
<1>1. monSnap[m] # NoHolding /\ monSnap[m].original > 0
  BY DEF MonDecide, Priced, AmmInv, TypeOK, SellTypeOK, HeldIn
<1>2. m \notin Never
  <2> SUFFICES ASSUME m \in Never PROVE FALSE
    OBVIOUS
  <2>1. monSnap[m].original = 0
    BY <1>1 DEF AmmInv, BlankMap, Blank
  <2> QED BY <1>1, <2>1
<1>3. monOrder'.mint = m
  BY DEF MonDecide, Triggered, TpOrders, SlOrders, ExitOrders, LevelOrder
<1> QED BY <1>2, <1>3

LEMMA MonKeepsAmm ==
  ASSUME AmmInv, TypeOK', MonStep, UNCHANGED buyVars
  PROVE  AmmInv'
<1>1. positions \in Positions
  BY DEF AmmInv, TypeOK, PositionsTypeOK
<1>2. CASE MonTick
  BY <1>2 DEF MonTick, AmmInv, BlankMap, Never, CurveBought, buyVars
<1>3. CASE MonTickEmpty
  BY <1>3 DEF MonTickEmpty, sellVars, AmmInv, BlankMap, Never, CurveBought, buyVars
<1>4. ASSUME NEW m \in Mints, MonHold(m) PROVE AmmInv'
  BY <1>4 DEF MonHold, AmmInv, BlankMap, Never, CurveBought, buyVars
<1>5. ASSUME NEW m \in Mints, MonMigrated(m) PROVE AmmInv'
  <2>1. BlankMap(positions')
    BY <1>1, <1>5, MigrationLeavesBlank DEF MonMigrated, AmmInv
  <2> QED BY <1>5, <2>1 DEF MonMigrated, AmmInv, BlankMap, Never, CurveBought, buyVars
<1>6. ASSUME NEW m \in Mints, MonDecide(m) PROVE AmmInv'
  BY <1>6, DecisionNotAmm DEF MonDecide, AmmInv, BlankMap, Never, CurveBought, buyVars
<1>7. CASE MonQueue
  BY <1>7 DEF MonQueue, AmmInv, BlankMap, Never, CurveBought, buyVars
<1>8. CASE MonMark
  <2>1. monOrder.mint \in Mints /\ monOrder.mint \notin Never
    BY <1>8 DEF MonMark, AmmInv, TypeOK, SellTypeOK, Order, OrderRecord
  <2>2. BlankMap(positions')
    BY <1>1, <1>8, <2>1, FlagLeavesBlank DEF MonMark, SetPendingSell, AmmInv
  <2> QED BY <1>8, <2>2 DEF MonMark, AmmInv, BlankMap, Never, CurveBought, buyVars
<1>9. CASE MonTickDone
  <2>1. BlankMap(monSnap')
    BY <1>9 DEF MonTickDone, BlankMap, Blank, Never
  <2> QED BY <1>9, <2>1 DEF MonTickDone, AmmInv, BlankMap, Never, CurveBought, buyVars
<1>10. CASE RevalStart
  BY <1>10 DEF RevalStart, AmmInv, BlankMap, Never, CurveBought, buyVars
<1> QED
  BY <1>2, <1>3, <1>4, <1>5, <1>6, <1>7, <1>8, <1>9, <1>10 DEF MonStep

LEMMA ValKeepsAmm ==
  ASSUME AmmInv, TypeOK', ValStep, UNCHANGED buyVars
  PROVE  AmmInv'
<1>1. PICK v \in Validations :
        \/ \E m \in Mints : ValKeep(v, m) \/ ValFindsNone(v, m)
        \/ ValRemove(v)
        \/ ValDone(v)
  BY DEF ValStep
<1>2. ASSUME NEW m \in Mints, ValKeep(v, m) \/ ValFindsNone(v, m) PROVE AmmInv'
  BY <1>2 DEF ValKeep, ValFindsNone, AmmInv, BlankMap, Never, CurveBought, monVars, buyVars
<1>3. CASE ValRemove(v)
  <2>1. valMint[v] \in Mints /\ positions \in Positions
    BY <1>3 DEF ValRemove, AmmInv, TypeOK, SellTypeOK, PositionsTypeOK
  <2>2. BlankMap(positions')
    BY <1>3, <2>1, RemovalLeavesBlank DEF ValRemove, AmmInv
  <2> QED BY <1>3, <2>2 DEF ValRemove, AmmInv, BlankMap, Never, CurveBought, monVars, buyVars
<1>4. CASE ValDone(v)
  BY <1>4 DEF ValDone, Persist, AmmInv, BlankMap, Never, CurveBought, monVars, buyVars
<1> QED BY <1>1, <1>2, <1>3, <1>4

LEMMA ExecKeepsAmm ==
  ASSUME AmmInv, TypeOK', ExecStep, UNCHANGED buyVars
  PROVE  AmmInv'
<1>1. positions \in Positions
  BY DEF AmmInv, TypeOK, PositionsTypeOK
<1>2. CASE ExecTake \/ ExecSkip \/ ExecAbandon \/ ExecSend
  BY <1>2 DEF ExecTake, ExecSkip, ExecAbandon, ExecSend, monVars, AmmInv, BlankMap, Never,
              CurveBought, buyVars
<1>3. CASE ExecFail
  <2>1. execOrder.mint \in Mints
    BY <1>3 DEF ExecFail, SellMayFail, AmmInv, TypeOK, SellTypeOK, Order, OrderRecord
  <2>2. BlankMap(positions')
    BY <1>1, <1>3, <2>1, FlagLeavesBlank DEF ExecFail, ClearPendingSell, AmmInv
  <2> QED BY <1>3, <2>2 DEF ExecFail, monVars, AmmInv, BlankMap, Never, CurveBought, buyVars
<1>4. CASE ExecNothingToSell \/ ExecDone
  <2>1. execOrder \in Order
    BY <1>4 DEF ExecNothingToSell, ExecDone, AmmInv, TypeOK, SellTypeOK
  <2>2. BlankMap(positions') /\ (disk' = disk \/ disk' = positions')
    BY <1>1, <1>4, <2>1, SaleLeavesBlank DEF ExecNothingToSell, ExecDone, AmmInv
  <2> QED
    BY <1>4, <2>2 DEF ExecNothingToSell, ExecDone, monVars, AmmInv, BlankMap, Never,
                      CurveBought, buyVars
<1> QED BY <1>2, <1>3, <1>4 DEF ExecStep

LEMMA AmmInvNext == AmmInv /\ [Next]_vars => AmmInv'
<1> SUFFICES ASSUME AmmInv, [Next]_vars PROVE AmmInv'
  OBVIOUS
<1>1. TypeOK'
  BY TypeNext DEF AmmInv
<1>2. CASE UNCHANGED vars
  BY <1>2, <1>1 DEF vars, buyVars, sellVars, AmmInv, BlankMap, Never, CurveBought
<1>3. CASE BuyStep
  BY <1>1, <1>3, BuyKeepsAmm DEF BuyStep
<1>4. CASE SellStep
  <2>1. CASE MirrorStep
    BY <1>1, <1>4, <2>1
    DEF SellStep, MirrorStep, MirrorDecide, MirrorSkip, MirrorQueue, monVars, buyVars,
        AmmInv, BlankMap, Never, CurveBought
  <2> QED
    BY <1>1, <1>4, <2>1, MonKeepsAmm, ValKeepsAmm, ExecKeepsAmm DEF SellStep, SellNext
<1>5. CASE Crash
  <2>1. BlankMap(monSnap')
    BY <1>5 DEF Crash, BlankMap, Blank, Never
  <2>2. BlankMap(positions')
    BY <1>5 DEF Crash, Loaded, AmmInv, BlankMap, Blank, Never
  <2> QED
    BY <1>1, <1>5, <2>1, <2>2 DEF Crash, AmmInv, BlankMap, Never, CurveBought
<1> QED BY <1>2, <1>3, <1>4, <1>5 DEF Next

(***************************************************************************)
(* The early exits of the executor for Raydium and PumpSwap clear no flag, *)
(* and need not unless the mint was bought on the curve as well: no other  *)
(* such position ever carries one, whatever accumulates, is sold, is       *)
(* removed, crashes or comes back from the file.                           *)
(***************************************************************************)
THEOREM AmmNeverMarked == Spec => []AbandonHarmless
<1>1. AmmInv => AbandonHarmless
  BY DEF AmmInv, AbandonHarmless, BlankMap, Blank, Held, Never
<1> QED
  BY AmmInvInit, AmmInvNext, <1>1, PTL DEF Spec

-----------------------------------------------------------------------------
(***************************************************************************)
(* Orders while the monitor is their only source.  A mint with an order    *)
(* under way is marked, or about to be, so the next snapshot passes over   *)
(* it and the periodic validation leaves it alone; and what a tick has yet *)
(* to look at in an old snapshot has only grown since.                     *)
(***************************************************************************)
Busy(m) ==
  \/ execPc # "idle" /\ execOrder.mint = m
  \/ \E i \in 1 .. Len(sellQueue) : sellQueue[i].mint = m

OneEach ==
  /\ \A i, j \in 1 .. Len(sellQueue) : sellQueue[i].mint = sellQueue[j].mint => i = j
  /\ execPc # "idle" => \A i \in 1 .. Len(sellQueue) : sellQueue[i].mint # execOrder.mint
  /\ monPc = "queue" => ~Busy(monOrder.mint)

\* the position has what the order sells, and has not sold its level
Covers(h, o) ==
  /\ h # NoHolding
  /\ o.amount <= h.amount
  /\ o.kind = "tp" => o.level \notin h.tp
  /\ o.kind = "sl" => o.level \notin h.sl

Watched(m) == positions[m].pending \/ (monPc = "mark" /\ monOrder.mint = m)

Sound(o) == Covers(positions[o.mint], o) /\ Watched(o.mint)

OrdersSound ==
  /\ execPc # "idle" => Sound(execOrder)
  /\ \A i \in 1 .. Len(sellQueue) : Sound(sellQueue[i])
  /\ monPc = "queue" => Covers(positions[monOrder.mint], monOrder)

Follows(m) ==
  /\ Held(m)
  /\ monSnap[m].amount <= positions[m].amount
  /\ positions[m].tp = monSnap[m].tp
  /\ positions[m].sl = monSnap[m].sl

ToLookAt(m) ==
  /\ m \in monTodo /\ ~Passed(monSnap[m])
  /\ monPc = "tick" \/ (monPc \in {"queue", "mark"} /\ monOrder.mint # m)

SnapshotServes == \A m \in Mints : ToLookAt(m) => ~Busy(m) /\ Follows(m)

ValidationApart ==
  /\ \A m \in valTodo["periodic"] : ~Busy(m)
  /\ valMint["periodic"] # NoMint => ~Busy(valMint["periodic"])
  /\ monPc # "revalidate" =>
       "periodic" \notin valOn /\ valTodo["periodic"] = {} /\ valMint["periodic"] = NoMint
  /\ "startup" \notin valOn /\ valTodo["startup"] = {} /\ valMint["startup"] = NoMint

OrderInv ==
  OneEach /\ OrdersSound /\ SnapshotServes /\ ValidationApart /\ mirrorOrder = NoOrder

LEMMA OrderInvInit == Init => OrderInv
<1> SUFFICES ASSUME Init PROVE OrderInv
  OBVIOUS
<1>1. Len(sellQueue) = 0 /\ execPc = "idle" /\ monPc = "idle"
  BY DEF Init, SellInit
<1>2. ValidationApart /\ mirrorOrder = NoOrder
  BY <1>1 DEF Init, SellInit, ValidationApart, Validations
<1> QED
  BY <1>1, <1>2 DEF OrderInv, OneEach, OrdersSound, SnapshotServes, ToLookAt

LEMMA OrderMints ==
  ASSUME TypeOK
  PROVE  /\ \A i \in 1 .. Len(sellQueue) : sellQueue[i] \in Order /\ sellQueue[i].mint \in Mints
         /\ execPc # "idle" => execOrder \in Order /\ execOrder.mint \in Mints
         /\ monPc \in {"queue", "mark"} => monOrder \in Order /\ monOrder.mint \in Mints
         /\ Len(sellQueue) \in Nat
<1>1. \A o \in Order : o.mint \in Mints
  BY DEF Order, OrderRecord
<1>2. sellQueue \in Seq(Order)
  BY DEF TypeOK, SellTypeOK
<1>3. \A i \in 1 .. Len(sellQueue) : sellQueue[i] \in Order
  BY <1>2
<1>4. Len(sellQueue) \in Nat
  BY <1>2
<1>5. /\ execPc # "idle" => execOrder \in Order
      /\ monPc \in {"queue", "mark"} => monOrder \in Order
  BY DEF TypeOK, SellTypeOK
<1> QED BY <1>1, <1>3, <1>4, <1>5

(***************************************************************************)
(* A position that is held stays held, with no fewer tokens, the same      *)
(* levels and the mark it had.                                             *)
(***************************************************************************)
Grown(m) ==
  Held(m) =>
    /\ Held(m)'
    /\ positions[m].amount <= positions'[m].amount
    /\ positions'[m].tp = positions[m].tp
    /\ positions'[m].sl = positions[m].sl
    /\ positions[m].pending => positions'[m].pending

LEMMA GrownCovers ==
  ASSUME TypeOK, TypeOK', NEW m \in Mints, Grown(m),
         NEW o \in Order, Covers(positions[m], o)
  PROVE  Covers(positions'[m], o)
<1>1. o.amount \in Nat
  BY DEF Order, OrderRecord
<1>2. positions[m] \in Holding /\ positions'[m] \in Holding
  BY DEF Covers, Grown, Held, TypeOK, PositionsTypeOK, Positions
<1>3. positions[m].amount \in Nat /\ positions'[m].amount \in Nat
  BY <1>2 DEF Holding
<1> QED
  BY <1>1, <1>3 DEF Covers, Grown, Held

LEMMA GrownFollows ==
  ASSUME TypeOK, TypeOK', NEW m \in Mints, Grown(m), Follows(m), m \in HeldIn(monSnap),
         UNCHANGED monSnap
  PROVE  Follows(m)'
<1>1. monSnap[m] \in Holding /\ positions[m] \in Holding /\ positions'[m] \in Holding
  BY DEF HeldIn, Follows, Grown, Held, TypeOK, PositionsTypeOK, SellTypeOK, Positions
<1>2. monSnap[m].amount \in Nat /\ positions[m].amount \in Nat /\ positions'[m].amount \in Nat
  BY <1>1 DEF Holding
<1> QED
  BY <1>2 DEF Follows, Grown, Held

\* the sell side rests while positions grow
LEMMA GrowingKeepsOrders ==
  ASSUME TypeOK, TypeOK', OrderInv, UNCHANGED sellVars, \A m \in Mints : Grown(m)
  PROVE  OrderInv'
<1>1. /\ UNCHANGED <<monPc, monSnap, monTodo, monOrder, sellQueue, execPc, execOrder>>
      /\ UNCHANGED <<mirrorOrder, valOn, valTodo, valMint>>
  BY DEF sellVars
<1>2. \A m : Busy(m)' <=> Busy(m)
  BY <1>1 DEF Busy
<1>3. OneEach' /\ ValidationApart' /\ mirrorOrder' = NoOrder
  BY <1>1, <1>2 DEF OrderInv, OneEach, ValidationApart
<1>4. ASSUME NEW o \in Order, o.mint \in Mints, Sound(o) PROVE Sound(o)'
  <2>1. Covers(positions'[o.mint], o)
    BY <1>4, GrownCovers DEF Sound
  <2>2. Watched(o.mint)'
    BY <1>1, <1>4 DEF Sound, Watched, Covers, Grown, Held
  <2> QED BY <2>1, <2>2 DEF Sound
<1>5. OrdersSound'
  <2>1. execPc' # "idle" => Sound(execOrder)'
    BY <1>1, <1>4, OrderMints DEF OrderInv, OrdersSound, Sound, Watched
  <2>2. \A i \in 1 .. Len(sellQueue) : Sound(sellQueue[i])'
    BY <1>1, <1>4, OrderMints DEF OrderInv, OrdersSound, Sound, Watched
  <2>3. monPc' = "queue" => Covers(positions'[monOrder.mint], monOrder)
    BY <1>1, GrownCovers, OrderMints DEF OrderInv, OrdersSound
  <2> QED BY <1>1, <2>1, <2>2, <2>3 DEF OrdersSound, Sound, Watched
<1>6. SnapshotServes'
  <2> SUFFICES ASSUME NEW m \in Mints, ToLookAt(m)' PROVE ~Busy(m)' /\ Follows(m)'
    BY DEF SnapshotServes
  <2>1. ToLookAt(m) /\ m \in HeldIn(monSnap)
    BY <1>1 DEF ToLookAt, TypeOK, SellTypeOK
  <2> QED
    BY <1>1, <1>2, <2>1, GrownFollows DEF OrderInv, SnapshotServes
<1> QED BY <1>3, <1>5, <1>6 DEF OrderInv

\* what a look at a price decides on
LEMMA TriggeredCovered ==
  ASSUME NEW m \in Mints, NEW h \in Holding, NEW o \in Triggered(m, h)
  PROVE  o.mint = m /\ Covers(h, o)
<1>0. h # NoHolding
  BY PositionsAssumption
<1>1. CASE o \in TpOrders(m, h)
  <2>1. PICK i \in TpLevels \ h.tp : o = LevelOrder(m, h, "tp", i, TpPercent[i])
    BY <1>1 DEF TpOrders
  <2>2. LevelAmount(h, TpPercent[i]) <= h.amount
    BY LevelAmountType, PositionsAssumption
  <2> QED BY <1>0, <2>1, <2>2 DEF LevelOrder, Covers
<1>2. CASE o \in SlOrders(m, h)
  <2>1. PICK i \in SlLevels \ h.sl : o = LevelOrder(m, h, "sl", i, SlPercent[i])
    BY <1>2 DEF SlOrders
  <2>2. LevelAmount(h, SlPercent[i]) <= h.amount
    BY LevelAmountType, PositionsAssumption
  <2> QED BY <1>0, <2>1, <2>2 DEF LevelOrder, Covers
<1>3. CASE o \in ExitOrders(m, h)
  <2>1. h.amount \in Nat
    BY DEF Holding
  <2> QED BY <1>0, <1>3, <2>1 DEF ExitOrders, Covers
<1> QED BY <1>1, <1>2, <1>3 DEF Triggered

LEMMA TickKeepsOrders ==
  ASSUME TypeOK, OrderInv, MonTick
  PROVE  OrderInv'
<1>1. /\ monPc = "idle" /\ monPc' = "tick" /\ monSnap' = positions
      /\ UNCHANGED <<monOrder, sellQueue, execPc, execOrder, mirrorOrder>>
      /\ UNCHANGED <<valOn, valTodo, valMint, positions>>
  BY DEF MonTick, execVars, mainVars, valVars
<1>2. \A m : Busy(m)' <=> Busy(m)
  BY <1>1 DEF Busy
<1>3. OneEach' /\ ValidationApart' /\ mirrorOrder' = NoOrder
  BY <1>1, <1>2 DEF OrderInv, OneEach, ValidationApart
<1>4. OrdersSound'
  BY <1>1 DEF OrderInv, OrdersSound, Sound, Watched
<1>5. ASSUME NEW m \in Mints, ToLookAt(m)' PROVE ~Busy(m)' /\ Follows(m)'
  <2>1. Held(m) /\ ~positions[m].pending
    BY <1>1, <1>5 DEF ToLookAt, Passed, MonTick, HeldIn, Held
  <2>2. ~Busy(m)
    BY <1>1, <2>1 DEF OrderInv, OrdersSound, Sound, Watched, Busy
  <2>3. positions[m].amount <= positions[m].amount
    BY <2>1 DEF TypeOK, PositionsTypeOK, Positions, Held, Holding
  <2> QED BY <1>1, <1>2, <2>1, <2>2, <2>3 DEF Follows, Held
<1> QED BY <1>3, <1>4, <1>5 DEF OrderInv, SnapshotServes

\* a step of the tick that shrinks what is left to look at
LEMMA LookingKeepsOrders ==
  ASSUME TypeOK, TypeOK', OrderInv, monPc = "tick", monPc' \in {"tick", "idle"},
         monTodo' \subseteq monTodo,
         monPc' = "tick" => UNCHANGED monSnap,
         UNCHANGED <<monOrder, sellQueue, execVars, mainVars, valVars>>,
         \A m \in Mints : Grown(m)
  PROVE  OrderInv'
<1>1. /\ UNCHANGED <<monOrder, sellQueue, execPc, execOrder, mirrorOrder>>
      /\ UNCHANGED <<valOn, valTodo, valMint>>
  BY DEF execVars, mainVars, valVars
<1>2. \A m : Busy(m)' <=> Busy(m)
  BY <1>1 DEF Busy
<1>3. OneEach' /\ ValidationApart' /\ mirrorOrder' = NoOrder
  BY <1>1, <1>2 DEF OrderInv, OneEach, ValidationApart
<1>4. ASSUME NEW o \in Order, o.mint \in Mints, Sound(o) PROVE Sound(o)'
  <2>1. Covers(positions'[o.mint], o)
    BY <1>4, GrownCovers DEF Sound
  <2>2. Watched(o.mint)'
    BY <1>1, <1>4 DEF Sound, Watched, Covers, Grown, Held
  <2> QED BY <2>1, <2>2 DEF Sound
<1>5. OrdersSound'
  <2>1. execPc' # "idle" => Sound(execOrder)'
    BY <1>1, <1>4, OrderMints DEF OrderInv, OrdersSound, Sound, Watched
  <2>2. \A i \in 1 .. Len(sellQueue) : Sound(sellQueue[i])'
    BY <1>1, <1>4, OrderMints DEF OrderInv, OrdersSound, Sound, Watched
  <2> QED BY <1>1, <2>1, <2>2 DEF OrdersSound, Sound, Watched
<1>6. SnapshotServes'
  <2> SUFFICES ASSUME NEW m \in Mints, ToLookAt(m)' PROVE ~Busy(m)' /\ Follows(m)'
    BY DEF SnapshotServes
  <2>1. ToLookAt(m) /\ m \in HeldIn(monSnap) /\ UNCHANGED monSnap
    BY <1>1 DEF ToLookAt, TypeOK, SellTypeOK
  <2> QED
    BY <1>2, <2>1, GrownFollows DEF OrderInv, SnapshotServes
<1> QED BY <1>3, <1>5, <1>6 DEF OrderInv

LEMMA DecidingKeepsOrders ==
  ASSUME TypeOK, OrderInv, NEW m \in Mints, MonDecide(m)
  PROVE  OrderInv'
<1>1. /\ monPc = "tick" /\ monPc' = "queue"
      /\ UNCHANGED <<monSnap, monTodo, sellQueue, execPc, execOrder, mirrorOrder>>
      /\ UNCHANGED <<valOn, valTodo, valMint, positions>>
  BY DEF MonDecide, execVars, mainVars, valVars
<1>2. \A n : Busy(n)' <=> Busy(n)
  BY <1>1 DEF Busy
<1>3. ToLookAt(m)
  BY DEF MonDecide, ToLookAt
<1>4. monSnap[m] \in Holding
  BY <1>3 DEF ToLookAt, TypeOK, SellTypeOK, HeldIn, Positions
<1>5. monOrder' \in Order /\ monOrder'.mint = m /\ Covers(monSnap[m], monOrder')
  BY <1>4, TriggeredType, TriggeredCovered DEF MonDecide
<1>6. ~Busy(m) /\ Follows(m)
  BY <1>3 DEF OrderInv, SnapshotServes
<1>7. Covers(positions[m], monOrder')
  <2>1. monOrder'.amount \in Nat
    BY <1>5 DEF Order, OrderRecord
  <2>2. monSnap[m].amount \in Nat /\ positions[m].amount \in Nat
    BY <1>4, <1>6 DEF Follows, Held, TypeOK, PositionsTypeOK, Positions, Holding
  <2> QED BY <1>5, <1>6, <2>1, <2>2 DEF Covers, Follows, Held
<1>8. OneEach' /\ ValidationApart' /\ mirrorOrder' = NoOrder
  BY <1>1, <1>2, <1>5, <1>6 DEF OrderInv, OneEach, ValidationApart
<1>9. OrdersSound'
  BY <1>1, <1>5, <1>7 DEF OrderInv, OrdersSound, Sound, Watched
<1>10. SnapshotServes'
  BY <1>1, <1>2 DEF OrderInv, SnapshotServes, ToLookAt, Follows, Held
<1> QED BY <1>8, <1>9, <1>10 DEF OrderInv

LEMMA QueueingKeepsOrders ==
  ASSUME TypeOK, OrderInv, MonQueue
  PROVE  OrderInv'
<1> DEFINE n == Len(sellQueue)
<1>1. /\ monPc = "queue" /\ monPc' = "mark" /\ sellQueue' = Append(sellQueue, monOrder)
      /\ UNCHANGED <<monSnap, monTodo, monOrder, execPc, execOrder, mirrorOrder>>
      /\ UNCHANGED <<valOn, valTodo, valMint, positions>>
  BY DEF MonQueue, execVars, mainVars, valVars
<1>2. n \in Nat /\ Len(sellQueue') = n + 1 /\ sellQueue'[n + 1] = monOrder
      /\ \A i \in 1 .. n : sellQueue'[i] = sellQueue[i]
  BY <1>1 DEF TypeOK, SellTypeOK
<1>3. ~Busy(monOrder.mint) /\ Covers(positions[monOrder.mint], monOrder)
  BY <1>1 DEF OrderInv, OneEach, OrdersSound
<1> HIDE DEF n
<1>4. \A m : Busy(m)' <=> Busy(m) \/ m = monOrder.mint
  BY <1>1, <1>2 DEF Busy, n
<1>5. OneEach'
  BY <1>1, <1>2, <1>3 DEF OrderInv, OneEach, Busy, n
<1>6. OrdersSound'
  BY <1>1, <1>2, <1>3 DEF OrderInv, OrdersSound, Sound, Watched, n
<1>7. SnapshotServes'
  BY <1>1, <1>4 DEF OrderInv, SnapshotServes, ToLookAt, Follows, Held
<1>8. ValidationApart' /\ mirrorOrder' = NoOrder
  BY <1>1 DEF OrderInv, ValidationApart
<1> QED BY <1>5, <1>6, <1>7, <1>8 DEF OrderInv

LEMMA FlagAlone ==
  ASSUME positions \in Positions, NEW m \in Mints, NEW flag \in BOOLEAN,
         SetPendingFlag(m, flag)
  PROVE  /\ \A n \in Mints \ {m} : positions'[n] = positions[n]
         /\ Held(m) => /\ Held(m)'
                       /\ positions'[m].pending = flag
                       /\ positions'[m].amount = positions[m].amount
                       /\ positions'[m].tp = positions[m].tp
                       /\ positions'[m].sl = positions[m].sl
<1>1. positions'[m] = IF Held(m) THEN [positions[m] EXCEPT !.pending = flag] ELSE NoHolding
  BY DEF SetPendingFlag, Positions
<1>2. \A n \in Mints \ {m} : positions'[n] = positions[n]
  BY DEF SetPendingFlag, Positions
<1>3. CASE Held(m)
  <2>1. positions[m] \in Holding
    BY <1>3 DEF Held, Positions
  <2>2. [positions[m] EXCEPT !.pending = flag] \in Holding
    BY <2>1 DEF Holding
  <2>3. /\ [positions[m] EXCEPT !.pending = flag].pending = flag
        /\ [positions[m] EXCEPT !.pending = flag].amount = positions[m].amount
        /\ [positions[m] EXCEPT !.pending = flag].tp = positions[m].tp
        /\ [positions[m] EXCEPT !.pending = flag].sl = positions[m].sl
    BY <2>1 DEF Holding
  <2> QED BY <1>1, <1>2, <1>3, <2>2, <2>3, PositionsAssumption DEF Held
<1> QED BY <1>2, <1>3

LEMMA MarkingKeepsOrders ==
  ASSUME TypeOK, OrderInv, MonMark
  PROVE  OrderInv'
<1>0. PICK m \in Mints : m = monOrder.mint
  BY OrderMints DEF MonMark
<1>1. /\ monPc = "mark" /\ monPc' = "tick" /\ monTodo' = monTodo \ {m}
      /\ UNCHANGED <<monSnap, sellQueue, execPc, execOrder, mirrorOrder>>
      /\ UNCHANGED <<valOn, valTodo, valMint>>
  BY <1>0 DEF MonMark, Looked, execVars, mainVars, valVars
<1>3. \A n \in Mints \ {m} : positions'[n] = positions[n]
  BY <1>0, FlagAlone DEF MonMark, SetPendingSell, TypeOK, PositionsTypeOK
<1>4. Held(m) => /\ positions'[m].pending
                 /\ positions'[m].amount = positions[m].amount
                 /\ positions'[m].tp = positions[m].tp
                 /\ positions'[m].sl = positions[m].sl
                 /\ Held(m)'
  BY <1>0, FlagAlone DEF MonMark, SetPendingSell, TypeOK, PositionsTypeOK
<1>5. \A o : Busy(o)' <=> Busy(o)
  BY <1>1 DEF Busy
<1>6. OneEach' /\ ValidationApart' /\ mirrorOrder' = NoOrder
  BY <1>1, <1>5 DEF OrderInv, OneEach, ValidationApart
<1>7. ASSUME NEW o, o.mint \in Mints, Sound(o)
      PROVE  Covers(positions'[o.mint], o) /\ positions'[o.mint].pending
  <2>1. CASE o.mint = m
    BY <1>4, <1>7, <2>1 DEF Sound, Covers, Held
  <2>2. CASE o.mint # m
    BY <1>0, <1>1, <1>3, <1>7, <2>2 DEF Sound, Watched
  <2> QED BY <2>1, <2>2
<1>8. OrdersSound'
  BY <1>1, <1>7, OrderMints DEF OrderInv, OrdersSound, Sound, Watched
<1>9. SnapshotServes'
  <2> SUFFICES ASSUME NEW o \in Mints, ToLookAt(o)' PROVE ~Busy(o)' /\ Follows(o)'
    BY DEF SnapshotServes
  <2>1. o # m /\ ToLookAt(o)
    BY <1>0, <1>1 DEF ToLookAt
  <2> QED BY <1>1, <1>3, <1>5, <2>1 DEF OrderInv, SnapshotServes, Follows, Held
<1> QED BY <1>6, <1>8, <1>9 DEF OrderInv

LEMMA MonKeepsOrders ==
  ASSUME TypeOK, TypeOK', OrderInv, MonStep
  PROVE  OrderInv'
<1>1. \A m \in Mints : positions[m] # NoHolding => positions[m].amount <= positions[m].amount
  BY DEF TypeOK, PositionsTypeOK, Positions, Holding
<1>2. CASE MonTickEmpty
  BY <1>1, <1>2, GrowingKeepsOrders DEF MonTickEmpty, Grown, Held
<1>3. ASSUME NEW m \in Mints, MonHold(m) PROVE OrderInv'
  BY <1>1, <1>3, LookingKeepsOrders DEF MonHold, Looked, Grown, Held
<1>4. ASSUME NEW m \in Mints, MonMigrated(m) PROVE OrderInv'
  <2>1. \A n \in Mints \ {m} : positions'[n] = positions[n]
    BY <1>4 DEF MonMigrated, MarkMigrated, TypeOK, PositionsTypeOK, Positions
  <2>2. positions'[m] = IF Held(m) THEN [positions[m] EXCEPT !.migrated = TRUE] ELSE NoHolding
    BY <1>4 DEF MonMigrated, MarkMigrated, TypeOK, PositionsTypeOK, Positions
  <2>3. ASSUME Held(m)
        PROVE  /\ [positions[m] EXCEPT !.migrated = TRUE] \in Holding
               /\ [positions[m] EXCEPT !.migrated = TRUE].amount = positions[m].amount
               /\ [positions[m] EXCEPT !.migrated = TRUE].tp = positions[m].tp
               /\ [positions[m] EXCEPT !.migrated = TRUE].sl = positions[m].sl
               /\ [positions[m] EXCEPT !.migrated = TRUE].pending = positions[m].pending
    <3>1. positions[m] \in Holding
      BY <2>3 DEF Held, TypeOK, PositionsTypeOK, Positions
    <3> QED BY <3>1 DEF Holding
  <2>4. Grown(m)
    BY <1>1, <2>2, <2>3, PositionsAssumption DEF Grown, Held
  <2>5. \A n \in Mints : Grown(n)
    BY <1>1, <2>1, <2>4 DEF Grown, Held
  <2> QED
    BY <1>4, <2>5, LookingKeepsOrders DEF MonMigrated, Looked
<1>5. CASE MonTickDone
  BY <1>1, <1>5, LookingKeepsOrders DEF MonTickDone, Grown, Held
<1>6. CASE RevalStart
  <2>1. /\ monPc = "idle" /\ monPc' = "revalidate"
        /\ UNCHANGED <<monSnap, monTodo, monOrder, sellQueue, execPc, execOrder, mirrorOrder>>
        /\ UNCHANGED <<valMint, positions>>
    BY <1>6 DEF RevalStart, execVars, mainVars
  <2>2. \A m : Busy(m)' <=> Busy(m)
    BY <2>1 DEF Busy
  <2>3. /\ valOn' = valOn \cup {"periodic"}
        /\ valTodo'["periodic"] = {m \in HeldIn(positions) : ~positions[m].pending}
        /\ valTodo'["startup"] = valTodo["startup"]
    BY <1>6 DEF RevalStart, TypeOK, SellTypeOK, Validations
  <2>4. \A m \in Mints : Busy(m) => positions[m].pending
    BY <2>1 DEF OrderInv, OrdersSound, Sound, Watched, Busy
  <2>5. ValidationApart'
    BY <2>1, <2>2, <2>3, <2>4 DEF OrderInv, ValidationApart, HeldIn
  <2>6. OneEach' /\ OrdersSound' /\ mirrorOrder' = NoOrder
    BY <2>1, <2>2 DEF OrderInv, OneEach, OrdersSound, Sound, Watched
  <2>7. SnapshotServes'
    BY <2>1 DEF SnapshotServes, ToLookAt
  <2> QED BY <2>5, <2>6, <2>7 DEF OrderInv
<1> QED
  BY <1>2, <1>3, <1>4, <1>5, <1>6, TickKeepsOrders, DecidingKeepsOrders,
     QueueingKeepsOrders, MarkingKeepsOrders
  DEF MonStep

LEMMA ValKeepsOrders ==
  ASSUME TypeOK, OrderInv, ValStep
  PROVE  OrderInv'
<1>1. PICK v \in Validations : \/ \E m \in Mints : ValKeep(v, m) \/ ValFindsNone(v, m)
                               \/ ValRemove(v)
                               \/ ValDone(v)
  BY DEF ValStep
<1>2. v = "periodic" /\ monPc = "revalidate"
  BY <1>1 DEF ValKeep, ValFindsNone, ValRemove, ValDone, OrderInv, ValidationApart, Validations
<1>3. /\ UNCHANGED <<monSnap, monTodo, monOrder, sellQueue, execPc, execOrder, mirrorOrder>>
      /\ monPc' \in {"revalidate", "idle"}
  BY <1>1, <1>2 DEF ValKeep, ValFindsNone, ValRemove, ValDone, monVars, execVars, mainVars
<1>4. \A m : Busy(m)' <=> Busy(m)
  BY <1>3 DEF Busy
<1>5. OneEach' /\ SnapshotServes' /\ mirrorOrder' = NoOrder
  BY <1>3, <1>4 DEF OrderInv, OneEach, SnapshotServes, ToLookAt
<1>6. \A m \in Mints : Busy(m) => positions'[m] = positions[m]
  BY <1>1, <1>2
  DEF ValKeep, ValFindsNone, ValRemove, ValDone, RemoveEntry, OrderInv, ValidationApart,
      TypeOK, PositionsTypeOK, Positions
<1>7. OrdersSound'
  <2>1. execPc # "idle" => Busy(execOrder.mint) /\ execOrder.mint \in Mints /\ Sound(execOrder)
    BY OrderMints DEF Busy, OrderInv, OrdersSound
  <2>2. \A i \in 1 .. Len(sellQueue) :
          Busy(sellQueue[i].mint) /\ sellQueue[i].mint \in Mints /\ Sound(sellQueue[i])
    BY OrderMints DEF Busy, OrderInv, OrdersSound
  <2> QED
    BY <1>2, <1>3, <1>6, <2>1, <2>2 DEF OrdersSound, Sound, Watched
<1>8. ValidationApart'
  <2>1. CASE \E m \in Mints : ValKeep(v, m) \/ ValFindsNone(v, m)
    BY <1>2, <1>3, <1>4, <2>1
    DEF ValKeep, ValFindsNone, monVars, OrderInv, ValidationApart, TypeOK, SellTypeOK, Validations
  <2>2. CASE ValRemove(v)
    BY <1>2, <1>3, <1>4, <2>2
    DEF ValRemove, monVars, OrderInv, ValidationApart, TypeOK, SellTypeOK, Validations
  <2>3. CASE ValDone(v)
    BY <1>2, <1>3, <1>4, <2>3
    DEF ValDone, OrderInv, ValidationApart
  <2> QED BY <1>1, <2>1, <2>2, <2>3
<1> QED BY <1>5, <1>7, <1>8 DEF OrderInv

\* an order ends, whatever it leaves of its own position
LEMMA EndingKeepsOrders ==
  ASSUME TypeOK, OrderInv, execPc # "idle", execPc' = "idle",
         UNCHANGED <<monVars, sellQueue, mainVars, valVars>>,
         \A m \in Mints : m # execOrder.mint => positions'[m] = positions[m]
  PROVE  OrderInv'
<1>1. /\ UNCHANGED <<monPc, monSnap, monTodo, monOrder, sellQueue, mirrorOrder>>
      /\ UNCHANGED <<valOn, valTodo, valMint>>
  BY DEF monVars, mainVars, valVars
<1>2. \A m : Busy(m)' => Busy(m) /\ m # execOrder.mint
  BY <1>1 DEF Busy, OrderInv, OneEach
<1>3. OneEach' /\ ValidationApart' /\ mirrorOrder' = NoOrder
  BY <1>1, <1>2 DEF OrderInv, OneEach, ValidationApart
<1>4. \A i \in 1 .. Len(sellQueue) :
        positions'[sellQueue[i].mint] = positions[sellQueue[i].mint]
  BY OrderMints DEF OrderInv, OneEach
<1>5. monPc = "queue" => positions'[monOrder.mint] = positions[monOrder.mint]
  BY OrderMints DEF OrderInv, OneEach, Busy
<1>6. OrdersSound'
  BY <1>1, <1>4, <1>5 DEF OrderInv, OrdersSound, Sound, Watched
<1>7. ASSUME NEW m \in Mints, ToLookAt(m)' PROVE ~Busy(m)' /\ Follows(m)'
  <2>1. ~Busy(m) /\ Follows(m)
    BY <1>1, <1>7 DEF OrderInv, SnapshotServes, ToLookAt
  <2>2. m # execOrder.mint
    BY <2>1 DEF Busy
  <2> QED BY <1>1, <1>2, <2>1, <2>2 DEF Follows, Held
<1> QED BY <1>3, <1>6, <1>7 DEF OrderInv, SnapshotServes

LEMMA TakingKeepsOrders ==
  ASSUME TypeOK, OrderInv, ExecTake \/ ExecSkip
  PROVE  OrderInv'
<1> DEFINE n == Len(sellQueue)
<1>1. /\ execPc = "idle" /\ sellQueue # <<>> /\ sellQueue' = Tail(sellQueue)
      /\ UNCHANGED <<monPc, monSnap, monTodo, monOrder, mirrorOrder>>
      /\ UNCHANGED <<valOn, valTodo, valMint, positions>>
      /\ execPc' # "idle" => execOrder' = Head(sellQueue)
  BY DEF ExecTake, ExecSkip, execVars, monVars, mainVars, valVars
<1>2. /\ n \in Nat /\ n > 0 /\ Len(sellQueue') = n - 1 /\ Head(sellQueue) = sellQueue[1]
      /\ \A i \in 1 .. n - 1 : sellQueue'[i] = sellQueue[i + 1]
  BY <1>1 DEF TypeOK, SellTypeOK
<1> HIDE DEF n
<1>3. \A i \in 1 .. Len(sellQueue') : i + 1 \in 1 .. n /\ sellQueue'[i] = sellQueue[i + 1]
  BY <1>2
<1>4. 1 \in 1 .. n /\ \A i \in 1 .. Len(sellQueue') : i + 1 # 1
  BY <1>2
<1>5. \A m : Busy(m)' => Busy(m)
  BY <1>1, <1>2, <1>3, <1>4 DEF Busy, n
<1>6. OneEach'
  <2>1. \A i, j \in 1 .. Len(sellQueue') : sellQueue'[i].mint = sellQueue'[j].mint => i = j
    <3> SUFFICES ASSUME NEW i \in 1 .. Len(sellQueue'), NEW j \in 1 .. Len(sellQueue'),
                        sellQueue'[i].mint = sellQueue'[j].mint
                 PROVE  i = j
      OBVIOUS
    <3>1. i + 1 = j + 1
      BY <1>3 DEF OrderInv, OneEach, n
    <3> QED BY <1>2, <3>1
  <2>2. execPc' # "idle" => \A i \in 1 .. Len(sellQueue') : sellQueue'[i].mint # execOrder'.mint
    BY <1>1, <1>2, <1>3, <1>4 DEF OrderInv, OneEach, n
  <2>3. monPc' = "queue" => ~Busy(monOrder.mint)'
    <3>1. monPc = "queue" => ~Busy(monOrder.mint)
      BY DEF OrderInv, OneEach
    <3> QED BY <1>1, <1>5, <3>1
  <2> QED BY <2>1, <2>2, <2>3 DEF OneEach
<1>7. OrdersSound'
  BY <1>1, <1>2, <1>3, <1>4 DEF OrderInv, OrdersSound, Sound, Watched, n
<1>8. SnapshotServes' /\ ValidationApart' /\ mirrorOrder' = NoOrder
  BY <1>1, <1>5 DEF OrderInv, SnapshotServes, ToLookAt, Follows, Held, ValidationApart
<1> QED BY <1>6, <1>7, <1>8 DEF OrderInv

LEMMA ExecKeepsOrders ==
  ASSUME TypeOK, OrderInv, ExecStep
  PROVE  OrderInv'
<1>1. CASE ExecFail
  <2>1. execPc # "idle" /\ execOrder.mint \in Mints
    BY <1>1, OrderMints DEF ExecFail, SellMayFail
  <2>2. \A m \in Mints : m # execOrder.mint => positions'[m] = positions[m]
    BY <1>1, <2>1, FlagAlone DEF ExecFail, ClearPendingSell, TypeOK, PositionsTypeOK
  <2> QED BY <1>1, <2>1, <2>2, EndingKeepsOrders DEF ExecFail, ExecIdles
<1>2. CASE ExecAbandon
  BY <1>2, EndingKeepsOrders DEF ExecAbandon, SellMayFail, ExecIdles
<1>3. CASE ExecSend
  <2>1. /\ execPc # "idle" /\ execPc' # "idle"
        /\ UNCHANGED <<execOrder, sellQueue, monPc, monSnap, monTodo, monOrder, mirrorOrder>>
        /\ UNCHANGED <<valOn, valTodo, valMint, positions>>
    BY <1>3 DEF ExecSend, monVars, mainVars, valVars
  <2>2. \A m : Busy(m)' <=> Busy(m)
    BY <2>1 DEF Busy
  <2> QED
    BY <2>1, <2>2
    DEF OrderInv, OneEach, OrdersSound, Sound, Watched, SnapshotServes, ToLookAt, Follows,
        Held, ValidationApart
<1>4. CASE ExecNothingToSell \/ ExecDone
  <2>1. execPc # "idle"
    BY <1>4 DEF ExecNothingToSell, ExecDone
  <2>2. \A m \in Mints : m # execOrder.mint => positions'[m] = positions[m]
    BY <1>4 DEF ExecNothingToSell, ExecDone, UpdateAfterSell, TypeOK, PositionsTypeOK, Positions
  <2> QED
    BY <1>4, <2>1, <2>2, EndingKeepsOrders DEF ExecNothingToSell, ExecDone, ExecIdles
<1> QED
  BY <1>1, <1>2, <1>3, <1>4, TakingKeepsOrders DEF ExecStep

LEMMA AccumulatedFields ==
  ASSUME NEW h \in Holding, NEW a
  PROVE  /\ Accumulated(h, a).amount = h.amount + a
         /\ Accumulated(h, a).tp = h.tp
         /\ Accumulated(h, a).sl = h.sl
         /\ Accumulated(h, a).pending = h.pending
  BY DEF Accumulated, Holding

LEMMA BuyingGrows ==
  ASSUME MapInv, BuyStep
  PROVE  \A m \in Mints : Grown(m)
<1>1. PICK t \in Tasks : Dispatch(t) \/ TaskStep(t) \/ ChainStep(t)
  BY DEF BuyStep
<1>2. \A m \in Mints : positions[m] # NoHolding => positions[m].amount \in Nat
  BY DEF MapInv, TypeOK, PositionsTypeOK, Positions, Holding
<1>3. CASE UNCHANGED positions
  BY <1>2, <1>3 DEF Grown, Held
<1>4. CASE RegisterNew(t)
  <2>1. ~Held(MintOf[t])
    BY <1>4 DEF MapInv, NeverOverwritten, RegisterNew, GoTo, DecidedPhases
  <2>2. \A m \in Mints : m # MintOf[t] => positions'[m] = positions[m]
    BY <1>4 DEF RegisterNew, AddPosition, MapInv, TypeOK, PositionsTypeOK, Positions
  <2> QED BY <1>2, <2>1, <2>2 DEF Grown, Held
<1>5. CASE RegisterMore(t)
  <2>1. PICK m \in Mints : m = MintOf[t]
    BY BuyTasksAssumption
  <2>2. \A n \in Mints \ {m} : positions'[n] = positions[n]
    BY <1>5, <2>1 DEF RegisterMore, AccumulatePosition, MapInv, TypeOK, PositionsTypeOK, Positions
  <2>3. bought[t] \in Nat
    BY DEF MapInv, TypeOK, BuyTypeOK
  <2>4. ASSUME Held(m)
        PROVE  /\ Accumulated(positions[m], bought[t]) \in Holding
               /\ Accumulated(positions[m], bought[t]).amount = positions[m].amount + bought[t]
               /\ Accumulated(positions[m], bought[t]).tp = positions[m].tp
               /\ Accumulated(positions[m], bought[t]).sl = positions[m].sl
               /\ Accumulated(positions[m], bought[t]).pending = positions[m].pending
    <3>1. positions[m] \in Holding
      BY <2>4 DEF Held, MapInv, TypeOK, PositionsTypeOK, Positions
    <3>2. Accumulated(positions[m], bought[t]) \in Holding
      BY <2>3, <3>1, AccumulatedType
    <3> QED BY <3>1, <3>2, AccumulatedFields
  <2>5. Held(m) => positions'[m] = Accumulated(positions[m], bought[t])
    BY <1>5, <2>1 DEF RegisterMore, AccumulatePosition, MapInv, TypeOK, PositionsTypeOK, Positions
  <2>6. Grown(m)
    BY <1>2, <2>3, <2>4, <2>5, PositionsAssumption DEF Grown, Held
  <2> QED BY <1>2, <2>2, <2>6 DEF Grown, Held
<1>6. Dispatch(t) \/ ChainStep(t) => UNCHANGED positions
  BY DEF Dispatch, Spawn, ChainStep, Land, Drop
<1>7. TaskStep(t) => UNCHANGED positions \/ RegisterNew(t) \/ RegisterMore(t)
  BY DEF TaskStep, AcquireSkip, AcquireWin, ReadHolding, CheckCount, Screen, SendFails, SendTx,
         BuyReturns, BuyErrs, PersistNew, Release
<1> QED BY <1>1, <1>3, <1>4, <1>5, <1>6, <1>7

SellInv == MapInv /\ (MonitorOnly => OrderInv)

LEMMA SellInvNext == SellInv /\ [Next]_vars => SellInv'
<1> SUFFICES ASSUME SellInv, [Next]_vars, MonitorOnly' PROVE OrderInv'
  BY MapInvNext DEF SellInv
<1>1. TypeOK /\ TypeOK' /\ MapInv
  BY MapInvNext DEF SellInv, MapInv
<1>2. CASE UNCHANGED vars
  <2>1. MonitorOnly /\ UNCHANGED sellVars /\ UNCHANGED positions
    BY <1>2 DEF vars, MonitorOnly, sellVars
  <2>2. \A m \in Mints : Grown(m)
    BY <1>1, <2>1 DEF Grown, Held, TypeOK, PositionsTypeOK, Positions, Holding
  <2> QED BY <1>1, <2>1, <2>2, GrowingKeepsOrders DEF SellInv
<1>3. CASE BuyStep
  <2>1. MonitorOnly /\ UNCHANGED sellVars
    BY <1>3 DEF BuyStep, MonitorOnly, sellVars
  <2> QED BY <1>1, <1>3, <2>1, BuyingGrows, GrowingKeepsOrders DEF SellInv
<1>4. CASE SellStep /\ (MonStep \/ ValStep \/ ExecStep)
  <2>1. UNCHANGED targetSells
    <3>1. CASE MonStep
      BY <3>1
      DEF MonStep, MonTick, MonTickEmpty, MonHold, MonMigrated, MonDecide, MonQueue, MonMark,
          MonTickDone, RevalStart, mainVars, sellVars
    <3>2. CASE ValStep
      BY <3>2 DEF ValStep, ValKeep, ValFindsNone, ValRemove, ValDone, mainVars
    <3>3. CASE ExecStep
      BY <3>3
      DEF ExecStep, ExecTake, ExecSkip, ExecFail, ExecAbandon, ExecSend, ExecNothingToSell,
          ExecDone, mainVars
    <3> QED BY <1>4, <3>1, <3>2, <3>3
  <2>2. OrderInv
    BY <1>4, <2>1 DEF SellStep, SellInv, MonitorOnly
  <2> QED BY <1>1, <1>4, <2>2, MonKeepsOrders, ValKeepsOrders, ExecKeepsOrders
<1>5. CASE SellStep /\ MirrorStep
  <2>1. CASE \E m \in Mints : MirrorDecide(m) \/ MirrorSkip(m)
    BY <1>1, <2>1 DEF MirrorDecide, MirrorSkip, MonitorOnly, TypeOK, SellTypeOK
  <2>2. CASE MirrorQueue
    <3>1. MonitorOnly
      BY <1>5, <2>2 DEF SellStep, MirrorQueue, MonitorOnly
    <3> QED BY <2>2, <3>1 DEF MirrorQueue, SellInv, OrderInv
  <2> QED BY <1>5, <2>1, <2>2 DEF MirrorStep
<1>6. CASE Crash
  BY <1>1, <1>6, TradingAssumption DEF Crash, MonitorOnly, TypeOK
<1> QED BY <1>2, <1>3, <1>4, <1>5, <1>6 DEF Next, SellStep, SellNext

LEMMA SellInvHolds == Spec => []SellInv
<1>1. Init => SellInv
  BY MapInvInit, OrderInvInit DEF SellInv
<1> QED BY <1>1, SellInvNext, PTL DEF Spec

\* a set of at most one index
LEMMA OneIndex ==
  ASSUME NEW m, NEW i \in 1 .. Len(sellQueue), Queued(m) = {i}
  PROVE  Cardinality(Queued(m)) = 1
BY FS_Singleton

(***************************************************************************)
(* pending_sell does its work where it is respected: as long as orders     *)
(* come from the monitor alone, a mint has at most one order from the      *)
(* decision to the end of its execution, although the flag is set after    *)
(* the order has been sent and cleared by another task.                    *)
(***************************************************************************)
THEOREM OneOrderAtATime == Spec => []OneOrder
<1>1. SellInv => OneOrder
  <2> SUFFICES ASSUME SellInv, MonitorOnly, NEW m \in Mints
               PROVE  Cardinality(Queued(m))
                        + (IF monPc = "queue" /\ monOrder.mint = m THEN 1 ELSE 0)
                        + (IF execPc # "idle" /\ execOrder.mint = m THEN 1 ELSE 0) <= 1
    BY DEF OneOrder
  <2>1. OneEach
    BY DEF SellInv, OrderInv
  <2>2. CASE Queued(m) = {}
    BY <2>1, <2>2, FS_EmptySet DEF OneEach, Busy
  <2>3. CASE Queued(m) # {}
    <3>1. PICK i \in 1 .. Len(sellQueue) : sellQueue[i].mint = m
      BY <2>3 DEF Queued
    <3>2. Queued(m) = {i}
      BY <2>1, <3>1 DEF OneEach, Queued
    <3>3. ~ (monPc = "queue" /\ monOrder.mint = m) /\ ~ (execPc # "idle" /\ execOrder.mint = m)
      BY <2>1, <3>1 DEF OneEach, Busy
    <3>4. Cardinality(Queued(m)) = 1
      BY <3>2, OneIndex
    <3> QED BY <3>3, <3>4
  <2> QED BY <2>2, <2>3
<1> QED BY <1>1, SellInvHolds, PTL

\* every order under way is covered by its position
LEMMA FlyingCovered ==
  ASSUME SellInv, MonitorOnly, NEW m \in Mints, NEW o \in InFlight(m)
  PROVE  Covers(positions[m], o)
<1>1. OrdersSound /\ mirrorOrder = NoOrder
  BY DEF SellInv, OrderInv
<1>2. CASE o \in InHand /\ o.mint = m
  BY <1>1, <1>2 DEF InHand, OrdersSound, Sound
<1>3. CASE \E i \in Queued(m) : o = sellQueue[i]
  BY <1>1, <1>3 DEF Queued, OrdersSound, Sound
<1> QED BY <1>2, <1>3 DEF InFlight

(***************************************************************************)
(* Same condition: no level is sold again by an order from an old snapshot.*)
(***************************************************************************)
THEOREM LevelsFresh == Spec => []NoStaleLevel
<1>1. SellInv => NoStaleLevel
  BY FlyingCovered DEF NoStaleLevel, Covers
<1> QED BY <1>1, SellInvHolds, PTL

(***************************************************************************)
(* Same condition: update_after_sell subtracts what is there.              *)
(***************************************************************************)
THEOREM OrdersCovered == Spec => []OrderCovered
<1>1. SellInv => OrderCovered
  BY FlyingCovered DEF OrderCovered, Covers
<1> QED BY <1>1, SellInvHolds, PTL

-----------------------------------------------------------------------------
(***************************************************************************)
(* What positions, wallet and transactions under way have to do with each  *)
(* other.  A position never claims more than Cover; a buy that was sent    *)
(* has its tokens kept for it until they are registered, which is what     *)
(* registration needs.  Sells leave Cover alone but for the moment a sell  *)
(* is recorded, when position and Cover lose the same amount.              *)
(***************************************************************************)
Claim(m) == IF Held(m) THEN positions[m].amount ELSE 0

Estimates(m) == BuyAmount * Cardinality(Unlanded(m))

Cover(m) == wallet[m] + Estimates(m) + Settling(m)

Due(t) ==
  CASE phase[t] = "awaiting"    -> BuyAmount
    [] phase[t] = "registering" -> bought[t]
    [] OTHER                    -> 0

ClaimsCovered ==
  /\ \A m \in Mints : Claim(m) <= Cover(m)
  /\ \A t \in Tasks : phase[t] \in {"awaiting", "registering"} =>
       Claim(MintOf[t]) + Due(t) <= Cover(MintOf[t])

\* nothing is sent twice, and finitely many transactions have been sent
TxOnce ==
  /\ \A t \in Tasks :
       phase[t] \in {"idle", "spawned", "acquired", "counting", "screening", "sending"}
       => tx[t] = "none"
  /\ IsFiniteSet({t \in Tasks : tx[t] # "none"})

\* without accumulation a task that holds the slot finds no position
NewOnly ==
  ~AllowAccumulate =>
    \A t \in Tasks :
      /\ phase[t] = "acquired" => ~Held(MintOf[t])
      /\ phase[t] \in DecidedPhases => ~already[t]

\* no order, and nothing an order could come from
Untouched(m) ==
  /\ ~Held(m) /\ monSnap[m] = NoHolding
  /\ monPc \in {"queue", "mark"} => monOrder.mint # m
  /\ \A i \in 1 .. Len(sellQueue) : sellQueue[i].mint # m
  /\ execPc # "idle" => execOrder.mint # m
  /\ mirrorOrder # NoOrder => mirrorOrder.mint # m

FirstBuys ==
  OneBuyEach /\ crashes = 0 =>
    \A t \in Tasks :
      phase[t] \notin {"persisting", "releasing", "done"} => Untouched(MintOf[t])

BackedInv ==
  /\ TxOnce
  /\ NewOnly
  /\ FirstBuys
  /\ Honest => ClaimsCovered

-----------------------------------------------------------------------------

LEMMA TxOnceStep ==
  ASSUME MapInv, TxOnce, [Next]_vars
  PROVE  TxOnce'
<1> DEFINE Early == {"idle", "spawned", "acquired", "counting", "screening", "sending"}
           Seen == {t \in Tasks : tx[t] # "none"}
<1> USE DEF TxOnce, MapInv, TypeOK, BuyTypeOK, Phases, TxStates
<1>1. CASE UNCHANGED <<phase, tx>>
  BY <1>1
<1>2. ASSUME NEW t \in Tasks, SendTx(t)
      PROVE  TxOnce'
  <2>1. \A u \in Tasks : phase'[u] \in Early => phase[u] \in Early /\ tx'[u] = tx[u]
    BY <1>2 DEF SendTx, GoTo
  <2>2. Seen' = Seen \cup {t}
    BY <1>2 DEF SendTx
  <2>3. IsFiniteSet(Seen)
    OBVIOUS
  <2>4. IsFiniteSet(Seen \cup {t})
    BY <2>3, FS_AddElement
  <2>5. IsFiniteSet(Seen')
    BY <2>2, <2>4
  <2> QED BY <2>1, <2>5
<1>3. ASSUME NEW t \in Tasks, Land(t) \/ Drop(t)
      PROVE  TxOnce'
  <2>1. Seen' = Seen /\ \A u \in Tasks : tx[u] = "none" => tx'[u] = "none"
    BY <1>3 DEF Land, Drop
  <2>2. IsFiniteSet(Seen)
    OBVIOUS
  <2>3. phase' = phase
    BY <1>3 DEF Land, Drop
  <2>4. IsFiniteSet(Seen')
    BY <2>1, <2>2
  <2> QED BY <2>1, <2>3, <2>4
<1>4. ASSUME NEW t \in Tasks, Dispatch(t) \/ TaskStep(t), ~SendTx(t)
      PROVE  TxOnce'
  <2>1. UNCHANGED tx /\ \A u \in Tasks : phase'[u] \in Early => phase[u] \in Early
    <3> USE DEF GoTo
    <3>1. CASE Dispatch(t) \/ AcquireSkip(t) \/ AcquireWin(t) \/ ReadHolding(t) \/ CheckCount(t)
      BY <3>1 DEF Dispatch, Spawn, AcquireSkip, AcquireWin, ReadHolding, CheckCount
    <3>2. CASE Screen(t) \/ SendFails(t) \/ BuyReturns(t) \/ BuyErrs(t)
      BY <3>2 DEF Screen, SendFails, BuyReturns, BuyErrs
    <3>3. CASE RegisterNew(t) \/ RegisterMore(t) \/ PersistNew(t) \/ Release(t)
      BY <3>3 DEF RegisterNew, RegisterMore, PersistNew, Release
    <3> QED BY <1>4, <3>1, <3>2, <3>3 DEF TaskStep
  <2> QED BY <2>1
<1>5. CASE Crash
  BY <1>5 DEF Crash
<1>6. CASE SellStep
  BY <1>1, <1>6 DEF SellStep, buyVars
<1>7. CASE UNCHANGED vars
  BY <1>1, <1>7 DEF vars, buyVars
<1>8. CASE BuyStep
  <2>1. PICK t \in Tasks : Dispatch(t) \/ TaskStep(t) \/ ChainStep(t)
    BY <1>8 DEF BuyStep
  <2> QED BY <1>2, <1>3, <1>4, <2>1 DEF ChainStep
<1> QED BY <1>5, <1>6, <1>7, <1>8 DEF Next

\* only a registration makes a position, and no other task has the mint then
LEMMA NewOnlyStep ==
  ASSUME MapInv, NewOnly, [Next]_vars
  PROVE  NewOnly'
<1> SUFFICES ASSUME ~AllowAccumulate,
                    \A t \in Tasks : /\ phase[t] = "acquired" => ~Held(MintOf[t])
                                     /\ phase[t] \in DecidedPhases => ~already[t],
                    NEW u \in Tasks
             PROVE  /\ phase'[u] = "acquired" => ~Held(MintOf[u])'
                    /\ phase'[u] \in DecidedPhases => ~already'[u]
  BY DEF NewOnly
<1> USE BuyTasksAssumption
    DEF MapInv, TypeOK, PositionsTypeOK, BuyTypeOK, Positions, GoTo, DecidedPhases
<1>1. CASE UNCHANGED <<phase, already>> /\ \A m \in Mints : Shrunk(m)
  BY <1>1 DEF Shrunk
<1>2. ASSUME NEW t \in Tasks,
             Dispatch(t) \/ AcquireSkip(t) \/ CheckCount(t) \/ Screen(t) \/ SendFails(t)
               \/ SendTx(t) \/ BuyReturns(t) \/ BuyErrs(t) \/ PersistNew(t) \/ Release(t)
      PROVE  /\ phase'[u] = "acquired" => ~Held(MintOf[u])'
             /\ phase'[u] \in DecidedPhases => ~already'[u]
  BY <1>2 DEF Dispatch, Spawn, AcquireSkip, CheckCount, Screen, SendFails, SendTx,
              BuyReturns, BuyErrs, PersistNew, Release, Held
<1>3. ASSUME NEW t \in Tasks, AcquireWin(t) \/ ReadHolding(t)
      PROVE  /\ phase'[u] = "acquired" => ~Held(MintOf[u])'
             /\ phase'[u] \in DecidedPhases => ~already'[u]
  BY <1>3 DEF AcquireWin, AcquireRefused, ReadHolding, Held
<1>4. ASSUME NEW t \in Tasks, RegisterNew(t) \/ RegisterMore(t)
      PROVE  /\ phase'[u] = "acquired" => ~Held(MintOf[u])'
             /\ phase'[u] \in DecidedPhases => ~already'[u]
  <2>1. phase[u] = "acquired" /\ u # t => MintOf[u] # MintOf[t]
    BY <1>4 DEF SlotInv, BuyExclusion, SlotPhases, RegisterNew, RegisterMore
  <2>2. /\ \A m \in Mints : m # MintOf[t] => positions'[m] = positions[m]
        /\ phase' = [phase EXCEPT ![t] = phase'[t]]
        /\ phase'[t] \in {"persisting", "releasing"}
        /\ already' = already
    BY <1>4 DEF RegisterNew, RegisterMore, AddPosition, AccumulatePosition
  <2> QED BY <2>1, <2>2 DEF Held
<1>5. CASE BuyStep
  <2>1. PICK t \in Tasks : Dispatch(t) \/ TaskStep(t) \/ ChainStep(t)
    BY <1>5 DEF BuyStep
  <2>2. CASE ChainStep(t)
    BY <2>2 DEF ChainStep, Land, Drop, Held
  <2> QED BY <1>2, <1>3, <1>4, <2>1, <2>2 DEF TaskStep
<1>6. CASE SellStep
  BY <1>1, <1>6, SellShrinks DEF SellStep, buyVars
<1>7. CASE Crash
  BY <1>7 DEF Crash
<1>8. CASE UNCHANGED vars
  BY <1>1, <1>8 DEF vars, buyVars, Shrunk, Held
<1> QED BY <1>5, <1>6, <1>7, <1>8 DEF Next

(***************************************************************************)
(* A mint that is bought but once and not registered yet: the sell side    *)
(* has nothing of it and can make nothing of it.                           *)
(***************************************************************************)
LEMMA SellLeavesUntouched ==
  ASSUME TypeOK, NEW m \in Mints, Untouched(m), SellNext
  PROVE  Untouched(m)'
<1> USE DEF TypeOK, PositionsTypeOK, SellTypeOK
<1>1. ~Held(m)'
  BY SellShrinks DEF Untouched, Shrunk
<1>2. Len(sellQueue) \in Nat /\ sellQueue \in Seq(Order)
  OBVIOUS
<1>3. m \notin monTodo
  BY DEF Untouched, HeldIn
<1>4. ASSUME UNCHANGED <<monSnap, monPc, monOrder, sellQueue, execPc, execOrder, mirrorOrder>>
      PROVE  Untouched(m)'
  BY <1>1, <1>4 DEF Untouched
<1>5. CASE MonStep
  <2>1. CASE MonTick \/ MonTickEmpty \/ MonTickDone \/ RevalStart
    BY <1>1, <2>1
    DEF MonTick, MonTickEmpty, MonTickDone, RevalStart, Untouched, Held, sellVars, execVars,
        mainVars
  <2>2. ASSUME NEW n \in Mints, MonHold(n) \/ MonMigrated(n)
        PROVE  Untouched(m)'
    BY <1>4, <2>2 DEF MonHold, MonMigrated, execVars, mainVars
  <2>3. ASSUME NEW n \in Mints, MonDecide(n)
        PROVE  Untouched(m)'
    <3>1. n # m
      BY <1>3, <2>3 DEF MonDecide
    <3>2. monOrder'.mint = n
      BY <2>3 DEF MonDecide, Triggered, TpOrders, SlOrders, ExitOrders, LevelOrder
    <3> QED BY <1>1, <2>3, <3>1, <3>2 DEF MonDecide, Untouched, execVars, mainVars
  <2>4. CASE MonQueue
    <3>1. monOrder.mint # m
      BY <2>4 DEF MonQueue, Untouched
    <3>2. \A i \in 1 .. Len(sellQueue') : sellQueue'[i].mint # m
      BY <1>2, <2>4, <3>1 DEF MonQueue, Untouched
    <3> QED BY <1>1, <2>4, <3>1, <3>2 DEF MonQueue, Untouched, execVars, mainVars
  <2>5. CASE MonMark
    BY <1>1, <2>5 DEF MonMark, Untouched, execVars, mainVars
  <2> QED BY <1>5, <2>1, <2>2, <2>3, <2>4, <2>5 DEF MonStep
<1>6. CASE ValStep
  <2>1. PICK v \in Validations :
          (\E n \in Mints : ValKeep(v, n) \/ ValFindsNone(v, n)) \/ ValRemove(v) \/ ValDone(v)
    BY <1>6 DEF ValStep
  <2>2. CASE ValDone(v)
    BY <1>1, <2>2 DEF ValDone, Untouched, execVars, mainVars
  <2> QED BY <1>4, <2>1, <2>2 DEF ValKeep, ValFindsNone, ValRemove, monVars, execVars, mainVars
<1>7. CASE MirrorStep
  <2>1. ASSUME NEW n \in Mints, MirrorDecide(n)
        PROVE  Untouched(m)'
    <3>1. n # m
      BY <2>1 DEF MirrorDecide, Untouched
    <3>2. mirrorOrder'.mint = n
      BY <2>1 DEF MirrorDecide
    <3> QED BY <1>1, <2>1, <3>1, <3>2 DEF MirrorDecide, Untouched, monVars, execVars
  <2>2. ASSUME NEW n \in Mints, MirrorSkip(n)
        PROVE  Untouched(m)'
    BY <1>4, <2>2 DEF MirrorSkip, monVars, execVars
  <2>3. CASE MirrorQueue
    <3>1. mirrorOrder.mint # m /\ mirrorOrder \in Order
      BY <2>3 DEF MirrorQueue, Untouched
    <3>2. \A i \in 1 .. Len(sellQueue') : sellQueue'[i].mint # m
      BY <1>2, <2>3, <3>1 DEF MirrorQueue, Untouched
    <3> QED BY <1>1, <2>3, <3>2 DEF MirrorQueue, Untouched, monVars, execVars
  <2> QED BY <1>7, <2>1, <2>2, <2>3 DEF MirrorStep
<1>8. CASE ExecStep
  <2>1. CASE ExecTake \/ ExecSkip
    <3>1. Head(sellQueue) = sellQueue[1] /\ 1 \in 1 .. Len(sellQueue)
      BY <1>2, <2>1 DEF ExecTake, ExecSkip
    <3>2. Head(sellQueue).mint # m
      BY <3>1 DEF Untouched
    <3>3. \A i \in 1 .. Len(sellQueue') : sellQueue'[i].mint # m
      <4>1. sellQueue' = Tail(sellQueue) /\ sellQueue # <<>>
        BY <2>1 DEF ExecTake, ExecSkip
      <4>2. \A i \in 1 .. Len(sellQueue') :
              i + 1 \in 1 .. Len(sellQueue) /\ sellQueue'[i] = sellQueue[i + 1]
        BY <1>2, <4>1
      <4> QED BY <4>2 DEF Untouched
    <3> QED
      BY <1>1, <2>1, <3>2, <3>3 DEF ExecTake, ExecSkip, Untouched, monVars, execVars, mainVars
  <2>2. CASE ExecFail \/ ExecAbandon \/ ExecNothingToSell \/ ExecDone
    BY <1>1, <2>2
    DEF ExecFail, ExecAbandon, ExecNothingToSell, ExecDone, ExecIdles, Untouched, monVars, mainVars
  <2>3. CASE ExecSend
    <3>1. execOrder.mint # m
      BY <2>3 DEF ExecSend, Untouched
    <3> QED BY <1>1, <2>3, <3>1 DEF ExecSend, Untouched, monVars, mainVars
  <2> QED BY <1>8, <2>1, <2>2, <2>3 DEF ExecStep
<1> QED BY <1>5, <1>6, <1>7, <1>8 DEF SellNext

LEMMA FirstBuysStep ==
  ASSUME MapInv, FirstBuys, [Next]_vars
  PROVE  FirstBuys'
<1> DEFINE Early(t) == phase[t] \notin {"persisting", "releasing", "done"}
<1> SUFFICES ASSUME OneBuyEach, crashes' = 0, NEW u \in Tasks, Early(u)'
             PROVE  Untouched(MintOf[u])'
  BY DEF FirstBuys
<1> USE BuyTasksAssumption DEF MapInv, TypeOK, PositionsTypeOK, BuyTypeOK
<1>1. ~ Crash /\ crashes = 0
  BY DEF Crash, Next, BuyStep, SellStep, vars
<1>2. MintOf[u] \in Mints
  OBVIOUS
<1>3. Early(u) => Untouched(MintOf[u])
  BY <1>1 DEF FirstBuys
<1>4. CASE UNCHANGED vars
  BY <1>3, <1>4 DEF vars, buyVars, sellVars, Untouched, Held
<1>5. CASE SellStep
  BY <1>2, <1>3, <1>5, SellLeavesUntouched DEF SellStep, buyVars
<1>6. CASE BuyStep
  <2>1. PICK t \in Tasks : Dispatch(t) \/ TaskStep(t) \/ ChainStep(t)
    BY <1>6 DEF BuyStep
  <2>2. Early(u)
    BY <2>1
    DEF Dispatch, TaskStep, ChainStep, Land, Drop, Spawn, AcquireSkip, AcquireWin, ReadHolding,
        CheckCount, Screen, SendFails, SendTx, BuyReturns, BuyErrs, RegisterNew, RegisterMore,
        PersistNew, Release, GoTo
  <2>3. positions'[MintOf[u]] = positions[MintOf[u]]
    <3>1. CASE RegisterNew(t) \/ RegisterMore(t)
      <4>1. u # t
        BY <3>1 DEF RegisterNew, RegisterMore, GoTo
      <4>2. MintOf[u] # MintOf[t]
        BY <4>1 DEF OneBuyEach
      <4> QED BY <3>1, <4>2
          DEF RegisterNew, RegisterMore, AddPosition, AccumulatePosition, Positions
    <3>2. CASE ~ (RegisterNew(t) \/ RegisterMore(t))
      BY <2>1, <3>2
      DEF Dispatch, TaskStep, ChainStep, Land, Drop, Spawn, AcquireSkip, AcquireWin, ReadHolding,
          CheckCount, Screen, SendFails, SendTx, BuyReturns, BuyErrs, PersistNew, Release
    <3> QED BY <3>1, <3>2
  <2> QED BY <1>3, <1>6, <2>2, <2>3 DEF BuyStep, sellVars, Untouched, Held
<1> QED BY <1>1, <1>4, <1>5, <1>6 DEF Next

-----------------------------------------------------------------------------
(* Claims.                                                                 *)

LEMMA CoverType ==
  ASSUME TypeOK, TxOnce, NEW m \in Mints
  PROVE  /\ Claim(m) \in Nat /\ wallet[m] \in Nat /\ Settling(m) \in Nat
         /\ IsFiniteSet(Unlanded(m))
         /\ Estimates(m) \in Nat
<1>1. Claim(m) \in Nat /\ wallet[m] \in Nat
  BY DEF TypeOK, PositionsTypeOK, Positions, Holding, Claim, Held
<1>2. Settling(m) \in Nat
  <2>1. execPc # "idle" => execOrder.amount \in Nat
    BY DEF TypeOK, SellTypeOK, Order, OrderRecord
  <2> QED BY <2>1 DEF Settling
<1>3. IsFiniteSet(Unlanded(m))
  <2>1. Unlanded(m) \subseteq {t \in Tasks : tx[t] # "none"}
    BY DEF Unlanded
  <2> QED BY <2>1, FS_Subset DEF TxOnce
<1>4. Estimates(m) \in Nat
  <2>1. Cardinality(Unlanded(m)) \in Nat
    BY <1>3, FS_CardinalityType
  <2> QED BY <2>1, BuyTasksAssumption DEF Estimates
<1> QED BY <1>1, <1>2, <1>3, <1>4

LEMMA FlagClaims ==
  ASSUME positions \in Positions, NEW m \in Mints, NEW flag \in BOOLEAN,
         SetPendingFlag(m, flag)
  PROVE  \A n \in Mints : Claim(n)' = Claim(n)
<1>1. Held(m) => Claim(m)' = Claim(m)
  BY FlagAlone DEF Claim
<1>2. ~Held(m) => Claim(m)' = Claim(m)
  BY DEF SetPendingFlag, Claim, Held, Positions
<1>3. \A n \in Mints \ {m} : Claim(n)' = Claim(n)
  BY FlagAlone DEF Claim, Held
<1> QED BY <1>1, <1>2, <1>3

LEMMA MigrationClaims ==
  ASSUME positions \in Positions, NEW m \in Mints, MarkMigrated(m)
  PROVE  \A n \in Mints : Claim(n)' = Claim(n)
<1>1. ASSUME Held(m) PROVE Claim(m)' = Claim(m)
  <2>1. positions[m] \in Holding
    BY <1>1 DEF Held, Positions
  <2>2. /\ [positions[m] EXCEPT !.migrated = TRUE] \in Holding
        /\ [positions[m] EXCEPT !.migrated = TRUE].amount = positions[m].amount
    BY <2>1 DEF Holding
  <2>3. positions'[m] = [positions[m] EXCEPT !.migrated = TRUE]
    BY <1>1 DEF MarkMigrated, Positions
  <2> QED BY <1>1, <2>2, <2>3, PositionsAssumption DEF Claim, Held
<1>2. ~Held(m) => Claim(m)' = Claim(m)
  BY DEF MarkMigrated, Claim, Held, Positions
<1>3. \A n \in Mints \ {m} : Claim(n)' = Claim(n)
  BY DEF MarkMigrated, Claim, Held, Positions
<1> QED BY <1>1, <1>2, <1>3

LEMMA RemovalClaims ==
  ASSUME positions \in Positions, NEW m \in Mints, RemoveEntry(m)
  PROVE  \A n \in Mints : Claim(n)' <= Claim(n)
<1>1. \A n \in Mints : Claim(n) \in Nat
  BY DEF Positions, Holding, Claim, Held
<1> QED BY <1>1 DEF RemoveEntry, Claim, Held, Positions

\* a sale takes its amount off the claim, or all that is left
LEMMA SaleClaims ==
  ASSUME positions \in Positions, NEW o \in Order, UpdateAfterSell(o)
  PROVE  /\ \A n \in Mints \ {o.mint} : Claim(n)' = Claim(n)
         /\ Claim(o.mint)' = SaturatingSub(Claim(o.mint), o.amount)
<1> DEFINE left == AfterSell(positions[o.mint], o)
<1>1. o.mint \in Mints /\ o.amount \in Nat
  BY DEF Order, OrderRecord
<1>2. positions' = [positions EXCEPT ![o.mint] =
                      IF Held(o.mint) /\ left.amount > 0 THEN left ELSE NoHolding]
  BY DEF UpdateAfterSell
<1>3. ASSUME Held(o.mint)
      PROVE  /\ left.amount = SaturatingSub(positions[o.mint].amount, o.amount)
             /\ left # NoHolding
             /\ positions[o.mint].amount \in Nat
  <2>1. positions[o.mint] \in Holding
    BY <1>1, <1>3 DEF Held, Positions
  <2>2. left \in Holding
    BY <2>1, AfterSellType
  <2>3. left.amount = SaturatingSub(positions[o.mint].amount, o.amount)
    BY <2>1 DEF AfterSell, Holding
  <2>4. left # NoHolding
    BY <2>2, PositionsAssumption
  <2> QED BY <2>1, <2>3, <2>4 DEF Holding
<1> HIDE DEF left
<1>4. Claim(o.mint)' = SaturatingSub(Claim(o.mint), o.amount)
  <2>1. positions'[o.mint] = IF Held(o.mint) /\ left.amount > 0 THEN left ELSE NoHolding
    BY <1>1, <1>2 DEF Positions
  <2>2. CASE Held(o.mint)
    BY <1>1, <1>3, <2>1, <2>2 DEF Claim, Held, SaturatingSub
  <2>3. CASE ~Held(o.mint)
    BY <1>1, <2>1, <2>3 DEF Claim, Held, SaturatingSub
  <2> QED BY <2>2, <2>3
<1>5. \A n \in Mints \ {o.mint} : Claim(n)' = Claim(n)
  BY <1>1, <1>2 DEF Claim, Held, Positions
<1> QED BY <1>4, <1>5

(***************************************************************************)
(* The sell side never raises a claim, and saves what it has or nothing.   *)
(***************************************************************************)
LEMMA SellLowersClaims ==
  ASSUME TypeOK, SellNext
  PROVE  /\ \A m \in Mints : Claim(m)' <= Claim(m)
         /\ disk' = disk \/ disk' = positions'
<1> USE DEF TypeOK, PositionsTypeOK, SellTypeOK
<1>1. \A m \in Mints : Claim(m) \in Nat
  BY DEF Claim, Held, Positions, Holding
<1>2. UNCHANGED positions => \A m \in Mints : Claim(m)' <= Claim(m)
  BY <1>1 DEF Claim, Held
<1>3. CASE MonStep
  <2>1. disk' = disk
    BY <1>3
    DEF MonStep, MonTick, MonTickEmpty, MonHold, MonMigrated, MonDecide, MonQueue, MonMark,
        MonTickDone, RevalStart, sellVars
  <2>2. ASSUME NEW n \in Mints, MonMigrated(n)
        PROVE  \A m \in Mints : Claim(m)' <= Claim(m)
    BY <1>1, <2>2, MigrationClaims DEF MonMigrated
  <2>3. CASE MonMark
    <3>1. monOrder.mint \in Mints
      BY <2>3 DEF MonMark, Order, OrderRecord
    <3>2. SetPendingFlag(monOrder.mint, TRUE) /\ positions \in Positions
      BY <2>3 DEF MonMark, SetPendingSell
    <3>3. \A m \in Mints : Claim(m)' = Claim(m)
      BY <3>1, <3>2, FlagClaims
    <3> QED BY <1>1, <2>1, <3>3
  <2>4. (\E n \in Mints : MonMigrated(n)) \/ MonMark \/ UNCHANGED positions
    BY <1>3
    DEF MonStep, MonTick, MonTickEmpty, MonHold, MonDecide, MonQueue, MonTickDone, RevalStart
  <2> QED BY <1>2, <2>1, <2>2, <2>3, <2>4
<1>4. CASE ValStep
  <2>1. PICK v \in Validations :
          (\E n \in Mints : ValKeep(v, n) \/ ValFindsNone(v, n)) \/ ValRemove(v) \/ ValDone(v)
    BY <1>4 DEF ValStep
  <2>2. CASE ValRemove(v)
    <3>1. valMint[v] \in Mints
      BY <2>2 DEF ValRemove
    <3> QED BY <1>1, <2>2, <3>1, RemovalClaims DEF ValRemove
  <2> QED BY <1>2, <2>1, <2>2 DEF ValKeep, ValFindsNone, ValDone, Persist
<1>5. CASE MirrorStep
  BY <1>2, <1>5 DEF MirrorStep, MirrorDecide, MirrorSkip, MirrorQueue
<1>6. CASE ExecStep
  <2>1. CASE ExecTake \/ ExecSkip \/ ExecSend
    BY <1>2, <2>1 DEF ExecTake, ExecSkip, ExecSend
  <2>2. CASE ExecFail \/ ExecAbandon
    <3>1. execOrder \in Order
      BY <2>2 DEF ExecFail, ExecAbandon, SellMayFail
    <3>2. execOrder.mint \in Mints
      BY <3>1 DEF Order, OrderRecord
    <3>3. positions \in Positions
          /\ (SetPendingFlag(execOrder.mint, FALSE) \/ UNCHANGED positions)
      BY <2>2 DEF ExecFail, ExecAbandon, ClearPendingSell
    <3>4. \A m \in Mints : Claim(m)' <= Claim(m)
      <4>1. CASE SetPendingFlag(execOrder.mint, FALSE)
        <5>1. \A m \in Mints : Claim(m)' = Claim(m)
          BY <3>2, <3>3, <4>1, FlagClaims
        <5> QED BY <1>1, <5>1
      <4> QED BY <1>2, <3>3, <4>1
    <3> QED BY <2>2, <3>4 DEF ExecFail, ExecAbandon
  <2>3. CASE ExecNothingToSell \/ ExecDone
    <3>1. UpdateAfterSell(execOrder) /\ execOrder \in Order
      BY <2>3 DEF ExecNothingToSell, ExecDone
    <3>2. PICK o \in Order : o = execOrder
      BY <3>1
    <3>3. o.amount \in Nat
      BY <3>2 DEF Order, OrderRecord
    <3>4. positions \in Positions /\ UpdateAfterSell(o)
      BY <3>1, <3>2
    <3>5. /\ \A n \in Mints \ {o.mint} : Claim(n)' = Claim(n)
          /\ Claim(o.mint)' = SaturatingSub(Claim(o.mint), o.amount)
      BY <3>4, SaleClaims
    <3>6. \A m \in Mints : Claim(m)' <= Claim(m)
      BY <1>1, <3>3, <3>5 DEF SaturatingSub
    <3> QED BY <3>1, <3>6 DEF UpdateAfterSell, Persist
  <2> QED BY <1>6, <2>1, <2>2, <2>3 DEF ExecStep
<1> QED BY <1>3, <1>4, <1>5, <1>6 DEF SellNext

(***************************************************************************)
(* It lowers what covers a claim only when it records a sell.              *)
(***************************************************************************)
Reserve(m) == wallet[m] + Settling(m)

LEMMA SellKeepsReserve ==
  ASSUME TypeOK, TxOnce, SellNext, ~RemoteFaults, ~ExecDone, NEW m \in Mints
  PROVE  Reserve(m) <= Reserve(m)'
<1> USE DEF TypeOK, PositionsTypeOK, SellTypeOK
<1>1. wallet[m] \in Nat /\ Settling(m) \in Nat /\ Reserve(m) \in Nat
  BY CoverType DEF Reserve
<1>2. UNCHANGED <<wallet, execPc, execOrder>> => Reserve(m)' = Reserve(m)
  BY DEF Reserve, Settling
<1>3. CASE MonStep \/ ValStep \/ MirrorStep \/ ExecSkip
  <2>1. UNCHANGED <<wallet, execPc, execOrder>>
    <3>1. CASE MonStep
      BY <3>1
      DEF MonStep, MonTick, MonTickEmpty, MonHold, MonMigrated, MonDecide, MonQueue, MonMark,
          MonTickDone, RevalStart, execVars, sellVars
    <3>2. CASE ValStep
      BY <3>2 DEF ValStep, ValKeep, ValFindsNone, ValRemove, ValDone, execVars
    <3>3. CASE MirrorStep \/ ExecSkip
      BY <3>3 DEF MirrorStep, MirrorDecide, MirrorSkip, MirrorQueue, ExecSkip, execVars
    <3> QED BY <1>3, <3>1, <3>2, <3>3
  <2> QED BY <1>1, <1>2, <2>1
<1>4. CASE ExecTake \/ ExecFail \/ ExecAbandon \/ ExecNothingToSell
  <2>1. execPc # "settling" /\ execPc' # "settling" /\ wallet' = wallet
    BY <1>4
    DEF ExecTake, ExecFail, ExecAbandon, ExecNothingToSell, SellMayFail, ExecIdles
  <2> QED BY <1>1, <2>1 DEF Reserve, Settling
<1>5. CASE ExecSend
  <2>1. execOrder \in Order /\ execOrder.mint \in Mints /\ execOrder.amount \in Nat
    BY <1>5 DEF ExecSend, Order, OrderRecord
  <2>2. execPc = "selling" /\ execPc' = "settling" /\ execOrder' = execOrder
    BY <1>5 DEF ExecSend
  <2>3. CASE wallet' = wallet
    BY <1>1, <2>1, <2>2, <2>3 DEF Reserve, Settling
  <2>4. CASE wallet' = [wallet EXCEPT ![execOrder.mint] = @ - execOrder.amount]
    <3>1. wallet'[m] = IF m = execOrder.mint THEN wallet[m] - execOrder.amount ELSE wallet[m]
      BY <2>1, <2>4
    <3> QED BY <1>1, <2>1, <2>2, <3>1 DEF Reserve, Settling
  <2> QED BY <1>5, <2>3, <2>4 DEF ExecSend
<1> QED BY <1>3, <1>4, <1>5 DEF SellNext, ExecStep

\* a recorded sell
LEMMA DoneClaims ==
  ASSUME TypeOK, ExecDone, NEW m \in Mints
  PROVE  /\ m # execOrder.mint => Claim(m)' = Claim(m) /\ Reserve(m)' = Reserve(m)
         /\ m = execOrder.mint =>
              /\ Claim(m)' = SaturatingSub(Claim(m), execOrder.amount)
              /\ Reserve(m)' = wallet[m]
              /\ Reserve(m) = wallet[m] + execOrder.amount
<1> USE DEF TypeOK, PositionsTypeOK, SellTypeOK
<1>1. execOrder \in Order /\ execPc = "settling" /\ execPc' = "idle" /\ wallet' = wallet
  BY DEF ExecDone, ExecIdles
<1>2. execOrder.mint \in Mints /\ execOrder.amount \in Nat /\ wallet[m] \in Nat
  BY <1>1 DEF Order, OrderRecord
<1> QED BY <1>1, <1>2, SaleClaims DEF ExecDone, Reserve, Settling

(***************************************************************************)
(* Recording a sell while a buy of the same mint waits for its tokens: the *)
(* order is covered by the position, since nothing else could have sold    *)
(* from it.                                                                *)
(***************************************************************************)
LEMMA DoneIsCovered ==
  ASSUME SellInv, FirstBuys, Honest, execPc = "settling",
         NEW t \in Tasks, phase[t] \in {"awaiting", "registering"},
         MintOf[t] = execOrder.mint
  PROVE  execOrder.amount <= Claim(execOrder.mint)
<1>1. CASE targetSells = 0
  <2>1. MonitorOnly
    BY <1>1 DEF Honest, MonitorOnly
  <2>2. Covers(positions[execOrder.mint], execOrder)
    BY <2>1 DEF SellInv, OrderInv, OrdersSound, Sound
  <2> QED BY <2>2 DEF Covers, Claim, Held
<1>2. CASE OneBuyEach
  <2>1. Untouched(MintOf[t])
    BY <1>2 DEF Honest, FirstBuys
  <2> QED BY <2>1 DEF Untouched
<1> QED BY <1>1, <1>2 DEF Honest

LEMMA SellKeepsClaims ==
  ASSUME SellInv, TypeOK', TxOnce, FirstBuys, Honest, ClaimsCovered,
         SellNext, UNCHANGED buyVars
  PROVE  ClaimsCovered'
<1>1. TypeOK /\ ~RemoteFaults
  BY DEF SellInv, MapInv, Honest
<1>2. TxOnce'
  BY DEF TxOnce, buyVars
<1>3. ASSUME NEW m \in Mints
      PROVE  /\ Claim(m) \in Nat /\ Estimates(m) \in Nat /\ Reserve(m) \in Nat
             /\ wallet[m] \in Nat
             /\ Cover(m) = Reserve(m) + Estimates(m)
             /\ Claim(m)' \in Nat /\ Reserve(m)' \in Nat
             /\ Cover(m)' = Reserve(m)' + Estimates(m)
  <2>1. /\ Claim(m) \in Nat /\ Estimates(m) \in Nat /\ wallet[m] \in Nat /\ Settling(m) \in Nat
        /\ Cover(m) = Reserve(m) + Estimates(m)
    BY <1>1, CoverType DEF Cover, Reserve
  <2>2. Claim(m)' \in Nat
    BY DEF TypeOK, PositionsTypeOK, Positions, Holding, Claim, Held
  <2>3. wallet'[m] \in Nat
    BY DEF TypeOK, PositionsTypeOK
  <2>4. Settling(m)' \in Nat
    <3>1. execPc' # "idle" => execOrder'.amount \in Nat
      BY DEF TypeOK, SellTypeOK, Order, OrderRecord
    <3> QED BY <3>1 DEF Settling
  <2>5. Estimates(m)' = Estimates(m)
    BY DEF Estimates, Unlanded, buyVars
  <2> QED BY <2>1, <2>2, <2>3, <2>4, <2>5 DEF Cover, Reserve
<1>4. ASSUME NEW t \in Tasks
      PROVE  MintOf[t] \in Mints /\ Due(t) \in Nat /\ Due(t)' = Due(t)
  BY <1>1, BuyTasksAssumption DEF Due, TypeOK, BuyTypeOK, buyVars
<1>5. phase' = phase
  BY DEF buyVars
<1> HIDE DEF Cover, Reserve, Estimates, Claim, Due
<1>6. CASE ~ExecDone
  <2>1. \A m \in Mints : Claim(m)' <= Claim(m) /\ Reserve(m) <= Reserve(m)'
    BY <1>1, <1>6, SellLowersClaims, SellKeepsReserve
  <2>2. \A m \in Mints : Claim(m)' <= Claim(m) /\ Cover(m) <= Cover(m)'
    BY <1>3, <2>1
  <2>3. \A m \in Mints : Cover(m) \in Nat /\ Cover(m)' \in Nat
    BY <1>3
  <2> QED BY <1>3, <1>4, <1>5, <2>2, <2>3 DEF ClaimsCovered
<1>7. CASE ExecDone
  <2>1. execPc = "settling" /\ execOrder \in Order
    BY <1>1, <1>7 DEF ExecDone, TypeOK, SellTypeOK
  <2>2. PICK d \in Mints, a \in Nat : d = execOrder.mint /\ a = execOrder.amount
    BY <2>1 DEF Order, OrderRecord
  <2>3. ASSUME NEW m \in Mints, m # d
        PROVE  Claim(m)' = Claim(m) /\ Cover(m)' = Cover(m)
    <3>1. Claim(m)' = Claim(m) /\ Reserve(m)' = Reserve(m)
      BY <1>1, <1>7, <2>2, <2>3, DoneClaims
    <3> QED BY <1>3, <3>1
  <2>4. Claim(d)' = SaturatingSub(Claim(d), a) /\ Reserve(d) = Reserve(d)' + a
    BY <1>1, <1>7, <2>2, DoneClaims
  <2>5. Cover(d) = Cover(d)' + a
    BY <1>3, <2>4
  <2>6. /\ Claim(d) \in Nat /\ Cover(d) \in Nat /\ Cover(d)' \in Nat
        /\ Claim(d) <= Cover(d)
    BY <1>3 DEF ClaimsCovered
  <2>7. Claim(d)' <= Cover(d)'
    BY <2>4, <2>5, <2>6 DEF SaturatingSub
  <2>8. ASSUME NEW t \in Tasks, phase'[t] \in {"awaiting", "registering"}
        PROVE  Claim(MintOf[t])' + Due(t)' <= Cover(MintOf[t])'
    <3>1. Claim(MintOf[t]) + Due(t) <= Cover(MintOf[t])
      BY <1>5, <2>8 DEF ClaimsCovered
    <3>2. CASE MintOf[t] # d
      BY <1>4, <2>3, <3>1, <3>2
    <3>3. CASE MintOf[t] = d
      <4>1. a <= Claim(d)
        BY <1>5, <2>1, <2>2, <2>8, <3>3, DoneIsCovered
      <4>2. Claim(d)' = Claim(d) - a
        BY <2>4, <2>6, <4>1 DEF SaturatingSub
      <4> QED BY <1>4, <2>5, <2>6, <3>1, <3>3, <4>2
    <3> QED BY <3>2, <3>3
  <2>9. \A m \in Mints : Claim(m)' <= Cover(m)'
    BY <2>3, <2>7 DEF ClaimsCovered
  <2> QED BY <2>8, <2>9 DEF ClaimsCovered
<1> QED BY <1>6, <1>7

-----------------------------------------------------------------------------
(* Buys.                                                                   *)

LEMMA Distributes ==
  ASSUME NEW a \in Nat, NEW n \in Nat
  PROVE  a * (n + 1) = a * n + a
OBVIOUS

LEMMA SendEstimates ==
  ASSUME TypeOK, TxOnce, NEW t \in Tasks, SendTx(t), NEW m \in Mints
  PROVE  Estimates(m)' = IF m = MintOf[t] THEN Estimates(m) + BuyAmount ELSE Estimates(m)
<1>1. tx' = [tx EXCEPT ![t] = "sent"] /\ tx[t] = "none" /\ tx \in [Tasks -> TxStates]
  BY DEF SendTx, GoTo, TxOnce, TypeOK, BuyTypeOK
<1>2. CASE m = MintOf[t]
  <2>1. Unlanded(m)' = Unlanded(m) \cup {t} /\ t \notin Unlanded(m)
    BY <1>1, <1>2 DEF Unlanded
  <2>2. IsFiniteSet(Unlanded(m))
    BY CoverType
  <2>3. Cardinality(Unlanded(m)') = Cardinality(Unlanded(m)) + 1 /\ Cardinality(Unlanded(m)) \in Nat
    BY <2>1, <2>2, FS_AddElement, FS_CardinalityType
  <2> QED BY <1>2, <2>3, Distributes, BuyTasksAssumption DEF Estimates
<1>3. CASE m # MintOf[t]
  <2>1. Unlanded(m)' = Unlanded(m)
    BY <1>1, <1>3 DEF Unlanded
  <2> QED BY <1>3, <2>1 DEF Estimates
<1> QED BY <1>2, <1>3

LEMMA LandEstimates ==
  ASSUME TypeOK, TxOnce, NEW t \in Tasks, Land(t), NEW m \in Mints
  PROVE  Estimates(m) = IF m = MintOf[t] THEN Estimates(m)' + BuyAmount ELSE Estimates(m)'
<1>1. tx' = [tx EXCEPT ![t] = "landed"] /\ tx[t] = "sent" /\ tx \in [Tasks -> TxStates]
  BY DEF Land, TypeOK, BuyTypeOK
<1>2. CASE m = MintOf[t]
  <2>1. /\ Unlanded(m)' = Unlanded(m) \ {t}
        /\ Unlanded(m) = Unlanded(m)' \cup {t} /\ t \notin Unlanded(m)'
    BY <1>1, <1>2 DEF Unlanded
  <2>2. IsFiniteSet(Unlanded(m))
    BY CoverType
  <2>3. IsFiniteSet(Unlanded(m)')
    BY <2>1, <2>2, FS_RemoveElement
  <2>4. Cardinality(Unlanded(m)' \cup {t}) = Cardinality(Unlanded(m)') + 1
        /\ Cardinality(Unlanded(m)') \in Nat
    BY <2>1, <2>3, FS_AddElement, FS_CardinalityType
  <2>5. Cardinality(Unlanded(m)) = Cardinality(Unlanded(m)') + 1
    BY <2>1, <2>4
  <2> QED BY <1>2, <2>4, <2>5, Distributes, BuyTasksAssumption DEF Estimates
<1>3. CASE m # MintOf[t]
  <2>1. Unlanded(m)' = Unlanded(m)
    BY <1>1, <1>3 DEF Unlanded
  <2> QED BY <1>3, <2>1 DEF Estimates
<1> QED BY <1>2, <1>3

LEMMA EstimatesNext ==
  ASSUME TxOnce', NEW m \in Mints
  PROVE  Estimates(m)' \in Nat
<1>1. Unlanded(m)' \subseteq {t \in Tasks : tx'[t] # "none"}
  BY DEF Unlanded
<1>2. IsFiniteSet(Unlanded(m)')
  BY <1>1, FS_Subset DEF TxOnce
<1>3. Cardinality(Unlanded(m)') \in Nat
  BY <1>2, FS_CardinalityType
<1> QED BY <1>3, BuyTasksAssumption DEF Estimates

(***************************************************************************)
(* A registration adds to the claim what was due to the task.              *)
(***************************************************************************)
LEMMA RegistrationClaims ==
  ASSUME MapInv, NEW t \in Tasks, RegisterNew(t) \/ RegisterMore(t)
  PROVE  /\ \A m \in Mints : m # MintOf[t] => Claim(m)' = Claim(m)
         /\ Claim(MintOf[t])' <= Claim(MintOf[t]) + bought[t]
<1> USE BuyTasksAssumption DEF MapInv, TypeOK, PositionsTypeOK, BuyTypeOK
<1>1. PICK d \in Mints, a \in Nat : d = MintOf[t] /\ a = bought[t]
  OBVIOUS
<1>2. Claim(d) \in Nat
  BY DEF Claim, Held, Positions, Holding
<1>3. CASE RegisterNew(t)
  <2>1. ~Held(d)
    BY <1>1, <1>3 DEF NeverOverwritten, DecidedPhases, RegisterNew, GoTo
  <2>2. positions' = [positions EXCEPT ![d] = NewHolding(a, t \in AmmTasks)]
    BY <1>1, <1>3 DEF RegisterNew, AddPosition
  <2>3. /\ NewHolding(a, t \in AmmTasks) # NoHolding
        /\ NewHolding(a, t \in AmmTasks).amount = a
    BY NewHoldingType, PositionsAssumption
  <2>4. Claim(d)' = a /\ Claim(d) = 0
    BY <2>1, <2>2, <2>3 DEF Claim, Held, Positions
  <2>5. \A m \in Mints : m # d => Claim(m)' = Claim(m)
    BY <2>2 DEF Claim, Held, Positions
  <2> QED BY <1>1, <2>4, <2>5
<1>4. CASE RegisterMore(t)
  <2>1. positions' = [positions EXCEPT ![d] =
                        IF Held(d) THEN Accumulated(positions[d], a) ELSE NoHolding]
    BY <1>1, <1>4 DEF RegisterMore, AccumulatePosition
  <2>2. \A m \in Mints : m # d => Claim(m)' = Claim(m)
    BY <2>1 DEF Claim, Held, Positions
  <2>3. CASE Held(d)
    <3>1. positions[d] \in Holding
      BY <2>3 DEF Held, Positions
    <3>2. /\ Accumulated(positions[d], a) # NoHolding
          /\ Accumulated(positions[d], a).amount = positions[d].amount + a
      BY <3>1, AccumulatedType, AccumulatedFields, PositionsAssumption
    <3>3. Claim(d)' = Claim(d) + a
      BY <2>1, <2>3, <3>2 DEF Claim, Held, Positions
    <3> QED BY <1>1, <1>2, <2>2, <3>3
  <2>4. CASE ~Held(d)
    <3>1. Claim(d)' = 0
      BY <2>1, <2>4 DEF Claim, Held, Positions
    <3> QED BY <1>1, <1>2, <2>2, <3>1
  <2> QED BY <2>3, <2>4
<1> QED BY <1>3, <1>4

LEMMA BuyKeepsClaims ==
  ASSUME MapInv, TypeOK', TxOnce, TxOnce', NewOnly, Honest, ClaimsCovered, BuyStep
  PROVE  ClaimsCovered'
<1> DEFINE Buying(u) == phase[u] \in {"awaiting", "registering"}
<1>1. PICK t \in Tasks : Dispatch(t) \/ TaskStep(t) \/ ChainStep(t)
  BY DEF BuyStep
<1>2. PICK d \in Mints : d = MintOf[t]
  BY BuyTasksAssumption
<1>3. ASSUME NEW m \in Mints
      PROVE  /\ Claim(m) \in Nat /\ Estimates(m) \in Nat /\ wallet[m] \in Nat /\ Settling(m) \in Nat
             /\ Cover(m) = wallet[m] + Estimates(m) + Settling(m)
             /\ Claim(m)' \in Nat /\ Estimates(m)' \in Nat /\ wallet'[m] \in Nat
             /\ Cover(m)' = wallet'[m] + Estimates(m)' + Settling(m)
  <2>1. /\ Claim(m) \in Nat /\ Estimates(m) \in Nat /\ wallet[m] \in Nat /\ Settling(m) \in Nat
        /\ Cover(m) = wallet[m] + Estimates(m) + Settling(m)
    BY CoverType DEF Cover, MapInv
  <2>2. Claim(m)' \in Nat /\ wallet'[m] \in Nat
    BY DEF TypeOK, PositionsTypeOK, Positions, Holding, Claim, Held
  <2>3. Estimates(m)' \in Nat
    BY EstimatesNext
  <2>4. Settling(m)' = Settling(m)
    BY DEF BuyStep, sellVars, Settling
  <2> QED BY <2>1, <2>2, <2>3, <2>4 DEF Cover
<1>4. \A m \in Mints : Cover(m) \in Nat /\ Cover(m)' \in Nat /\ Claim(m) <= Cover(m)
  BY <1>3 DEF ClaimsCovered
<1>5. ASSUME NEW u \in Tasks
      PROVE  /\ MintOf[u] \in Mints /\ Due(u) \in Nat /\ Due(u)' \in Nat
             /\ Buying(u) => Claim(MintOf[u]) + Due(u) <= Cover(MintOf[u])
  BY BuyTasksAssumption DEF Due, MapInv, TypeOK, BuyTypeOK, ClaimsCovered
<1>6. UNCHANGED positions => \A m \in Mints : Claim(m)' = Claim(m)
  BY DEF Claim, Held
<1>7. UNCHANGED <<wallet, tx>> => \A m \in Mints : Cover(m)' = Cover(m)
  <2>1. UNCHANGED tx => \A m \in Mints : Estimates(m)' = Estimates(m)
    BY DEF Estimates, Unlanded
  <2> QED BY <1>3, <2>1
<1>8. /\ phase \in [Tasks -> Phases] /\ bought \in [Tasks -> Nat] /\ tx \in [Tasks -> TxStates]
      /\ wallet \in [Mints -> Nat]
  BY DEF MapInv, TypeOK, BuyTypeOK, PositionsTypeOK
<1> HIDE DEF Cover, Estimates, Claim
\* a step that leaves the positions alone is judged by what the task itself is due
<1>9. ASSUME UNCHANGED positions,
             \A m \in Mints : Cover(m) <= Cover(m)',
             \A u \in Tasks : Buying(u)' =>
               \/ Buying(u) /\ Due(u)' = Due(u)
               \/ u = t /\ Claim(d) + Due(t)' <= Cover(d)'
      PROVE  ClaimsCovered'
  <2>1. \A m \in Mints : Claim(m)' <= Cover(m)'
    BY <1>3, <1>4, <1>6, <1>9
  <2>2. ASSUME NEW u \in Tasks, Buying(u)'
        PROVE  Claim(MintOf[u])' + Due(u)' <= Cover(MintOf[u])'
    <3>1. CASE Buying(u) /\ Due(u)' = Due(u)
      BY <1>3, <1>4, <1>5, <1>6, <1>9, <3>1
    <3>2. CASE u = t /\ Claim(d) + Due(t)' <= Cover(d)'
      BY <1>2, <1>6, <1>9, <3>2
    <3> QED BY <1>9, <2>2, <3>1, <3>2
  <2> QED BY <2>1, <2>2 DEF ClaimsCovered
<1>10. CASE Dispatch(t) \/ AcquireSkip(t) \/ AcquireWin(t) \/ ReadHolding(t) \/ CheckCount(t)
            \/ Screen(t) \/ SendFails(t) \/ BuyErrs(t) \/ PersistNew(t) \/ Release(t)
  <2>1. UNCHANGED <<positions, wallet, tx, bought>>
    BY <1>10 DEF Dispatch, Spawn, AcquireSkip, AcquireWin, ReadHolding, CheckCount, Screen,
                 SendFails, BuyErrs, PersistNew, Release
  <2>2. \A u \in Tasks : Buying(u)' => phase'[u] = phase[u]
    BY <1>8, <1>10
    DEF Dispatch, Spawn, AcquireSkip, AcquireWin, ReadHolding, CheckCount, Screen,
        SendFails, BuyErrs, PersistNew, Release, GoTo
  <2>3. \A u \in Tasks : Buying(u)' => Buying(u) /\ Due(u)' = Due(u)
    BY <2>1, <2>2 DEF Due
  <2> QED BY <1>4, <1>7, <1>9, <2>1, <2>3
<1>11. CASE SendTx(t)
  <2>1. UNCHANGED <<positions, wallet, bought>> /\ phase' = [phase EXCEPT ![t] = "awaiting"]
    BY <1>11 DEF SendTx, GoTo
  <2>2. \A m \in Mints : Estimates(m)' = IF m = d THEN Estimates(m) + BuyAmount ELSE Estimates(m)
    BY <1>2, <1>11, SendEstimates DEF MapInv
  <2>3. \A m \in Mints : Cover(m)' = IF m = d THEN Cover(m) + BuyAmount ELSE Cover(m)
    BY <1>3, <2>1, <2>2, BuyTasksAssumption
  <2>4. Due(t)' = BuyAmount
    BY <1>8, <2>1 DEF Due
  <2>5. \A u \in Tasks : u # t /\ Buying(u)' => Buying(u) /\ Due(u)' = Due(u)
    BY <1>8, <2>1 DEF Due
  <2>6. Claim(d) + Due(t)' <= Cover(d)'
    BY <1>3, <1>4, <2>3, <2>4, BuyTasksAssumption
  <2>7. \A m \in Mints : Cover(m) <= Cover(m)'
    BY <1>4, <2>3, BuyTasksAssumption
  <2> QED BY <1>9, <2>1, <2>5, <2>6, <2>7
<1>12. CASE BuyReturns(t)
  <2>1. UNCHANGED <<positions, wallet, tx>> /\ phase' = [phase EXCEPT ![t] = "registering"]
    BY <1>12 DEF BuyReturns, GoTo
  <2>2. PICK b \in Reports(t) : bought' = [bought EXCEPT ![t] = b]
    BY <1>12 DEF BuyReturns
  <2>3. Due(t)' = b /\ Due(t) = BuyAmount /\ Buying(t)
    BY <1>8, <1>12, <2>1, <2>2 DEF Due, BuyReturns, GoTo
  <2>4. \A u \in Tasks : u # t /\ Buying(u)' => Buying(u) /\ Due(u)' = Due(u)
    BY <1>8, <2>1, <2>2 DEF Due
  <2>5. b \in {0, BuyAmount} \/ (b = wallet[d] /\ ReadsBalance)
    BY <1>2, <2>2 DEF Reports
  <2>6. Claim(d) + b <= Cover(d)
    <3>1. CASE b \in {0, BuyAmount}
      BY <1>2, <1>3, <1>4, <1>5, <2>3, <3>1
    <3>2. CASE b = wallet[d] /\ ReadsBalance
      <4>1. ~AllowAccumulate
        BY <3>2 DEF Honest
      <4>2. ~already[t]
        BY <1>12, <4>1 DEF NewOnly, DecidedPhases, BuyReturns, GoTo
      <4>3. ~Held(d)
        BY <1>2, <1>12, <4>2 DEF MapInv, NeverOverwritten, DecidedPhases, BuyReturns, GoTo
      <4>4. Claim(d) = 0
        BY <4>3 DEF Claim
      <4> QED BY <1>3, <3>2, <4>4
    <3> QED BY <2>5, <3>1, <3>2
  <2> QED BY <1>4, <1>7, <1>9, <2>1, <2>3, <2>4, <2>6
<1>13. CASE Land(t)
  <2>1. UNCHANGED <<positions, phase, bought>> /\ wallet' = [wallet EXCEPT ![d] = @ + BuyAmount]
    BY <1>2, <1>13 DEF Land
  <2>2. \A m \in Mints : Estimates(m) = IF m = d THEN Estimates(m)' + BuyAmount ELSE Estimates(m)'
    BY <1>2, <1>13, LandEstimates DEF MapInv
  <2>3. \A m \in Mints : wallet'[m] = IF m = d THEN wallet[m] + BuyAmount ELSE wallet[m]
    BY <1>8, <2>1
  <2>4. \A m \in Mints : Cover(m)' = Cover(m)
    BY <1>3, <2>2, <2>3, BuyTasksAssumption
  <2>5. \A u \in Tasks : Buying(u)' => Buying(u) /\ Due(u)' = Due(u)
    BY <2>1 DEF Due
  <2> QED BY <1>4, <1>9, <2>1, <2>4, <2>5
<1>14. CASE Drop(t)
  <2>1. UNCHANGED <<positions, phase, bought, wallet>>
    BY <1>14 DEF Drop
  <2>2. \A m \in Mints : Unlanded(m)' = Unlanded(m)
    BY <1>8, <1>14 DEF Drop, Unlanded
  <2>3. \A m \in Mints : Cover(m)' = Cover(m)
    BY <1>3, <2>1, <2>2 DEF Estimates
  <2>4. \A u \in Tasks : Buying(u)' => Buying(u) /\ Due(u)' = Due(u)
    BY <2>1 DEF Due
  <2> QED BY <1>4, <1>9, <2>1, <2>3, <2>4
<1>15. CASE RegisterNew(t) \/ RegisterMore(t)
  <2>1. UNCHANGED <<wallet, tx, bought>> /\ phase[t] = "registering"
        /\ phase' = [phase EXCEPT ![t] = phase'[t]] /\ phase'[t] \in {"persisting", "releasing"}
    BY <1>8, <1>15 DEF RegisterNew, RegisterMore, GoTo
  <2>2. \A m \in Mints : m # d => Claim(m)' = Claim(m)
    BY <1>2, <1>15, RegistrationClaims
  <2>3. Claim(d)' <= Claim(d) + Due(t) /\ Buying(t)
    BY <1>2, <1>15, <2>1, RegistrationClaims DEF Due
  <2>4. Claim(d)' <= Cover(d)
    BY <1>2, <1>3, <1>4, <1>5, <2>3
  <2>5. \A m \in Mints : Claim(m)' <= Cover(m)'
    BY <1>3, <1>4, <1>7, <2>1, <2>2, <2>4
  <2>6. ASSUME NEW u \in Tasks, Buying(u)'
        PROVE  Claim(MintOf[u])' + Due(u)' <= Cover(MintOf[u])'
    <3>1. u # t /\ Buying(u)
      BY <2>1, <2>6, <1>8
    <3>2. MintOf[u] # d
      BY <1>2, <2>1, <3>1 DEF MapInv, SlotInv, BuyExclusion, SlotPhases
    <3>3. Due(u)' = Due(u)
      BY <1>8, <2>1, <3>1 DEF Due
    <3> QED BY <1>5, <1>7, <2>1, <2>2, <3>1, <3>2, <3>3
  <2> QED BY <2>5, <2>6 DEF ClaimsCovered
<1> QED
  BY <1>1, <1>10, <1>11, <1>12, <1>13, <1>14, <1>15 DEF TaskStep, ChainStep


LEMMA HonestStays ==
  ASSUME TypeOK, [Next]_vars, Honest'
  PROVE  Honest /\ ~Crash
<1> USE TradingAssumption
    DEF TypeOK, SellTypeOK
<1>1. ~Crash /\ crashes = 0
  BY DEF Honest, Crash, Next, BuyStep, SellStep, vars
<1>2. targetSells' = 0 => targetSells = 0
  <2>1. CASE SellStep /\ MirrorStep
    BY <2>1 DEF MirrorStep, MirrorDecide, MirrorSkip, MirrorQueue
  <2>2. CASE SellStep /\ ~MirrorStep
    BY <2>2
    DEF SellStep, SellNext, MonStep, MonTick, MonTickEmpty, MonHold, MonMigrated, MonDecide,
        MonQueue, MonMark, MonTickDone, RevalStart, mainVars, sellVars, ValStep, ValKeep,
        ValFindsNone, ValRemove, ValDone, ExecStep, ExecTake, ExecSkip, ExecFail, ExecAbandon,
        ExecSend, ExecNothingToSell, ExecDone
  <2> QED BY <1>1, <2>1, <2>2 DEF Next, BuyStep, sellVars, vars
<1> QED BY <1>1, <1>2 DEF Honest, OneBuyEach

LEMMA BackedInvNext == SellInv /\ BackedInv /\ [Next]_vars => BackedInv'
<1> SUFFICES ASSUME SellInv, BackedInv, [Next]_vars PROVE BackedInv'
  OBVIOUS
<1>1. MapInv /\ TypeOK /\ TypeOK'
  BY TypeNext DEF SellInv, MapInv
<1>2. TxOnce' /\ NewOnly' /\ FirstBuys'
  BY <1>1, TxOnceStep, NewOnlyStep, FirstBuysStep DEF BackedInv
<1>3. ASSUME Honest' PROVE ClaimsCovered'
  <2>1. Honest /\ ~Crash /\ ClaimsCovered
    BY <1>1, <1>3, HonestStays DEF BackedInv
  <2>2. CASE BuyStep
    BY <1>1, <1>2, <2>1, <2>2, BuyKeepsClaims DEF BackedInv
  <2>3. CASE SellStep
    BY <1>1, <2>1, <2>3, SellKeepsClaims DEF BackedInv, SellStep
  <2>4. CASE UNCHANGED vars
    BY <2>1, <2>4
    DEF ClaimsCovered, Claim, Held, Cover, Estimates, Unlanded, Settling, Due,
        vars, buyVars, sellVars
  <2> QED BY <2>1, <2>2, <2>3, <2>4 DEF Next
<1> QED BY <1>2, <1>3 DEF BackedInv

LEMMA BackedInvInit == Init => BackedInv
<1> SUFFICES ASSUME Init PROVE BackedInv
  OBVIOUS
<1> USE BuyTasksAssumption DEF Init, PositionsInit, BuyInit, SellInit
<1>1. TypeOK
  BY TypeInit
<1>2. TxOnce
  <2>1. {t \in Tasks : tx[t] # "none"} = {}
    OBVIOUS
  <2> QED BY <2>1, FS_EmptySet DEF TxOnce
<1>3. NewOnly /\ FirstBuys
  BY DEF NewOnly, DecidedPhases, FirstBuys, Untouched, Held
<1>4. ClaimsCovered
  <2>1. \A m \in Mints : Claim(m) = 0
    BY DEF Claim, Held
  <2>2. \A m \in Mints : Cover(m) \in Nat
    BY <1>1, <1>2, CoverType DEF Cover
  <2> QED BY <2>1, <2>2 DEF ClaimsCovered
<1> QED BY <1>2, <1>3, <1>4 DEF BackedInv

(***************************************************************************)
(* Under the conditions of Honest a position never counts more tokens than *)
(* the wallet has, but for buys that have not landed and the one sell that *)
(* has landed and is not recorded.                                         *)
(***************************************************************************)
THEOREM PositionsBacked == Spec => []Backed
<1>1. Init => BackedInv
  BY BackedInvInit
<1>2. SellInv /\ BackedInv => Backed
  <2>1. ASSUME SellInv, BackedInv, Honest, NEW m \in Mints, Held(m)
        PROVE  positions[m].amount <=
                 wallet[m] + BuyAmount * Cardinality(Unlanded(m)) + Settling(m)
    <3>1. Claim(m) <= Cover(m)
      BY <2>1 DEF BackedInv, ClaimsCovered
    <3> QED BY <2>1, <3>1 DEF Claim, Cover, Estimates
  <2> QED BY <2>1 DEF Backed
<1> QED BY <1>1, <1>2, BackedInvNext, SellInvHolds, PTL DEF Spec

-----------------------------------------------------------------------------
(***************************************************************************)
(* Counting each buy once.  When no buy reads the balance of the account,  *)
(* a registration counts what its own transaction asked for, and a restart *)
(* brings back a position of the past, which claimed no more.              *)
(***************************************************************************)
Asked(m) == BuyAmount * Cardinality(Sent(m))

Filed(m) == IF disk[m] # NoHolding THEN disk[m].amount ELSE 0

EachCounted ==
  /\ \A m \in Mints : Claim(m) <= Asked(m) /\ Filed(m) <= Asked(m)
  /\ \A t \in Tasks : phase[t] \in {"awaiting", "registering"} =>
       Claim(MintOf[t]) + Due(t) <= Asked(MintOf[t])

CountedInv == TxOnce /\ (~ReadsBalance => EachCounted)

LEMMA AskedType ==
  ASSUME TxOnce, NEW m \in Mints
  PROVE  IsFiniteSet(Sent(m)) /\ Asked(m) \in Nat
<1>1. IsFiniteSet(Sent(m))
  <2>1. Sent(m) \subseteq {t \in Tasks : tx[t] # "none"}
    BY DEF Sent
  <2> QED BY <2>1, FS_Subset DEF TxOnce
<1>2. Cardinality(Sent(m)) \in Nat
  BY <1>1, FS_CardinalityType
<1> QED BY <1>1, <1>2, BuyTasksAssumption DEF Asked

\* only a buy that is sent asks for more
LEMMA AskedOnSend ==
  ASSUME TypeOK, TxOnce, NEW t \in Tasks, SendTx(t), NEW m \in Mints
  PROVE  Asked(m)' = IF m = MintOf[t] THEN Asked(m) + BuyAmount ELSE Asked(m)
<1>1. tx' = [tx EXCEPT ![t] = "sent"] /\ tx[t] = "none" /\ tx \in [Tasks -> TxStates]
  BY DEF SendTx, GoTo, TxOnce, TypeOK, BuyTypeOK
<1>2. CASE m = MintOf[t]
  <2>1. Sent(m)' = Sent(m) \cup {t} /\ t \notin Sent(m)
    BY <1>1, <1>2 DEF Sent
  <2>2. IsFiniteSet(Sent(m))
    BY AskedType
  <2>3. Cardinality(Sent(m)') = Cardinality(Sent(m)) + 1 /\ Cardinality(Sent(m)) \in Nat
    BY <2>1, <2>2, FS_AddElement, FS_CardinalityType
  <2> QED BY <1>2, <2>3, Distributes, BuyTasksAssumption DEF Asked
<1>3. CASE m # MintOf[t]
  <2>1. Sent(m)' = Sent(m)
    BY <1>1, <1>3 DEF Sent
  <2> QED BY <1>3, <2>1 DEF Asked
<1> QED BY <1>2, <1>3

LEMMA AskedOtherwise ==
  ASSUME \A t \in Tasks : tx'[t] = "none" <=> tx[t] = "none"
  PROVE  \A m \in Mints : Asked(m)' = Asked(m)
BY DEF Asked, Sent

LEMMA BuyKeepsCounts ==
  ASSUME MapInv, TypeOK', TxOnce, ~ReadsBalance, EachCounted, BuyStep
  PROVE  EachCounted'
<1> DEFINE Buying(u) == phase[u] \in {"awaiting", "registering"}
<1>1. PICK t \in Tasks : Dispatch(t) \/ TaskStep(t) \/ ChainStep(t)
  BY DEF BuyStep
<1>2. PICK d \in Mints : d = MintOf[t]
  BY BuyTasksAssumption
<1>3. ASSUME NEW m \in Mints
      PROVE  /\ Claim(m) \in Nat /\ Filed(m) \in Nat /\ Asked(m) \in Nat
             /\ Claim(m)' \in Nat /\ Filed(m)' \in Nat
             /\ Claim(m) <= Asked(m) /\ Filed(m) <= Asked(m)
  <2>1. Asked(m) \in Nat
    BY AskedType
  <2>2. Claim(m) <= Asked(m) /\ Filed(m) <= Asked(m)
    BY DEF EachCounted
  <2> QED BY <2>1, <2>2
      DEF MapInv, TypeOK, PositionsTypeOK, Positions, Holding, Claim, Held, Filed
<1>4. ASSUME NEW u \in Tasks
      PROVE  /\ MintOf[u] \in Mints /\ Due(u) \in Nat /\ Due(u)' \in Nat
             /\ Buying(u) => Claim(MintOf[u]) + Due(u) <= Asked(MintOf[u])
  BY BuyTasksAssumption DEF Due, MapInv, TypeOK, BuyTypeOK, EachCounted
<1>5. /\ phase \in [Tasks -> Phases] /\ bought \in [Tasks -> Nat] /\ tx \in [Tasks -> TxStates]
      /\ positions \in Positions
  BY DEF MapInv, TypeOK, BuyTypeOK, PositionsTypeOK
<1>6. UNCHANGED positions => \A m \in Mints : Claim(m)' = Claim(m)
  BY DEF Claim, Held
<1>7. UNCHANGED disk => \A m \in Mints : Filed(m)' = Filed(m)
  BY DEF Filed
<1>8. disk' = positions' => \A m \in Mints : Filed(m)' = Claim(m)'
  BY DEF Filed, Claim, Held
<1>9. UNCHANGED tx => \A m \in Mints : Asked(m)' = Asked(m)
  BY AskedOtherwise
<1> HIDE DEF Claim, Filed, Asked
\* a step that leaves the positions alone is judged by what the task itself is due
<1>10. ASSUME UNCHANGED positions,
              disk' = disk \/ disk' = positions',
              \A m \in Mints : Asked(m)' \in Nat /\ Asked(m) <= Asked(m)',
              \A u \in Tasks : Buying(u)' =>
                \/ Buying(u) /\ Due(u)' <= Due(u)
                \/ u = t /\ Claim(d) + Due(t)' <= Asked(d)'
       PROVE  EachCounted'
  <2>1. \A m \in Mints : Claim(m)' <= Asked(m)'
    BY <1>3, <1>6, <1>10
  <2>2. \A m \in Mints : Filed(m)' <= Asked(m)'
    BY <1>3, <1>7, <1>8, <1>10, <2>1
  <2>3. ASSUME NEW u \in Tasks, Buying(u)'
        PROVE  Claim(MintOf[u])' + Due(u)' <= Asked(MintOf[u])'
    <3>1. CASE Buying(u) /\ Due(u)' <= Due(u)
      BY <1>3, <1>4, <1>6, <1>10, <3>1
    <3>2. CASE u = t /\ Claim(d) + Due(t)' <= Asked(d)'
      BY <1>2, <1>6, <1>10, <3>2
    <3> QED BY <1>10, <2>3, <3>1, <3>2
  <2> QED BY <2>1, <2>2, <2>3 DEF EachCounted
<1>11. CASE Dispatch(t) \/ AcquireSkip(t) \/ AcquireWin(t) \/ ReadHolding(t) \/ CheckCount(t)
            \/ Screen(t) \/ SendFails(t) \/ BuyErrs(t) \/ PersistNew(t) \/ Release(t)
  <2>1. UNCHANGED <<positions, tx, bought>> /\ (disk' = disk \/ disk' = positions')
    BY <1>11 DEF Dispatch, Spawn, AcquireSkip, AcquireWin, ReadHolding, CheckCount, Screen,
                 SendFails, BuyErrs, PersistNew, Persist, Release
  <2>2. \A u \in Tasks : Buying(u)' => phase'[u] = phase[u]
    BY <1>5, <1>11
    DEF Dispatch, Spawn, AcquireSkip, AcquireWin, ReadHolding, CheckCount, Screen,
        SendFails, BuyErrs, PersistNew, Release, GoTo
  <2>3. \A u \in Tasks : Buying(u)' => Buying(u) /\ Due(u)' = Due(u)
    BY <2>1, <2>2 DEF Due
  <2> QED BY <1>3, <1>4, <1>9, <1>10, <2>1, <2>3
<1>12. CASE SendTx(t)
  <2>1. UNCHANGED <<positions, disk, bought>> /\ phase' = [phase EXCEPT ![t] = "awaiting"]
    BY <1>12 DEF SendTx, GoTo
  <2>2. \A m \in Mints : Asked(m)' = IF m = d THEN Asked(m) + BuyAmount ELSE Asked(m)
    BY <1>2, <1>12, AskedOnSend DEF MapInv
  <2>3. Due(t)' = BuyAmount
    BY <1>5, <2>1 DEF Due
  <2>4. \A u \in Tasks : u # t /\ Buying(u)' => Buying(u) /\ Due(u)' = Due(u)
    BY <1>5, <2>1 DEF Due
  <2>5. Claim(d) + Due(t)' <= Asked(d)'
    BY <1>3, <2>2, <2>3, BuyTasksAssumption
  <2>6. \A m \in Mints : Asked(m)' \in Nat /\ Asked(m) <= Asked(m)'
    BY <1>3, <2>2, BuyTasksAssumption
  <2> QED BY <1>4, <1>10, <2>1, <2>4, <2>5, <2>6
<1>13. CASE BuyReturns(t)
  <2>1. UNCHANGED <<positions, disk, tx>> /\ phase' = [phase EXCEPT ![t] = "registering"]
    BY <1>13 DEF BuyReturns, GoTo
  <2>2. PICK b \in Reports(t) : bought' = [bought EXCEPT ![t] = b]
    BY <1>13 DEF BuyReturns
  <2>3. b \in {0, BuyAmount}
    BY <2>2 DEF Reports
  <2>4. Due(t)' = b /\ Due(t) = BuyAmount /\ Buying(t)
    BY <1>5, <1>13, <2>1, <2>2 DEF Due, BuyReturns, GoTo
  <2>5. \A u \in Tasks : u # t /\ Buying(u)' => Buying(u) /\ Due(u)' = Due(u)
    BY <1>5, <2>1, <2>2 DEF Due
  <2>6. \A u \in Tasks : Buying(u)' => Buying(u) /\ Due(u)' <= Due(u)
    BY <1>4, <2>3, <2>4, <2>5, BuyTasksAssumption
  <2> QED BY <1>3, <1>9, <1>10, <2>1, <2>6
<1>14. CASE ChainStep(t)
  <2>1. UNCHANGED <<positions, disk, phase, bought>>
    BY <1>14 DEF ChainStep, Land, Drop
  <2>2. \A u \in Tasks : tx'[u] = "none" <=> tx[u] = "none"
    BY <1>5, <1>14 DEF ChainStep, Land, Drop
  <2>3. \A m \in Mints : Asked(m)' = Asked(m)
    BY <2>2, AskedOtherwise
  <2>4. \A u \in Tasks : Buying(u)' => Buying(u) /\ Due(u)' = Due(u)
    BY <2>1 DEF Due
  <2> QED BY <1>3, <1>4, <1>10, <2>1, <2>3, <2>4
<1>15. CASE RegisterNew(t) \/ RegisterMore(t)
  <2>1. /\ UNCHANGED <<tx, bought>> /\ phase[t] = "registering"
        /\ phase' = [phase EXCEPT ![t] = phase'[t]] /\ phase'[t] \in {"persisting", "releasing"}
        /\ disk' = disk \/ disk' = positions'
    BY <1>5, <1>15 DEF RegisterNew, RegisterMore, AccumulatePosition, Persist, GoTo
  <2>2. \A m \in Mints : m # d => Claim(m)' = Claim(m)
    BY <1>2, <1>15, RegistrationClaims
  <2>3. Claim(d)' <= Claim(d) + Due(t) /\ Buying(t)
    BY <1>2, <1>15, <2>1, RegistrationClaims DEF Due
  <2>4. Claim(d)' <= Asked(d)
    BY <1>2, <1>3, <1>4, <2>3
  <2>5. \A m \in Mints : Claim(m)' <= Asked(m)'
    BY <1>3, <1>9, <2>1, <2>2, <2>4
  <2>6. \A m \in Mints : Filed(m)' <= Asked(m)'
    BY <1>3, <1>7, <1>8, <1>9, <2>1, <2>5
  <2>7. ASSUME NEW u \in Tasks, Buying(u)'
        PROVE  Claim(MintOf[u])' + Due(u)' <= Asked(MintOf[u])'
    <3>1. u # t /\ Buying(u)
      BY <1>5, <2>1, <2>7
    <3>2. MintOf[u] # d
      BY <1>2, <2>1, <3>1 DEF MapInv, SlotInv, BuyExclusion, SlotPhases
    <3>3. Due(u)' = Due(u)
      BY <1>5, <2>1, <3>1 DEF Due
    <3> QED BY <1>4, <1>9, <2>1, <2>2, <3>1, <3>2, <3>3
  <2> QED BY <2>5, <2>6, <2>7 DEF EachCounted
<1> QED BY <1>1, <1>11, <1>12, <1>13, <1>14, <1>15 DEF TaskStep

LEMMA CountedInvNext == MapInv /\ CountedInv /\ [Next]_vars => CountedInv'
<1> SUFFICES ASSUME MapInv, CountedInv, [Next]_vars PROVE CountedInv'
  OBVIOUS
<1>1. TypeOK /\ TypeOK' /\ TxOnce /\ TxOnce'
  BY TypeNext, TxOnceStep DEF MapInv, CountedInv
<1>2. ASSUME ~ReadsBalance PROVE EachCounted'
  <2>1. EachCounted
    BY <1>2 DEF CountedInv
  <2>2. CASE BuyStep
    BY <1>1, <1>2, <2>1, <2>2, BuyKeepsCounts
  <2>3. ASSUME UNCHANGED buyVars,
               disk' = disk \/ disk' = positions',
               \A m \in Mints : Claim(m)' <= Claim(m)
        PROVE  EachCounted'
    <3>1. \A m \in Mints : Asked(m)' = Asked(m) /\ Asked(m) \in Nat
      BY <1>1, <2>3, AskedType, AskedOtherwise DEF buyVars
    <3>2. \A m \in Mints : Claim(m) \in Nat /\ Claim(m)' \in Nat
      BY <1>1 DEF TypeOK, PositionsTypeOK, Positions, Holding, Claim, Held
    <3>3. \A m \in Mints : Claim(m)' <= Asked(m)'
      BY <2>1, <2>3, <3>1, <3>2 DEF EachCounted
    <3>4. \A m \in Mints : Filed(m)' = Filed(m) \/ Filed(m)' = Claim(m)'
      BY <2>3 DEF Filed, Claim, Held
    <3>5. \A m \in Mints : Filed(m)' <= Asked(m)'
      BY <2>1, <3>1, <3>3, <3>4 DEF EachCounted
    <3>6. ASSUME NEW t \in Tasks, phase'[t] \in {"awaiting", "registering"}
          PROVE  Claim(MintOf[t])' + Due(t)' <= Asked(MintOf[t])'
      <4>1. Claim(MintOf[t]) + Due(t) <= Asked(MintOf[t])
        BY <2>1, <2>3, <3>6 DEF EachCounted, buyVars
      <4>2. Due(t)' = Due(t) /\ Due(t) \in Nat /\ MintOf[t] \in Mints
        BY <1>1, <2>3, BuyTasksAssumption DEF Due, TypeOK, BuyTypeOK, buyVars
      <4> QED BY <2>3, <3>1, <3>2, <4>1, <4>2
    <3> QED BY <3>3, <3>5, <3>6 DEF EachCounted
  <2>4. CASE SellStep
    BY <1>1, <2>3, <2>4, SellLowersClaims DEF SellStep
  <2>5. CASE UNCHANGED vars
    <3>1. \A m \in Mints : Claim(m)' <= Claim(m)
      BY <1>1, <2>5
      DEF vars, TypeOK, PositionsTypeOK, Positions, Holding, Claim, Held
    <3> QED BY <2>3, <2>5, <3>1 DEF vars
  <2>6. CASE Crash
    <3>1. \A m \in Mints : Asked(m)' = Asked(m)
      BY <2>6, AskedOtherwise DEF Crash
    <3>2. \A m \in Mints : /\ Claim(m)' = Filed(m) \/ Claim(m)' = 0
                           /\ Filed(m)' = Filed(m)
      BY <2>6 DEF Crash, Loaded, Claim, Held, Filed
    <3>3. \A t \in Tasks : phase'[t] \notin {"awaiting", "registering"}
      BY <2>6 DEF Crash
    <3>4. \A m \in Mints : Asked(m) \in Nat
      BY <1>1, AskedType
    <3> QED BY <2>1, <3>1, <3>2, <3>3, <3>4 DEF EachCounted
  <2> QED BY <2>2, <2>4, <2>5, <2>6 DEF Next
<1> QED BY <1>1, <1>2 DEF CountedInv

(***************************************************************************)
(* "add tokens from another buy": as long as no buy reads the balance of   *)
(* the account, a position never counts more tokens than the transactions  *)
(* of its mint asked for, over accumulations, lost answers and restarts.   *)
(***************************************************************************)
THEOREM BuysCountedOnce == Spec => [](~ReadsBalance => CountedOnce)
<1>1. Init => CountedInv
  <2> SUFFICES ASSUME Init PROVE CountedInv
    OBVIOUS
  <2>1. TxOnce
    BY BackedInvInit DEF BackedInv
  <2>2. \A m \in Mints : Claim(m) = 0 /\ Filed(m) = 0
    BY DEF Init, PositionsInit, Claim, Held, Filed
  <2>3. \A t \in Tasks : phase[t] = "idle"
    BY DEF Init, BuyInit
  <2> QED BY <2>1, <2>2, <2>3, AskedType DEF CountedInv, EachCounted
<1>2. CountedInv => (~ReadsBalance => CountedOnce)
  BY DEF CountedInv, EachCounted, CountedOnce, Claim, Asked
<1>3. Init => MapInv
  BY MapInvInit
<1> QED BY <1>1, <1>2, <1>3, MapInvNext, CountedInvNext, PTL DEF Spec

=============================================================================

------------------------------- MODULE BuySlot -------------------------------
(***************************************************************************)
(* What try_acquire_buy and release_buy promise between them: a mint is    *)
(* bought by at most one task at a time.  The comment above                *)
(* try_acquire_buy calls it the race-condition guard.                      *)
(***************************************************************************)
CONSTANTS Tasks, MintOf

VARIABLE holders      \* the tasks that own the buy slot of their mint

SlotInit == holders = {}

Take(t) ==
  /\ \A h \in holders : MintOf[h] # MintOf[t]
  /\ holders' = holders \cup {t}

Give(t) ==
  /\ t \in holders
  /\ holders' = holders \ {t}

(***************************************************************************)
(* A crash of the process frees every slot at once.                        *)
(***************************************************************************)
GiveAll == holders' = {}

SlotNext == (\E t \in Tasks : Take(t) \/ Give(t)) \/ GiveAll

SlotSpec == SlotInit /\ [][SlotNext]_holders
=============================================================================

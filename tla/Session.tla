------------------------------ MODULE Session -------------------------------
(***************************************************************************)
(* The process over several starts: the settings it reads, a buy task that *)
(* screens a coin with them, and the positions it leaves in a file for its *)
(* next start.                                                             *)
(***************************************************************************)
EXTENDS Settings, PositionFile, Screen

CONSTANTS
  Coins, Trades, Liquidities,   \* what a buy task may be faced with
  MaxCrashes,                   \* bound: crashes
  Nothing

Entries == [kind : {"fee", "other"}, whole : BOOLEAN, fee : Nat]

(***************************************************************************)
(* Amounts, percentages and fees are not negative; a mint account has at   *)
(* most one entry with a transfer fee.                                     *)
(***************************************************************************)
ASSUME SessionAssumption ==
  /\ MaxCrashes \in Nat
  /\ \A s \in Files :
       s.buyAmount \in Nat /\ s.mirrorPercent \in Nat /\ s.maxPosition \in Nat /\ s.maxFee \in Nat
  /\ \A t \in Trades : t.sol \in Nat \cup {Unknown}
  /\ \A c \in Coins :
       /\ c.extensions \in Seq(Entries)
       /\ \A i, j \in DOMAIN c.extensions :
            c.extensions[i].kind = "fee" /\ c.extensions[j].kind = "fee" => i = j

VARIABLES
  crashes,      \* so far
  task,         \* the place of the buy task
  mine,         \* the settings it has loaded
  order         \* the buy it has sent, and what it was decided on

vars == <<settingsVars, fileVars, crashes, task, mine, order>>

TaskPhases == {"idle", "screening", "sent"}
Up == watchPc # "down"

Orders ==
  [settings: Files, trade: Trades, coin: Coins, liquidity: Liquidities, lamports: Nat]

Init ==
  /\ SettingsInit
  /\ PositionFileInit
  /\ crashes = 0
  /\ task = "idle"
  /\ mine = Nothing
  /\ order = Nothing

TypeOK ==
  /\ SettingsTypeOK
  /\ PositionFileTypeOK
  /\ crashes \in 0 .. MaxCrashes
  /\ task \in TaskPhases
  /\ mine \in Files \cup {Nothing}
  /\ order \in Orders \cup {Nothing}
  /\ order # Nothing <=> task = "sent"

-----------------------------------------------------------------------------
(***************************************************************************)
(* A buy task loads the settings once and keeps them.                      *)
(***************************************************************************)
Detect ==
  /\ Running
  /\ task = "idle"
  /\ task' = "screening"
  /\ mine' = inForce
  /\ UNCHANGED <<settingsVars, fileVars, crashes, order>>

Decide ==
  /\ task = "screening"
  /\ \E t \in Trades, c \in Coins, l \in Liquidities, listed \in BOOLEAN :
       IF LetThrough(mine, t, c, l, listed)
         THEN /\ task' = "sent"
              /\ order' = [settings |-> mine, trade |-> t, coin |-> c,
                           liquidity |-> l, lamports |-> Spend(mine, t)]
         ELSE task' = "idle" /\ order' = order
  /\ mine' = Nothing
  /\ UNCHANGED <<settingsVars, fileVars, crashes>>

Bought ==
  /\ task = "sent"
  /\ Change("buy")
  /\ task' = "idle"
  /\ order' = Nothing
  /\ UNCHANGED <<settingsVars, crashes, mine>>

NotBought ==
  /\ task = "sent"
  /\ task' = "idle"
  /\ order' = Nothing
  /\ UNCHANGED <<settingsVars, fileVars, crashes, mine>>

(***************************************************************************)
(* A sell, a validation, and the saves.                                    *)
(***************************************************************************)
Positioned ==
  /\ Up
  /\ \/ ChangeAndSave("sell")
     \/ Change("validation")
     \/ \E s \in Savers : SaveStep(s)
  /\ UNCHANGED <<settingsVars, crashes, task, mine, order>>

Configured ==
  /\ Edit \/ Replace \/ LoadSettings \/ WatchStep
  /\ UNCHANGED <<fileVars, crashes, task, mine, order>>

Crash ==
  /\ crashes < MaxCrashes
  /\ crashes' = crashes + 1
  /\ SettingsCrash
  /\ LosePositions
  /\ task' = "idle"
  /\ order' = Nothing
  /\ mine' = Nothing

Next ==
  \/ Detect \/ Decide \/ Bought \/ NotBought
  \/ Positioned
  \/ Configured
  \/ Crash

Spec == Init /\ [][Next]_vars

-----------------------------------------------------------------------------
\* the Token-2022 transfer fee of a coin whose account is whole
ActualFees(c) ==
  {c.extensions[i].fee : i \in {i \in DOMAIN c.extensions :
                                  c.token2022 /\ c.extensions[i].kind = "fee"}}

Whole(c) == \A i \in DOMAIN c.extensions : c.extensions[i].whole

(***************************************************************************)
(* No buy that was sent breaks a rule its settings make of a coin that     *)
(* could be read, whatever else is wrong with the coin, whatever had to be *)
(* warned of, and though the highest fee is compared in 16 bits; nor does  *)
(* a replayed one spend more than the settings allow.                      *)
(***************************************************************************)
NeverLax ==
  task = "sent" =>
    LET s == order.settings
        c == order.coin
        t == order.trade
    IN  /\ c.readable =>
             /\ s.rejectMintAuthority => ~ c.mintAuthority
             /\ s.rejectFreezeAuthority => ~ c.freezeAuthority
             /\ s.rejectMutable => c.metadata # "mutable"
             /\ s.rejectFee /\ Whole(c) => \A fee \in ActualFees(c) : fee <= s.maxFee
             /\ s.saferSniping /\ s.maxLiquidity > 0 /\ order.liquidity # Unknown =>
                  order.liquidity <= s.maxLiquidity
        /\ Replays(s, t) /\ s.maxPosition > 0 => order.lamports <= s.maxPosition

(***************************************************************************)
(* Not so in the code, where max_position_sol is said to cap the fixed     *)
(* buy_amount too: only a replayed buy is capped.                          *)
(***************************************************************************)
SpendCapped ==
  task = "sent" /\ order.settings.maxPosition > 0 =>
    order.lamports <= order.settings.maxPosition
=============================================================================
